------------------------------- MODULE Capture -------------------------------
(***************************************************************************)
(* How an eval recovers its output from a pane that scrolls: the polling   *)
(* loop of run_marker_eval in src/tools.cpp with the splice of consecutive *)
(* captures, the extraction between the markers and the compaction of the  *)
(* accumulator, against run_command of src/julia_wrap.cpp, which prints.   *)
(*                                                                         *)
(* A row is a record: a marker of this eval, a row of text, a blank row    *)
(* below the text of a screen that is not full, or the note that replaces  *)
(* what was truncated.  The code works on bytes; rows stand for them as    *)
(* long as no row is a proper suffix of another.  Captures that fail and   *)
(* REPLs that restart are in EvalSession.                                  *)
(***************************************************************************)
EXTENDS Naturals, FiniteSets, SequencesExt

CONSTANTS
    Height,     \* rows of the screen
    Scrollback, \* poll_capture_lines: rows above the screen in a capture
    MaxAcc,     \* kMaxEvalAccumulatorBytes, in rows
    TailLines,  \* kEvalAccumulatorTailLines
    MaxRows     \* bound: rows in the pane, for every number of them that may look alike

\* As 1 MiB is more than twice 256 KiB and once 128 KiB with a few markers.
ASSUME SizesAssumption ==
    /\ Height \in Nat \ {0} /\ TailLines \in Nat \ {0}
    /\ Scrollback \in Nat /\ MaxAcc \in Nat
    /\ DOMAIN MaxRows \subseteq Nat /\ \A n \in DOMAIN MaxRows : MaxRows[n] \in Nat
    /\ MaxAcc >= 3 * (TailLines + 1) + 3

Window == Scrollback + Height
Phases == {"stdout", "value", "error", "backtrace"}
Tokens == {"ERROR", "OUT_END", "VAL_END", "BT", "END"}   \* the markers after BEGIN

Row(tag, n) == [tag |-> tag, n |-> n]
Marker(tag) == Row(tag, 0)
Blank == Row("blank", 0)
Same == Row("same", 0)
Fresh(n) == Row("fresh", n)        \* text that no other row has
Omitted(n) == Row("omitted", n)    \* "[JJMCP truncated: omitted n earlier line(s)]"
Rows == [tag : Tokens \cup {"BEGIN", "blank", "same", "fresh", "omitted"}, n : Nat]

VARIABLES
    pane,        \* the rows printed so far
    alike,       \* how many rows may look alike
    prog,        \* what run_command is printing
    output,      \* history: what it has printed in each phase
    pc,          \* the eval: polls, or has seen END
    acc, last,   \* accumulator, last_capture
    extract,     \* last_extract
    trimmed,     \* begin_trimmed
    polled,      \* history: rows in the pane at the last capture
    outrun,      \* history: more was printed between two captures than one shows
    plain,       \* history: captured screens were full and their rows all different
    compacted    \* history: the accumulator was cut

paneVars == <<pane, alike, prog, output>>
evalVars == <<pc, acc, last, extract, trimmed, polled, outrun, compacted>>
vars == <<paneVars, evalVars, plain>>

-----------------------------------------------------------------------------
(* Splicing. *)

\* The automaton of a pattern: from "state" rows matched to the most that are still
\* matched and can be followed by c, or to none.
FallBackToStart(state, c, pattern, pi) ==
    IF state < Len(pattern) /\ c = pattern[state + 1] THEN state ELSE 0
FallBack(state, c, pattern, pi) ==
    LET f[k \in 0..state] ==
            IF k = 0 \/ (k < Len(pattern) /\ c = pattern[k + 1]) THEN k ELSE f[pi[k]]
    IN f[state]
Advance(state, c, pattern, pi) ==
    LET k == FallBack(state, c, pattern, pi)
    IN IF k < Len(pattern) /\ c = pattern[k + 1] THEN k + 1 ELSE k

\* kmp_prefix_function: the longest proper border of every prefix, pi[i] those of the
\* first i + 1.
PrefixFunction(s) ==
    LET pi[i \in 0..(Len(s) - 1)] ==
            IF i = 0 THEN <<0>> ELSE Append(pi[i - 1], Advance(pi[i - 1][i], s[i + 1], s, pi[i - 1]))
    IN pi[Len(s) - 1]

ComputeOverlap(prior, current) ==
    IF prior = <<>> \/ current = <<>> THEN 0
    ELSE IF IsPrefix(prior, current) THEN Len(prior)
    ELSE LET pi == PrefixFunction(current)
             state[i \in 0..Len(prior)] ==
                 IF i = 0 THEN 0 ELSE Advance(state[i - 1], prior[i], current, pi)
         IN state[Len(prior)]

Splice(cap) ==
    IF acc = <<>> THEN cap
    ELSE IF cap = last THEN acc
    ELSE acc \o SubSeq(cap, ComputeOverlap(last, cap) + 1, Len(cap))

-----------------------------------------------------------------------------
(* Extraction and truncation. *)

IsToken(row) == row.tag \in Tokens
PhaseAfter(tag) ==
    CASE tag = "OUT_END" -> "value"
      [] tag = "ERROR"   -> "error"
      [] tag = "BT"      -> "backtrace"
      [] OTHER           -> "stdout"

\* What a phase gets of the rows between the markers: the text its last token is above.
Slice(s, phase) ==
    LET at[i \in 0..Len(s)] ==
            IF i = 0 THEN "stdout" ELSE IF IsToken(s[i]) THEN PhaseAfter(s[i].tag) ELSE at[i - 1]
        text[i \in 0..Len(s)] ==
            IF i = 0 THEN <<>>
            ELSE IF IsToken(s[i]) \/ at[i] # phase THEN text[i - 1] ELSE Append(text[i - 1], s[i])
    IN text[Len(s)]

JuliaError(found) == Contains(found.body, Marker("ERROR"))

FirstOf(tag, s) == SelectInSeq(s, LAMBDA row : row = Marker(tag))   \* or 0

\* From the first BEGIN to the next END, or to the last row.
Nothing == [begin |-> FALSE, end |-> FALSE, body |-> <<>>]
ExtractBetweenMarkers(s) ==
    LET begin == FirstOf("BEGIN", s)
        rest == SubSeq(s, begin + 1, Len(s))
        end == FirstOf("END", rest)
    IN IF begin = 0 THEN Nothing
       ELSE [begin |-> TRUE, end |-> end # 0,
             body |-> IF end = 0 THEN rest ELSE SubSeq(rest, 1, end - 1)]

TruncateTail(s) ==
    IF Len(s) <= TailLines THEN s
    ELSE <<Omitted(Len(s) - TailLines)>> \o SubSeq(s, Len(s) - TailLines + 1, Len(s))

\* compact_marker_accumulator: the end of every slice below the markers that were seen.
CompactValueFirst(found, s) ==
    LET If(tag, rest) == IF Contains(s, Marker(tag)) THEN <<Marker(tag)>> \o rest ELSE <<>>
        Kept(p) == TruncateTail(Slice(found.body, p))
    IN <<Marker("BEGIN")>> \o Kept("stdout")
       \o (IF Contains(s, Marker("OUT_END"))
           THEN If("OUT_END", Kept("value")) \o If("VAL_END", <<>>)
           ELSE If("ERROR", Kept("error") \o If("BT", Kept("backtrace"))))
       \o If("END", <<>>)
Compact(found, s) ==
    LET If(tag, rest) == IF Contains(s, Marker(tag)) THEN <<Marker(tag)>> \o rest ELSE <<>>
        Kept(p) == TruncateTail(Slice(found.body, p))
    IN <<Marker("BEGIN")>> \o Kept("stdout")
       \o (IF Contains(s, Marker("ERROR"))
           THEN If("ERROR", Kept("error") \o If("BT", Kept("backtrace")))
           ELSE If("OUT_END", Kept("value") \o If("VAL_END", <<>>)))
       \o If("END", <<>>)

\* The history above BEGIN, once, and what no BEGIN will be found for.
TrimToBegin(s) == SubSeq(s, FirstOf("BEGIN", s), Len(s))
DropHead(s) == SubSeq(s, Len(s) - MaxAcc \div 2 + 1, Len(s))

-----------------------------------------------------------------------------
Init ==
    /\ \E n \in {0, Height} : pane = [i \in 1..n |-> Fresh(i)] /\ polled = n
    /\ alike \in DOMAIN MaxRows
    /\ prog = "echo" /\ output = [p \in Phases |-> <<>>]
    /\ pc = "poll" /\ acc = <<>> /\ last = <<>> /\ extract = Nothing /\ trimmed = FALSE
    /\ outrun = FALSE /\ plain = TRUE /\ compacted = FALSE

\* capture-pane: what is above the screen and the screen, which blank rows fill.
PaddedPane == pane \o [i \in 1..(IF Len(pane) < Height THEN Height - Len(pane) ELSE 0) |-> Blank]
CapturedWhole == PaddedPane
Captured ==
    LET n == Len(PaddedPane) IN SubSeq(PaddedPane, IF n > Window THEN n - Window + 1 ELSE 1, n)

\* The capture is preferred to the accumulator.
FindInCapture(cap, s) == ExtractBetweenMarkers(cap)
FindInAccumulator(cap, s) == ExtractBetweenMarkers(s)
Find(cap, s) ==
    IF ExtractBetweenMarkers(cap).begin THEN ExtractBetweenMarkers(cap) ELSE ExtractBetweenMarkers(s)

TooLong(found, s) == ~found.end /\ Len(s) > MaxAcc
BoundedAfterBegin(found, s) ==
    IF TooLong(found, s) /\ found.begin THEN Compact(found, s) ELSE s
Bounded(found, s) ==
    IF ~TooLong(found, s) THEN s ELSE IF found.begin THEN Compact(found, s) ELSE DropHead(s)

Poll ==
    LET cap == Captured
        spliced == Splice(cap)
        found == Find(cap, spliced)
        trims == ~trimmed /\ found.begin /\ Contains(spliced, Marker("BEGIN"))
        long == IF trims THEN TrimToBegin(spliced) ELSE spliced
    IN /\ pc = "poll"
       /\ last' = cap /\ acc' = Bounded(found, long)
       /\ extract' = IF TooLong(found, long) /\ found.begin THEN ExtractBetweenMarkers(acc') ELSE found
       /\ trimmed' = (trimmed \/ found.begin)
       /\ pc' = IF extract'.end THEN "ended" ELSE "poll"
       /\ polled' = Len(pane)
       /\ outrun' = (outrun \/ Len(pane) - polled > Window)
       /\ plain' = (plain /\ Len(pane) >= Height)
       /\ compacted' = (compacted \/ TooLong(found, long))
       /\ UNCHANGED paneVars

-----------------------------------------------------------------------------
(* The pane. *)

\* Bound: once a row has been missed, none is missed again.
PrintRow(row) ==
    /\ pc = "poll" /\ Len(pane) < MaxRows[alike]
    /\ Len(pane) - polled <= IF outrun THEN Window - 1 ELSE Window
    /\ pane' = Append(pane, row)

\* run_command prints its markers: BEGIN, OUT_END, VAL_END and END, or ERROR, BT and
\* END once the code or the display of its value has thrown, or an interrupt came.
PrintMarker ==
    /\ \E step \in {<<"echo", "BEGIN", "stdout">>, <<"stdout", "OUT_END", "value">>,
                    <<"value", "VAL_END", "shown">>, <<"shown", "END", "prompt">>,
                    <<"stdout", "ERROR", "error">>, <<"value", "ERROR", "error">>,
                    <<"shown", "ERROR", "error">>, <<"error", "BT", "backtrace">>,
                    <<"error", "END", "prompt">>, <<"backtrace", "END", "prompt">>} :
         prog = step[1] /\ PrintRow(Marker(step[2])) /\ prog' = step[3]
    /\ UNCHANGED <<alike, output, evalVars, plain>>

\* The echo of the command, output of the code, and what the pane shows later.
PrintText ==
    /\ prog # "shown"
    /\ \E row \in {Fresh(Len(pane) + 1), Same} :
         /\ row = Same => Cardinality({i \in DOMAIN pane : pane[i] = Same}) < alike
         /\ PrintRow(row) /\ plain' = (plain /\ row # Same)
         /\ output' = IF prog \in Phases THEN [output EXCEPT ![prog] = Append(@, row)] ELSE output
    /\ UNCHANGED <<alike, prog, evalVars>>

\* The row at the cursor was captured before it was complete.
CompleteRow ==
    /\ pc = "poll" /\ pane # <<>> /\ pane[Len(pane)] = Same
    /\ pane' = [pane EXCEPT ![Len(pane)] = Fresh(Len(pane))]
    /\ output' = IF prog \in Phases
                 THEN [output EXCEPT ![prog] = [@ EXCEPT ![Len(@)] = Fresh(Len(pane))]]
                 ELSE output
    /\ UNCHANGED <<alike, prog, evalVars, plain>>

Next == Poll \/ PrintMarker \/ PrintText \/ CompleteRow
Spec == Init /\ [][Next]_vars

-----------------------------------------------------------------------------
TypeOK ==
    /\ {pane, acc, last} \subseteq Seq(Rows)
    /\ prog \in Phases \cup {"echo", "shown", "prompt"}
    /\ alike \in DOMAIN MaxRows /\ output \in [Phases -> Seq(Rows)]
    /\ pc \in {"poll", "ended"}
    /\ extract \in [begin : BOOLEAN, end : BOOLEAN, body : Seq(Rows)]
    /\ polled \in 0..Len(pane) /\ Len(last) <= Window
    /\ {trimmed, outrun, plain, compacted} \subseteq BOOLEAN

\* "Longest k such that prior.suffix(k) == current.prefix(k)" (julia_wrap.hpp:54), for
\* every two captures a pane can show one after the other.
IsOverlap(k, prior, current) ==
    SubSeq(prior, Len(prior) - k + 1, Len(prior)) = SubSeq(current, 1, k)
OverlapIsLongest ==
    [][last # <<>> /\ last' # last =>
         LET shorter == IF Len(last) < Len(last') THEN Len(last) ELSE Len(last')
         IN ComputeOverlap(last, last') =
              CHOOSE k \in 0..shorter :
                /\ IsOverlap(k, last, last')
                /\ \A m \in (k + 1)..shorter : ~IsOverlap(m, last, last')]_vars

\* The working set of an eval that goes on stays bounded, however much is printed.
AccumulatorBounded == pc = "poll" => Len(acc) <= MaxAcc

\* Unless more than a capture holds was printed between two polls, the poll after END
\* finds it, wherever BEGIN has scrolled, and whatever rows repeat, were captured half
\* printed or were compacted away: an eval that ended is not waited for.
EndIsSeen ==
    [][pc = "poll" /\ last' # last /\ ~outrun' /\ Contains(pane, Marker("END")) => pc' = "ended"]_vars

\* In the same conditions the eval fails exactly if the code threw.
VerdictIsRight ==
    pc = "ended" /\ ~outrun => JuliaError(extract) = Contains(pane, Marker("ERROR"))

\* The result is what the code printed, each part in its place: always when the last
\* capture still shows BEGIN, and from the accumulator when captures were full screens
\* of different rows that nothing was lost or cut between.
ResultIsOutput ==
    pc = "ended" /\ (Contains(last, Marker("BEGIN")) \/ (plain /\ ~outrun /\ ~compacted))
      => output = [p \in Phases |-> Slice(extract.body, p)]
=============================================================================
