----------------------------- MODULE TextMetrics -----------------------------
(***************************************************************************)
(* The size of a draft, counted while it is typed: TextMetrics             *)
(* (web/src/lib/text-metrics.ts) and the page that shows its reports       *)
(* (web/src/pages/Create.svelte).  A long text is counted in chunks, one   *)
(* per task of the browser; the draft may change between two of them.  A   *)
(* text is a sequence of UTF-16 units, each by what the count makes of it. *)
(***************************************************************************)
EXTENDS Integers, Sequences, FiniteSets

CONSTANTS
    Chunk,    \* CHUNK_UNITS
    Texts     \* the drafts

(* Units: a line feed, one, two and three bytes, and the halves of a pair. *)
Units == {"newline", "ascii", "two", "three", "high", "low"}

MeterAssumption ==
    Chunk \in Nat \ {0} /\ <<>> \in Texts /\ Texts \subseteq Seq(Units)

VARIABLES
    draft,    \* model.text of the page
    text,     \* the text being counted
    count,    \* offset, bytes and lines so far
    timer,    \* a chunk is scheduled
    shown     \* the measurement the page shows

vars == <<draft, text, count, timer, shown>>

Nothing == [offset |-> 0, bytes |-> 0, lines |-> 1]
Report(c, pending) == [bytes |-> c.bytes, lines |-> c.lines, pending |-> pending]

Init ==
    /\ draft = <<>> /\ text = <<>> /\ count = Nothing
    /\ timer = FALSE /\ shown = Report(Nothing, FALSE)

(* Position i of t begins a surrogate pair. *)
Paired(t, i) == t[i] = "high" /\ i < Len(t) /\ t[i + 1] = "low"

Width(unit) == CASE unit \in {"newline", "ascii"} -> 1
                 [] unit = "two" -> 2
                 [] OTHER -> 3

(* One turn of the loop of step(). *)
Take_PairInChunk(t, c, end) ==
    LET i == c.offset + 1
        pair == Paired(t, i) /\ i < end
    IN  [offset |-> IF pair THEN i + 1 ELSE i,
         bytes |-> c.bytes + IF pair THEN 4 ELSE Width(t[i]),
         lines |-> c.lines + IF t[i] = "newline" THEN 1 ELSE 0]
Take(t, c, end) ==
    LET i == c.offset + 1
        pair == Paired(t, i)
    IN  [offset |-> IF pair THEN i + 1 ELSE i,
         bytes |-> c.bytes + IF pair THEN 4 ELSE Width(t[i]),
         lines |-> c.lines + IF t[i] = "newline" THEN 1 ELSE 0]

Counted(t, c) ==
    LET end == IF c.offset + Chunk < Len(t) THEN c.offset + Chunk ELSE Len(t)
        turn[k \in 0 .. Chunk] ==
            IF k = 0 THEN c
            ELSE IF turn[k - 1].offset >= end THEN turn[k - 1]
            ELSE Take(t, turn[k - 1], end)
    IN  turn[Chunk]

(* step: the report of an unfinished count is the one update() made.       *)
Step(t, c, report) ==
    LET next == Counted(t, c)
    IN  /\ count' = next
        /\ timer' = (next.offset < Len(t))
        /\ shown' = IF next.offset < Len(t) THEN report ELSE Report(next, FALSE)

Cleared ==
    /\ text' = <<>> /\ count' = Nothing
    /\ timer' = FALSE /\ shown' = Report(Nothing, FALSE)

Update(t) ==
    IF t = text /\ (count.offset > 0 \/ t = <<>>)
    THEN UNCHANGED <<text, count, timer, shown>>
    ELSE /\ text' = t
         /\ Step(t, Nothing, IF Len(t) > Chunk THEN Report(Nothing, TRUE) ELSE shown)

(* The draft changes, and the page's effect runs before the next task.     *)
Type(t) ==
    /\ t # draft
    /\ draft' = t
    /\ IF t = <<>> THEN Cleared ELSE Update(t)

Fire == timer /\ Step(text, count, shown) /\ UNCHANGED <<draft, text>>

-------------------------------------------------------------------------------
(* Properties *)

(* What position i of t adds to its length in UTF-8; the second half of a   *)
(* pair is counted with the first.                                         *)
Encoded(t, i) ==
    IF Paired(t, i) THEN 4
    ELSE IF i > 1 /\ Paired(t, i - 1) THEN 0 ELSE Width(t[i])

(* The length of a text in UTF-8, and its lines.                           *)
Utf8(t) ==
    LET bytes[n \in 0 .. Len(t)] == IF n = 0 THEN 0 ELSE bytes[n - 1] + Encoded(t, n)
    IN  bytes[Len(t)]
Lines(t) == 1 + Cardinality({i \in DOMAIN t : t[i] = "newline"})

(* A size the page shows as final is that of the draft it shows, wherever  *)
(* the chunks split its characters and whatever was typed while an earlier *)
(* draft was counted; the create button and the limit are decided from it  *)
(* (text-metrics.ts:12-46, Create.svelte:14-20, 32-35, 280-288).           *)
ShownIsTheDraft ==
    ~shown.pending => shown = [bytes |-> Utf8(draft), lines |-> Lines(draft),
                               pending |-> FALSE]
===============================================================================
