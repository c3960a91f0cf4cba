----------------------------- MODULE BoundedRead -----------------------------
(***************************************************************************)
(* How a client reads the body of a response: readBounded of the web       *)
(* application (web/src/lib/api.ts) and bytes of the command line client   *)
(* (cli/client.ts).  The body arrives in pieces of any size and is         *)
(* gathered in one buffer, which grows when its length was not announced.  *)
(* Whatever ends a reading also cancels or exhausts the stream and         *)
(* releases it, so that is not kept.                                       *)
(***************************************************************************)
EXTENDS Integers

CONSTANTS
    Limit,   \* bytes the caller accepts
    First    \* bytes of the first buffer for a body of unknown length

Absent == -1
Malformed == -2
Clients == {"web", "cli"}

ReadAssumption == Limit \in Nat /\ First \in Nat \ {0}

VARIABLES
    total,     \* bytes of the body its sender has
    reading,   \* what has become of the body
    announced, \* its length by the headers
    capacity,  \* bytes of the buffer
    size,      \* bytes read into it
    copied     \* history: bytes moved from one buffer to a larger one

reader == <<reading, announced, capacity, size, copied>>

Least(a, b) == IF a <= b THEN a ELSE b
Greatest(a, b) == IF a >= b THEN a ELSE b

Idle ==
    /\ reading = "idle" /\ announced = Absent
    /\ capacity = 0 /\ size = 0 /\ copied = 0

(* The length headers announce: that of an encoded body is not its own,    *)
(* and the web client ignores one that is not a number.                    *)
Announced(client, encoded, length) ==
    IF encoded \/ (client = "web" /\ length = Malformed) THEN Absent ELSE length

Maximum == IF announced = Absent THEN Limit ELSE announced

Begin(client, encoded, length) ==
    /\ reading = "idle"
    /\ announced' = Announced(client, encoded, length)
    /\ IF announced' = Malformed \/ announced' > Limit
       THEN reading' = "refused" /\ capacity' = 0
       ELSE /\ reading' = "reading"
            /\ capacity' = IF announced' = Absent THEN Least(Limit, First) ELSE announced'
    /\ UNCHANGED <<total, size, copied>>

Grown_ByPiece(next) == Least(Maximum, next)
Grown(next) == Least(Maximum, Greatest(next, 2 * capacity))

(* Mutant: the gathered bytes are not compared with the maximum.           *)
Piece_Unbounded(k) ==
    /\ reading = "reading" /\ size + k <= total
    /\ size' = size + k
    /\ IF size + k > capacity
       THEN capacity' = Grown(size + k) /\ copied' = copied + size
       ELSE UNCHANGED <<capacity, copied>>
    /\ UNCHANGED <<total, reading, announced>>
Piece(k) ==
    /\ reading = "reading" /\ size + k <= total
    /\ IF size + k > Maximum
       THEN reading' = "refused" /\ UNCHANGED <<capacity, size, copied>>
       ELSE /\ size' = size + k
            /\ IF size + k > capacity
               THEN capacity' = Grown(size + k) /\ copied' = copied + size
               ELSE UNCHANGED <<capacity, copied>>
            /\ UNCHANGED reading
    /\ UNCHANGED <<total, announced>>

(* The stream ends, perhaps before the body does.                          *)
End_AnyLength ==
    /\ reading = "reading" /\ reading' = "done"
    /\ UNCHANGED <<total, announced, capacity, size, copied>>
End ==
    /\ reading = "reading"
    /\ reading' = IF announced \in {Absent, size} THEN "done" ELSE "incomplete"
    /\ UNCHANGED <<total, announced, capacity, size, copied>>

(* The network fails, the request is aborted, or a buffer is not to be had. *)
Break ==
    /\ reading \in {"idle", "reading"}
    /\ reading' = "broken"
    /\ UNCHANGED <<total, announced, capacity, size, copied>>

(* The caller takes the bytes read. *)
Discard ==
    /\ reading = "done"
    /\ reading' = "idle" /\ announced' = Absent
    /\ capacity' = 0 /\ size' = 0 /\ copied' = 0
    /\ UNCHANGED total

(* Another body is going to be sent. *)
Another == reading = "idle" /\ total' \in Nat /\ UNCHANGED reader

Init == Idle /\ total \in Nat

Next ==
    \/ \E client \in Clients, encoded \in BOOLEAN, length \in Nat \cup {Absent, Malformed} :
          Begin(client, encoded, length)
    \/ \E k \in Nat : Piece(k)
    \/ End \/ Break \/ Discard \/ Another

vars == <<total, reader>>
Spec == Init /\ [][Next]_vars

-------------------------------------------------------------------------------
(* Properties *)

(* Type invariant of the reader.                                           *)
TypeOK ==
    /\ total \in Nat
    /\ reading \in {"idle", "reading", "refused", "done", "incomplete", "broken"}
    /\ announced \in Nat \cup {Absent, Malformed}
    /\ {capacity, size, copied} \subseteq Nat

(* However a body is cut into pieces, its buffer holds what was read and   *)
(* stays within the announced length and the caller's limit, and gathering *)
(* it moves at most twice as many bytes as it may have (client.ts:45-61,   *)
(* api.ts:49-68).                                                          *)
BufferBounded ==
    reading \in {"reading", "done", "incomplete"} =>
        /\ size <= capacity /\ capacity <= Maximum /\ Maximum <= Limit
        /\ copied <= 2 * Maximum

(* A body within the limit is refused only for headers that misstate its   *)
(* length; one whose announced length is not reached is never handed on    *)
(* (client.ts:41-44, 53, 62, api.ts:47, 60, 69).                           *)
ReadOrForCause ==
    /\ reading = "refused" => announced \notin {Absent, total} \/ total > Limit
    /\ reading = "done" => announced \in {Absent, size} /\ size <= total
===============================================================================
