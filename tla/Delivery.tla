------------------------------- MODULE Delivery -------------------------------
(***************************************************************************)
(* The size of a package from the keyboard to the recipient: the draft is  *)
(* counted as it is typed (TextMetrics), packed, sealed and admitted       *)
(* (Envelope), read from the network (BoundedRead) and unpacked again.     *)
(***************************************************************************)
EXTENDS Envelope

CONSTANTS
    Chunk, Drafts,         \* of TextMetrics
    First,                 \* of BoundedRead
    Pieces,                \* sizes of the pieces a body arrives in
    Errors                 \* by how much a response may misstate its length

VARIABLES
    draft, measured, count, timer, shown,        \* of TextMetrics
    reading, announced, capacity, size, copied   \* of BoundedRead

form == <<draft, measured, count, timer, shown>>
body == <<reading, announced, capacity, size, copied>>

Meter == INSTANCE TextMetrics WITH text <- measured, Texts <- Drafts
Body == INSTANCE BoundedRead WITH Limit <- MaxPacket, total <- Packet

ASSUME DeliveryAssumption ==
    /\ Meter!MeterAssumption /\ Body!ReadAssumption
    /\ Errors \subseteq Int

DeliveryInit == Init /\ Meter!Init /\ Body!Idle

(* The form is shown while nothing is being created.                       *)
Type(t) ==
    /\ stage = "new" /\ Meter!Type(t)
    /\ UNCHANGED <<vars, body>>

Fire == stage = "new" /\ Meter!Fire /\ UNCHANGED <<vars, body>>

(* The create button: nothing is being counted and no limit is exceeded.   *)
Submittable == ~shown.pending /\ shown.bytes <= MaxText

Submit == Submittable /\ PackText(Meter!Utf8(draft)) /\ UNCHANGED <<form, body>>

(* The draft is cleared when its package has been created.                 *)
Upload ==
    /\ Admit
    /\ IF Parses /\ ~foreign THEN draft' = <<>> /\ Meter!Cleared ELSE UNCHANGED form
    /\ UNCHANGED body

(* What its headers may say of the length of the packet: nothing, no       *)
(* number, or a number that is too small, right or too large.              *)
Lengths ==
    {Body!Absent, Body!Malformed} \cup (Nat \cap {Packet + error : error \in Errors})

(* The response that carries the packet.                                   *)
Respond(client, encoded, length) ==
    /\ stage = "stored" /\ UNCHANGED <<vars, form>>
    /\ Body!Begin(client, encoded, length)

Transfer ==
    /\ stage = "stored" /\ UNCHANGED <<vars, form>>
    /\ (\E k \in Nat \cap (Pieces \cup {Packet - size}) : Body!Piece(k)) \/ Body!End \/ Body!Break

(* decrypt: a packet that was cut short is no packet, or not authentic.    *)
Receive ==
    /\ stage = "stored" /\ reading = "done"
    /\ IF size = Packet
       THEN TakeText /\ Body!Discard
       ELSE /\ stage' = "cut"
            /\ UNCHANGED <<packing, padded, header, unpacking, body>>
    /\ UNCHANGED form

DeliveryNext ==
    \/ (\E t \in Drafts : Type(t)) \/ Fire \/ Submit
    \/ /\ (\E f \in Files : PackFile(f)) \/ Padded \/ (\E h \in Headers : Seal(h))
       /\ UNCHANGED <<form, body>>
    \/ draft = <<>> /\ Foreign /\ UNCHANGED <<form, body>>
    \/ Upload
    \/ \E client \in Body!Clients, encoded \in BOOLEAN, length \in Lengths :
          Respond(client, encoded, length)
    \/ Transfer \/ Receive
    \/ (TakeFile \/ Ends) /\ UNCHANGED <<form, body>>

DeliverySpec == DeliveryInit /\ [][DeliveryNext]_<<vars, form, body>>

-------------------------------------------------------------------------------
(* Properties *)

(* What the form lets through and pack() accepts, the server admits, the   *)
(* recipient's reader takes in however it is cut, and unpack() reads back: *)
(* nothing within the limits is refused for its size once a retrieval has  *)
(* been spent (protocol.rs:72-90, content.ts:79-105, 126-174, api.ts:53-70)*)
PackedArrives ==
    /\ stage = "refused" => foreign
    /\ stage = "invalid" => foreign
    /\ stage = "cut" => size < Packet
    /\ reading = "refused" => announced \notin {Body!Absent, Packet}
    /\ stage = "new" /\ Submittable => Meter!Utf8(draft) <= MaxText

ShownIsTheDraft == Meter!ShownIsTheDraft
BufferBounded == Body!BufferBounded
ReadOrForCause == Body!ReadOrForCause

===============================================================================
