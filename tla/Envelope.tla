------------------------------- MODULE Envelope -------------------------------
(***************************************************************************)
(* How large a package is, from the content its sender packs               *)
(* (shared/content.ts), through the packet it is sealed in                 *)
(* (shared/index.ts), the server that admits it (server/src/protocol.rs)   *)
(* and the recipient that parses it again (shared/encoding.ts,             *)
(* shared/content.ts).  Bytes are counted, not kept: a file is the three   *)
(* lengths of its name, media type and data.                               *)
(*                                                                         *)
(* A packet need not come from this implementation: its sender holds the   *)
(* key, so a recipient may be given an authentic envelope of any shape.    *)
(* Delivery composes these steps with the form a draft comes from and the  *)
(* transfer to the recipient.                                              *)
(***************************************************************************)
EXTENDS Integers, Sequences

CONSTANTS
    MaxText, MaxContent, MaxFiles, MaxName, MaxMime, MaxHeader, MaxPacket,
    Padding,
    Files,         \* the files tried
    Headers,       \* lengths of a serialized header
    ForeignFiles,  \* headers of files another implementation may write,
    ForeignTexts, ForeignSizes  \* and the lengths it may announce

InnerHeader == 14
FileHeader == 8
PacketHeader == 8
Tag == 16

Pad(n) == ((n + Padding - 1) \div Padding) * Padding
MaxInner == MaxContent + InnerHeader + MaxFiles * (FileHeader + MaxName + MaxMime)

FileSize == [name : Nat, mime : Nat, data : Nat]

ASSUME EnvelopeAssumption ==
    /\ {MaxText, MaxContent, MaxFiles, MaxName, MaxMime, MaxHeader} \subseteq Nat
    /\ Padding \in Nat \ {0} /\ MaxPacket \in Nat
    /\ MaxText <= MaxContent
    /\ ForeignTexts \subseteq Nat /\ ForeignSizes \subseteq Nat
    /\ Files \subseteq FileSize /\ ForeignFiles \subseteq FileSize
    /\ Headers \subseteq 1 .. MaxHeader

(* The bound on a packet leaves room for the largest padded content.       *)
ASSUME Headroom == PacketHeader + MaxHeader + Pad(MaxInner) + Tag <= MaxPacket

VARIABLES
    stage,    \* how far the package has come
    foreign,  \* its envelope was written by another implementation
    text,     \* length of the text
    files,    \* the files, in the order of the envelope
    content,  \* bytes of text and data packed so far
    logical,  \* bytes of the envelope before padding, as announced
    padded,   \* bytes of the envelope
    header,   \* bytes of the header
    offset,   \* where unpack() reads
    taken,    \* how many files it has read
    seen      \* bytes of content it has read

vars == <<stage, foreign, text, files, content, logical, padded, header,
          offset, taken, seen>>
packing == <<foreign, text, files, content, logical>>
unpacking == <<offset, taken, seen>>

Init ==
    /\ stage = "new" /\ foreign = FALSE
    /\ text = 0 /\ files = <<>> /\ content = 0 /\ logical = 0 /\ padded = 0
    /\ header = 0 /\ offset = 0 /\ taken = 0 /\ seen = 0

Whole(f) == FileHeader + f.name + f.mime + f.data

-------------------------------------------------------------------------------
(* pack: it throws when a guard fails, and no package comes to be. *)

PackText(n) ==
    /\ stage = "new" /\ n \in 0 .. MaxText
    /\ stage' = "packing"
    /\ text' = n /\ content' = n /\ logical' = InnerHeader + n
    /\ UNCHANGED <<foreign, files, padded, header, unpacking>>

Packable(f) ==
    /\ Len(files) < MaxFiles
    /\ content + f.data <= MaxContent
    /\ f.name \in 1 .. MaxName /\ f.mime \in 1 .. MaxMime

PackFile(f) ==
    /\ stage = "packing" /\ Packable(f)
    /\ files' = Append(files, f)
    /\ content' = content + f.data
    /\ logical' = logical + Whole(f)
    /\ UNCHANGED <<stage, foreign, text, padded, header, unpacking>>

Padded_Exact ==
    /\ stage = "packing" /\ (text # 0 \/ files # <<>>)
    /\ stage' = "packed" /\ padded' = (logical \div Padding) * Padding
    /\ UNCHANGED <<packing, header, unpacking>>
Padded ==
    /\ stage = "packing" /\ (text # 0 \/ files # <<>>)
    /\ stage' = "packed" /\ padded' = Pad(logical)
    /\ UNCHANGED <<packing, header, unpacking>>

(* Sequences of at most two of the files of another implementation. *)
ForeignLists ==
    {<<>>} \cup {<<f>> : f \in ForeignFiles}
           \cup {<<f, g>> : f \in ForeignFiles, g \in ForeignFiles}

(* An envelope whose fields say anything; files is what a reader finds     *)
(* where it looks for them.                                                *)
Foreign ==
    /\ stage = "new"
    /\ stage' = "packed" /\ foreign' = TRUE
    /\ text' \in ForeignTexts /\ files' \in ForeignLists
    /\ logical' \in ForeignSizes /\ padded' \in ForeignSizes
    /\ UNCHANGED <<content, header, unpacking>>

-------------------------------------------------------------------------------
(* create: a packet is a header and the encrypted envelope with its tag. *)

Packet == PacketHeader + header + padded + Tag

Seal(h) ==
    /\ stage = "packed"
    /\ stage' = "sealed" /\ header' = h
    /\ UNCHANGED <<packing, padded, unpacking>>

(* parse_packet of the server and parsePacket of the client, as far as     *)
(* lengths go; the bound on the whole packet is that of create() as well.  *)
Parses ==
    /\ Packet <= MaxPacket
    /\ header \in 1 .. MaxHeader
    /\ Packet >= PacketHeader + header + Padding + Tag
    /\ (Packet - PacketHeader - header - Tag) % Padding = 0

Admit ==
    /\ stage = "sealed"
    /\ stage' = IF Parses THEN "stored" ELSE "refused"
    /\ UNCHANGED <<packing, padded, header, unpacking>>

-------------------------------------------------------------------------------
(* unpack, after parsePacket and the decryption. *)

Announced ==
    /\ padded >= Padding /\ padded <= Pad(MaxInner) /\ padded % Padding = 0
    /\ logical >= InnerHeader /\ logical <= MaxInner /\ logical <= padded
    /\ Pad(logical) = padded
    /\ text <= MaxText /\ Len(files) <= MaxFiles
    /\ text # 0 \/ files # <<>>

Invalid == stage' = "invalid" /\ UNCHANGED <<packing, padded, header, unpacking>>

TakeText ==
    /\ stage = "stored"
    /\ IF Parses /\ Announced /\ InnerHeader + text <= logical
       THEN /\ stage' = "reading"
            /\ offset' = InnerHeader + text /\ taken' = 0 /\ seen' = text
            /\ UNCHANGED <<packing, padded, header>>
       ELSE Invalid

Takeable(f) ==
    /\ offset + FileHeader <= logical
    /\ f.name \in 1 .. MaxName /\ f.mime \in 1 .. MaxMime
    /\ seen + f.data <= MaxContent
    /\ offset + Whole(f) <= logical

TakeFile ==
    /\ stage = "reading" /\ taken < Len(files)
    /\ LET f == files[taken + 1]
       IN  IF Takeable(f)
           THEN /\ offset' = offset + Whole(f)
                /\ taken' = taken + 1 /\ seen' = seen + f.data
                /\ UNCHANGED <<stage, packing, padded, header>>
           ELSE Invalid

Ends_Short ==
    /\ stage = "reading" /\ taken = Len(files)
    /\ stage' = "accepted" /\ UNCHANGED <<packing, padded, header, unpacking>>
Ends ==
    /\ stage = "reading" /\ taken = Len(files)
    /\ IF offset = logical
       THEN stage' = "accepted" /\ UNCHANGED <<packing, padded, header, unpacking>>
       ELSE Invalid

-------------------------------------------------------------------------------
(* Properties *)

(* The total of the files, as pack() would add them up. *)
Total[n \in 0 .. Len(files)] ==
    IF n = 0 THEN InnerHeader + text ELSE Total[n - 1] + Whole(files[n])

(* Whatever an authentic envelope says, unpack() reads inside the announced *)
(* bytes, these lie inside the buffer, and it accepts only what pack()      *)
(* could have written: every byte is accounted for and every limit is kept  *)
(* (content.ts:126-175).                                                    *)
AcceptsOnlyPacked ==
    /\ stage \in {"reading", "accepted"} => offset <= logical /\ logical <= padded
    /\ stage = "accepted" =>
           /\ logical = Total[Len(files)] /\ padded = Pad(logical)
           /\ text <= MaxText /\ seen <= MaxContent /\ Len(files) <= MaxFiles
           /\ text # 0 \/ files # <<>>
===============================================================================
