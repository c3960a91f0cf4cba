------------------------------ MODULE MCDelivery ------------------------------
(* An instance of Delivery with limits of a few bytes, in which drafts,     *)
(* envelopes and transfers have every shape; and the limits of the service  *)
(* (shared/types.ts:2-10), for which the headroom of a packet is evaluated. *)
EXTENDS Delivery

MCDrafts ==
    UNION {[1 .. n -> {"high", "low"}] : n \in 0 .. 5}
    \cup {<<"ascii", "three", "high", "low", "newline">>, <<"newline">>, <<"two">>}
MCFiles == [name : 1 .. 2, mime : {1}, data : {0, 1, 3}]
MCForeign == [name : {0, 2, 3}, mime : {1}, data : {0, 7}]
MCErrors == {-(PacketHeader + Tag), -1, 0, 1, MaxPacket}

KiB == 1024
MiB == KiB * KiB
Service == INSTANCE Envelope WITH
    MaxText <- 8 * MiB, MaxContent <- 64 * MiB, MaxFiles <- 8, MaxName <- 255,
    MaxMime <- 127, MaxHeader <- 2048, MaxPacket <- 64 * MiB + 32768,
    Padding <- 4096
ASSUME ServiceHeadroom == Service!Headroom
===============================================================================
