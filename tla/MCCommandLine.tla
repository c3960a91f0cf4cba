---------------------------- MODULE MCCommandLine ----------------------------
(* Small instances of CommandLine.                                          *)
EXTENDS TLC, CommandLine

CONSTANTS p1, p2, p3

MCCasts == {
    p1 :> "send" @@ p2 :> "receive" @@ p3 :> "receive",
    p1 :> "send" @@ p2 :> "receive" @@ p3 :> "revoke",
    p1 :> "send" @@ p2 :> "send" @@ p3 :> "receive",
    p1 :> "send" @@ p2 :> "send" @@ p3 :> "revoke"}
MCFolded == "message.txt" :> "message.txt" @@ "Message.txt" :> "message.txt"
            @@ "message-1.txt" :> "message-1.txt"
MCTextNames == <<"message.txt", "message-1.txt">>
MCInputs == {[text |-> TRUE, files |-> <<>>, pass |-> ""],
             [text |-> TRUE, files |-> <<"Message.txt">>, pass |-> "word"]}
===============================================================================
