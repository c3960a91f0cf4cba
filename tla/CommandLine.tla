----------------------------- MODULE CommandLine -----------------------------
(***************************************************************************)
(* The command line client: send, receive and revoke (cli/index.ts,        *)
(* cli/client.ts) as processes that talk to the service (Handoff) over a   *)
(* network.  A request is answered late or never, the service may act on   *)
(* it after the process that sent it has gone, and an answer may be that   *)
(* of another package.  Receivers write into the same directory, which     *)
(* other programs use too; its file system may ignore case.                *)
(***************************************************************************)
EXTENDS Integers, Sequences, FiniteSets, Protocol

CONSTANTS
    Procs,        \* processes of the client
    Notes,        \* identifiers they draw
    Proofs, Ttls, Views,
    Casts,        \* which command each process runs
    Inputs,       \* what is sent: a text or none, names of files, a passphrase
    Passphrases,  \* NoPassphrase for none
    Folded,       \* the lower case of a name
    TextNames,    \* message.txt, message-1.txt, ..., as many as are ever tried
    Others        \* bound on the files other programs put into the directory

None == "none"

ASSUME CommandLineAssumption ==
    /\ IsFiniteSet(Procs) /\ NoPassphrase \in Passphrases
    /\ Casts \subseteq [Procs -> {"send", "receive", "revoke"}]
    /\ Inputs \subseteq [text : BOOLEAN, files : Seq(DOMAIN Folded), pass : Passphrases]

ASSUME ProcsAssumption == Procs \cap {None, "other"} = {}

(* The names tried for the text differ, and one that is not in use is      *)
(* among them.                                                             *)
ASSUME TextNamesAssumption ==
    /\ TextNames \in Seq(DOMAIN Folded)
    /\ \A j, k \in DOMAIN TextNames : TextNames[j] = TextNames[k] => j = k
    /\ \A input \in Inputs : \E k \in DOMAIN TextNames :
          \A i \in DOMAIN input.files : Folded[input.files[i]] # Folded[TextNames[k]]

VARIABLES
    clock, left, got, deadline, proof,  \* of the service; no time passes
    packets,  \* the packets it was given
    proc,     \* the processes
    wire,     \* the request of each process that is still under way
    disk      \* the directory receivers write to

service == <<clock, left, got, deadline, proof>>
vars == <<service, packets, proc, wire, disk>>

Service == INSTANCE Handoff

NoHeader == [id |-> None, peek |-> <<>>, read |-> <<>>, revoke |-> <<>>,
             kdf |-> None, salt |-> <<>>]
NoContent == [of |-> None, text |-> FALSE, files |-> <<>>]
NoPacket == [header |-> NoHeader,
             sealed |-> [key |-> <<>>, header |-> NoHeader, content |-> NoContent]]
NoFile == [by |-> None, of |-> None, whole |-> FALSE]

(* A request: what it carries, how far it is, and its answer.              *)
NoRequest == [kind |-> None, state |-> None, id |-> None, token |-> <<>>,
              proof |-> None, packet |-> NoPacket, ok |-> FALSE, note |-> None]
Request(kind) == [NoRequest EXCEPT !.kind = kind, !.state = "sent"]

Paths == {Folded[name] : name \in DOMAIN Folded}

(* A process: its command, how far it is, the package and the words it was *)
(* started with, what it seals or was answered, and how many outputs it    *)
(* has written.                                                            *)
Waiting == {"challenge", "create", "meta", "open", "revoke"}
Ended == {"ok", "failed", "collided"}

Fresh(cmd) ==
    [cmd |-> cmd, at |-> "new", note |-> None, secret |-> <<>>, pass |-> NoPassphrase,
     packet |-> NoPacket, written |-> 0]

Init ==
    /\ Service!Init
    /\ packets = [n \in Notes |-> NoPacket]
    /\ \E cast \in Casts : proc = [p \in Procs |-> Fresh(cast[p])]
    /\ wire = [p \in Procs |-> NoRequest]
    /\ disk = [f \in Paths |-> NoFile]

At(p, cmd, where) == proc[p].cmd = cmd /\ proc[p].at = where
Goes(p, where) == proc' = [proc EXCEPT ![p].at = where]
Asks(p, request) == wire' = [wire EXCEPT ![p] = request]

(* request: the answer a process waits for has come.                       *)
Answer(p, kind) ==
    /\ proc[p].at = kind /\ wire[p].kind = kind /\ wire[p].state = "answered"

(* A process ends; a request the service has not handled stays under way.  *)
Ends(p, where) ==
    /\ proc' = [proc EXCEPT ![p] = IF where = "failed"
           THEN [Fresh(@.cmd) EXCEPT !.at = where, !.note = proc[p].note]
           ELSE [@ EXCEPT !.at = where]]
    /\ wire' = IF wire[p].state = "sent" THEN wire ELSE [wire EXCEPT ![p] = NoRequest]
    /\ UNCHANGED <<service, packets, disk>>

(* Anything an await of main() rejects with ends the process: an           *)
(* unreadable input, a disk error, an expired challenge, an invalid        *)
(* answer, a broken connection.  So does killing it.                       *)
Fails(p) == proc[p].at \notin Ended \cup {"new"} /\ Ends(p, "failed")

(* AbortSignal.timeout of a request.                                       *)
TimesOut_Retries(p) ==
    /\ proc[p].at \in Waiting
    /\ IF proc[p].at = "open"
       THEN Asks(p, [wire[p] EXCEPT !.state = "sent"]) /\ UNCHANGED <<service, packets, proc, disk>>
       ELSE Ends(p, "failed")
TimesOut_NotRevocations(p) == proc[p].at \in Waiting \ {"revoke"} /\ Ends(p, "failed")
TimesOut(p) == proc[p].at \in Waiting /\ Ends(p, "failed")

Refused(p) == \E kind \in Waiting : Answer(p, kind) /\ ~wire[p].ok /\ Ends(p, "failed")

-------------------------------------------------------------------------------
(* send *)

Used == {proc[p].note : p \in {q \in Procs : proc[q].cmd = "send"}}
Unique(names) == Cardinality({Folded[names[k]] : k \in DOMAIN names}) = Len(names)

(* The inputs are read and sealed under a random identifier.               *)
Send(p, n, input) ==
    /\ At(p, "send", "new") /\ n \notin Used
    /\ input.text \/ input.files # <<>>
    /\ Unique(input.files)
    /\ proc' = [proc EXCEPT
           ![p].at = "challenge", ![p].note = n,
           ![p].packet = Create(n, [of |-> n, text |-> input.text, files |-> input.files],
                                input.pass)]
    /\ Asks(p, Request("challenge")) /\ UNCHANGED <<service, packets, disk>>

(* solveProof has found a nonce.                                           *)
Challenged(p) ==
    /\ Answer(p, "challenge") /\ wire[p].ok
    /\ Goes(p, "create")
    /\ Asks(p, [Request("create") EXCEPT
                   !.id = proc[p].note, !.proof = wire[p].note, !.packet = proc[p].packet])
    /\ UNCHANGED <<service, packets, disk>>

(* The receipt must be that of the package, or the link is not printed.    *)
Created_Unchecked(p) == Answer(p, "create") /\ wire[p].ok /\ Ends(p, "ok")
Created(p) ==
    /\ Answer(p, "create") /\ wire[p].ok
    /\ Ends(p, IF wire[p].note = proc[p].note THEN "ok" ELSE "failed")

-------------------------------------------------------------------------------
(* receive *)

(* What senders have printed.                                              *)
Receipts == {proc[p].note : p \in {q \in Procs : At(q, "send", "ok")}}

(* The directory is made, and must be empty.                               *)
Inspect(p) ==
    /\ At(p, "receive", "new") /\ \A f \in Paths : disk[f] = NoFile
    /\ Goes(p, "empty") /\ UNCHANGED <<service, packets, wire, disk>>

(* A link is read, perhaps one whose secret belongs to another.            *)
Receive(p, id, m, pass) ==
    /\ At(p, "receive", "empty")
    /\ proc' = [proc EXCEPT ![p].at = "meta", ![p].note = id,
                            ![p].secret = Secret(m), ![p].pass = pass]
    /\ Asks(p, [Request("meta") EXCEPT !.id = id, !.token = Peek(Secret(m), id)])
    /\ UNCHANGED <<service, packets, disk>>

(* prepareOpen, and the request that consumes a retrieval.                 *)
Verified(p) ==
    /\ Answer(p, "meta") /\ wire[p].ok
    /\ LET header == packets[wire[p].note].header
       IN  IF Prepares(header, proc[p].secret, proc[p].note, proc[p].pass)
           THEN /\ proc' = [proc EXCEPT ![p].at = "open", ![p].packet.header = header]
                /\ Asks(p, [Request("open") EXCEPT
                       !.id = proc[p].note,
                       !.token = ReadToken(proc[p].secret, header, proc[p].pass)])
                /\ UNCHANGED <<service, packets, disk>>
           ELSE Ends(p, "failed")

Opened(p) ==
    /\ Answer(p, "open") /\ wire[p].ok
    /\ LET packet == packets[wire[p].note]
           header == proc[p].packet.header
       IN  IF Decrypts(packet, header, Key(proc[p].secret, header, proc[p].pass))
           THEN /\ proc' = [proc EXCEPT ![p].at = "write", ![p].packet = packet]
                /\ wire' = [wire EXCEPT ![p] = NoRequest]
                /\ UNCHANGED <<service, packets, disk>>
           ELSE Ends(p, "failed")

(* writeContent: the name of the text avoids those of the files.           *)
TextName_CaseSensitive(names) ==
    CHOOSE name \in {TextNames[k] : k \in DOMAIN TextNames} :
        LET k == CHOOSE k \in DOMAIN TextNames : TextNames[k] = name
        IN  /\ \A i \in DOMAIN names : names[i] # name
            /\ \A j \in 1 .. k - 1 : \E i \in DOMAIN names : names[i] = TextNames[j]
TextName(names) ==
    CHOOSE name \in {TextNames[k] : k \in DOMAIN TextNames} :
        LET k == CHOOSE k \in DOMAIN TextNames : TextNames[k] = name
        IN  /\ \A i \in DOMAIN names : Folded[names[i]] # Folded[name]
            /\ \A j \in 1 .. k - 1 : \E i \in DOMAIN names :
                  Folded[names[i]] = Folded[TextNames[j]]

Outputs(content) ==
    content.files \o IF content.text THEN <<TextName(content.files)>> ELSE <<>>

(* The file the process writes next, and whether it has been opened.       *)
Output(p) == Folded[Outputs(proc[p].packet.sealed.content)[proc[p].written + 1]]
Writing(p) ==
    /\ At(p, "receive", "write")
    /\ proc[p].written < Len(Outputs(proc[p].packet.sealed.content))

OpenFile_Truncates(p) ==
    /\ Writing(p) /\ ~(disk[Output(p)].by = p /\ ~disk[Output(p)].whole)
    /\ disk' = [disk EXCEPT ![Output(p)] =
                   [by |-> p, of |-> proc[p].packet.sealed.content.of, whole |-> FALSE]]
    /\ UNCHANGED <<service, packets, proc, wire>>
OpenFile(p) ==
    /\ Writing(p) /\ ~(disk[Output(p)].by = p /\ ~disk[Output(p)].whole)
    /\ IF disk[Output(p)] = NoFile
       THEN /\ disk' = [disk EXCEPT ![Output(p)] =
                   [by |-> p, of |-> proc[p].packet.sealed.content.of, whole |-> FALSE]]
            /\ UNCHANGED proc
       ELSE Goes(p, "collided") /\ UNCHANGED disk
    /\ UNCHANGED <<service, packets, wire>>

WriteFile(p) ==
    /\ Writing(p) /\ disk[Output(p)].by = p /\ ~disk[Output(p)].whole
    /\ disk' = [disk EXCEPT ![Output(p)].whole = TRUE]
    /\ proc' = [proc EXCEPT ![p].written = @ + 1]
    /\ UNCHANGED <<service, packets, wire>>

Saved(p) ==
    /\ At(p, "receive", "write") /\ ~Writing(p)
    /\ Ends(p, "ok")

-------------------------------------------------------------------------------
(* revoke, with the token of that receipt or of another *)

Revoke(p, id, m) ==
    /\ At(p, "revoke", "new")
    /\ proc' = [proc EXCEPT ![p].at = "revoke", ![p].note = id]
    /\ Asks(p, [Request("revoke") EXCEPT !.id = id, !.token = RevokeToken(m)])
    /\ UNCHANGED <<service, packets, disk>>

Revoked(p) == Answer(p, "revoke") /\ wire[p].ok /\ Ends(p, "ok")

-------------------------------------------------------------------------------
(* The service, which knows the header of a packet it stores.  Nobody      *)
(* reads an answer to a process that has ended.                            *)

Sent(p, kind) == wire[p].kind = kind /\ wire[p].state = "sent"
Header(p) == packets[wire[p].id].header

Reply(p, ok, note) ==
    wire' = [wire EXCEPT ![p] = IF proc[p].at = wire[p].kind
        THEN [@ EXCEPT !.state = "answered", !.ok = ok, !.note = note] ELSE NoRequest]

Issue(p, c) ==
    /\ Sent(p, "challenge") /\ Service!Offer(c) /\ Reply(p, TRUE, c)
    /\ UNCHANGED <<packets, proc, disk>>

Store(p, ttl, views) ==
    /\ Sent(p, "create") /\ Service!Admit(wire[p].id, wire[p].proof, ttl, views)
    /\ packets' = [packets EXCEPT ![wire[p].id] = wire[p].packet]
    /\ Reply(p, TRUE, wire[p].id)
    /\ UNCHANGED <<proc, disk>>

Describe(p) ==
    /\ Sent(p, "meta") /\ left[wire[p].id] > 0
    /\ Hash(wire[p].token) = Header(p).peek
    /\ Reply(p, TRUE, wire[p].id)
    /\ UNCHANGED <<service, packets, proc, disk>>

Open(p) ==
    /\ Sent(p, "open") /\ Hash(wire[p].token) = Header(p).read
    /\ Service!Retrieve(wire[p].id) /\ Reply(p, TRUE, wire[p].id)
    /\ UNCHANGED <<packets, proc, disk>>

Withdraw(p) ==
    /\ Sent(p, "revoke") /\ Hash(wire[p].token) = Header(p).revoke
    /\ Service!Revoke(wire[p].id) /\ Reply(p, TRUE, wire[p].id)
    /\ UNCHANGED <<packets, proc, disk>>

(* An answer that is another's: the request is not handled.                *)
Misroute(p, m) ==
    /\ \E kind \in {"create", "meta", "open"} : Sent(p, kind)
    /\ packets[m] # NoPacket /\ Reply(p, TRUE, m)
    /\ UNCHANGED <<service, packets, proc, disk>>

(* Refused for whatever reason.  A request or an answer that is lost is    *)
(* one the process does not wait for any longer (TimesOut).                *)
Deny(p) ==
    /\ wire[p].state = "sent" /\ Reply(p, FALSE, None)
    /\ UNCHANGED <<service, packets, proc, disk>>

(* Another program puts a file into the directory.                         *)
Occupy(f) ==
    /\ disk[f] = NoFile
    /\ Cardinality({g \in Paths : disk[g].by = "other"}) < Others
    /\ disk' = [disk EXCEPT ![f] = [by |-> "other", of |-> None, whole |-> TRUE]]
    /\ UNCHANGED <<service, packets, proc, wire>>

-------------------------------------------------------------------------------
Starts(p) ==
    \/ \E n \in Notes, input \in Inputs : Send(p, n, input)
    \/ Inspect(p)
    \/ \E id \in Receipts, m \in Receipts : Revoke(p, id, m)

Continues(p) ==
    \/ Challenged(p) \/ Created(p)
    \/ Verified(p) \/ Opened(p) \/ OpenFile(p) \/ WriteFile(p) \/ Saved(p)
    \/ Revoked(p)
    \/ Refused(p) \/ TimesOut(p)

Serves(p) ==
    \/ \E c \in Proofs : Issue(p, c)
    \/ \E ttl \in Ttls, views \in Views : Store(p, ttl, views)
    \/ Describe(p) \/ Open(p) \/ Withdraw(p) \/ Deny(p)
    \/ \E m \in Notes : Misroute(p, m)

Next ==
    \/ \E p \in Procs : Starts(p) \/ Continues(p) \/ Serves(p) \/ Fails(p)
    \/ \E p \in Procs, id \in Receipts, m \in Receipts, pass \in Passphrases :
          Receive(p, id, m, pass)
    \/ \E f \in Paths : Occupy(f)

(* A process goes on when it can, and its requests are aborted after 330   *)
(* seconds.  Nothing is assumed of the service, the network or the user.   *)
Spec == Init /\ [][Next]_vars /\ \A p \in Procs : WF_vars(Continues(p))

-------------------------------------------------------------------------------
(* Properties *)

(* A success that is printed is true.  The receipt of send is of a package *)
(* the service was given; receive has saved every part of the package its  *)
(* link names, each in a file of its own, whatever the answers were; after *)
(* revoke, nobody retrieves the package again                              *)
(* (index.ts:177-191, 212-227, 249-250).                                   *)
SuccessIsTrue ==
    \A p \in Procs : proc[p].at = "ok" =>
        LET n == proc[p].note
            content == packets[n].sealed.content
        IN  /\ packets[n] # NoPacket
            /\ proc[p].cmd = "send" => packets[n] = proc[p].packet
            /\ proc[p].cmd = "receive" => \A k \in DOMAIN Outputs(content) :
                   disk[Folded[Outputs(content)[k]]] = [by |-> p, of |-> n, whole |-> TRUE]
            /\ proc[p].cmd = "revoke" => left[n] = 0

(* "No consuming request is automatically retried" (index.ts:34): a        *)
(* package is retrieved at most once for each time its recipient ran the   *)
(* command, however the answers were delayed or lost                       *)
(* (index.ts:212-227, client.ts:77-86, 172-178).                           *)
OneRetrievalPerCommand ==
    \A n \in Notes :
        got[n] <= Cardinality({p \in Procs : proc[p].cmd = "receive" /\ proc[p].note = n})

(* The retrieval is asked for only with what opens the package: a wrong    *)
(* word or a mangled link is found out before (shared/index.ts:197-231,    *)
(* index.ts:212-222).                                                      *)
AskedOnlyToOpen ==
    \A p \in Procs : wire[p].kind = "open" => Hash(wire[p].token) = Header(p).read

(* Once a package has been retrieved, only a file somebody else has put    *)
(* into the directory since it was found empty keeps it from being         *)
(* written: its own outputs never get into each other's way, not even      *)
(* where the file system ignores case (index.ts:107-123, 204-206).         *)
CollidesOnlyWithOthers ==
    \A p \in Procs : proc[p].at = "collided" => disk[Output(p)].by \notin {p, None}

(* "Received files are never overwritten" (index.ts:34): not those of      *)
(* another program, nor of another receiver that found the same directory  *)
(* empty (index.ts:116-123).                                               *)
NeverOverwritten ==
    [][\A f \in Paths : disk[f] # NoFile =>
          disk'[f].by = disk[f].by /\ (disk[f].whole => disk'[f] = disk[f])]_vars

(* A command that was started ends, though no answer may ever come         *)
(* (client.ts:78-85).                                                      *)
CommandsEnd ==
    \A p \in Procs : proc[p].at \in Waiting \cup {"write"} ~> proc[p].at \in Ended
===============================================================================
