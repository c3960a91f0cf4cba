-------------------------- MODULE CommandLine_proofs --------------------------
(***************************************************************************)
(* Proofs about CommandLine, along two invariants.                          *)
(*                                                                          *)
(* IInv: a step leaves every file in place that is whole, and to its writer *)
(* one that is not (Kept).  And each package was retrieved at most as often *)
(* as there are receivers that have spent their request (Spenders): the     *)
(* request that consumes a retrieval is made once, by a receiver that from  *)
(* then on either still has it pending or has spent it (Receiving).         *)
(*                                                                          *)
(* JInv: what processes, requests, packets and files have to do with each   *)
(* other.  Every sender has an identifier of its own, so only its request   *)
(* stores a packet under it (Distinct, Drawn, Creating); a packet that was  *)
(* stored stays, so what a receiver has accepted remains that of its        *)
(* package whatever it was answered (Asking, Holding); and its files are    *)
(* the outputs it has written so far, whose names differ (Files, Neat).     *)
(* A step disturbs the process that takes it; all the others keep their     *)
(* part of the invariant (OutsidersKeep, OneMoves).                         *)
(*                                                                          *)
(* The fields of a record are typed by "some set S holds them all": no      *)
(* proof needs to know which tokens and packets there are.                  *)
(***************************************************************************)
EXTENDS CommandLine, FiniteSetTheorems, TLAPS

(* A process, a request and a file, their fields with values of any set S. *)
Process(S) == [cmd : S, at : S, note : S, secret : S, pass : S, packet : S, written : S]
Message(S) == [kind : S, state : S, id : S, token : S, proof : S, packet : S, ok : S, note : S]
File(S) == [by : S, of : S, whole : S]

ProcTyped == \E S : proc \in [Procs -> Process(S)]
WireTyped == \E S : wire \in [Procs -> Message(S)]
DiskTyped == \E S : disk \in [Paths -> File(S)]

(* A set of values can be extended by others.                              *)
LEMMA Room ==
    ASSUME NEW S, NEW a, NEW b, NEW c
    PROVE  \E T : S \subseteq T /\ a \in T /\ b \in T /\ c \in T
<1>1. LET T == S \cup {a, b, c} IN S \subseteq T /\ a \in T /\ b \in T /\ c \in T
  OBVIOUS
<1> QED
  BY <1>1

(* One process, request or file is replaced.                               *)
LEMMA ProcSet ==
    ASSUME ProcTyped, NEW p \in Procs, NEW S, NEW r \in Process(S),
           proc' = [proc EXCEPT ![p] = r]
    PROVE  ProcTyped' /\ proc'[p] = r /\ \A q \in Procs \ {p} : proc'[q] = proc[q]
<1>1. PICK T : proc \in [Procs -> Process(T)]
  BY DEF ProcTyped
<1>2. \A q \in Procs : proc[q] \in Process(S \cup T)
  BY <1>1 DEF Process
<1>3. r \in Process(S \cup T)
  BY DEF Process
<1>4. proc' \in [Procs -> Process(S \cup T)]
  BY <1>1, <1>2, <1>3
<1>5. proc'[p] = r /\ \A q \in Procs \ {p} : proc'[q] = proc[q]
  BY <1>1
<1> QED
  BY <1>4, <1>5 DEF ProcTyped

LEMMA WireSet ==
    ASSUME WireTyped, NEW p \in Procs, NEW S, NEW r \in Message(S),
           wire' = [wire EXCEPT ![p] = r]
    PROVE  WireTyped' /\ wire'[p] = r /\ \A q \in Procs \ {p} : wire'[q] = wire[q]
<1>1. PICK T : wire \in [Procs -> Message(T)]
  BY DEF WireTyped
<1>2. \A q \in Procs : wire[q] \in Message(S \cup T)
  BY <1>1 DEF Message
<1>3. r \in Message(S \cup T)
  BY DEF Message
<1>4. wire' \in [Procs -> Message(S \cup T)]
  BY <1>1, <1>2, <1>3
<1>5. wire'[p] = r /\ \A q \in Procs \ {p} : wire'[q] = wire[q]
  BY <1>1
<1> QED
  BY <1>4, <1>5 DEF WireTyped

LEMMA DiskSet ==
    ASSUME DiskTyped, NEW o, NEW S, NEW r \in File(S), disk' = [disk EXCEPT ![o] = r]
    PROVE  /\ DiskTyped'
           /\ o \in Paths => disk'[o] = r
           /\ \A f \in Paths \ {o} : disk'[f] = disk[f]
<1>1. PICK T : disk \in [Paths -> File(T)]
  BY DEF DiskTyped
<1>2. \A f \in Paths : disk[f] \in File(S \cup T)
  BY <1>1 DEF File
<1>3. r \in File(S \cup T)
  BY DEF File
<1>4. disk' \in [Paths -> File(S \cup T)]
  BY <1>1, <1>2, <1>3
<1>5. /\ o \in Paths => disk'[o] = r
      /\ \A f \in Paths \ {o} : disk'[f] = disk[f]
  BY <1>1
<1> QED
  BY <1>4, <1>5 DEF DiskTyped

-------------------------------------------------------------------------------
(* The steps actions are made of *)

(* What a step makes of process p and of its request; the others stay.      *)
ProcGoes(p, where, n, x, k) ==
    /\ ProcTyped' /\ \A q \in Procs \ {p} : proc'[q] = proc[q]
    /\ proc'[p].at = where /\ proc'[p].cmd = proc[p].cmd /\ proc'[p].note = n
    /\ proc'[p].packet = x /\ proc'[p].written = k
WireAsks(p, kind, id) ==
    /\ WireTyped' /\ \A q \in Procs \ {p} : wire'[q] = wire[q]
    /\ wire'[p].kind = kind /\ wire'[p].id = id /\ wire'[p].state = "sent"

LEMMA GoesTo ==
    ASSUME ProcTyped, NEW p \in Procs, NEW where, Goes(p, where)
    PROVE  ProcGoes(p, where, proc[p].note, proc[p].packet, proc[p].written)
<1>1. PICK S : proc \in [Procs -> Process(S)]
  BY DEF ProcTyped
<1>2. PICK T : S \subseteq T /\ where \in T
  BY Room, Zenon
<1> DEFINE r == [proc[p] EXCEPT !.at = where]
<1>3. /\ r \in Process(T) /\ r.at = where /\ r.cmd = proc[p].cmd /\ r.note = proc[p].note
      /\ r.packet = proc[p].packet /\ r.written = proc[p].written
  BY <1>1, <1>2 DEF Process
<1>4. proc' = [proc EXCEPT ![p] = r]
  BY DEF Goes
<1> HIDE DEF r
<1> QED
  BY <1>3, <1>4, ProcSet DEF ProcGoes

LEMMA NoRequestIsMessage ==
    \E S : NoRequest \in Message(S) /\ NoRequest.kind = None /\ NoRequest.state = None
<1>1. PICK S : {None, <<>>, NoPacket, FALSE} \subseteq S
  OBVIOUS
<1>2. ASSUME NEW none \in S, NEW nil \in S, NEW np \in S, NEW no \in S
      PROVE  LET r == [kind |-> none, state |-> none, id |-> none, token |-> nil,
                       proof |-> none, packet |-> np, ok |-> no, note |-> none]
             IN  r \in Message(S) /\ r.kind = none /\ r.state = none
  BY DEF Message
<1> QED
  BY <1>1, <1>2, Zenon DEF NoRequest

LEMMA Replies ==
    ASSUME WireTyped, NEW p \in Procs, NEW ok, NEW n, Reply(p, ok, n)
    PROVE  /\ WireTyped' /\ wire'[p].state # "sent"
           /\ \A q \in Procs \ {p} : wire'[q] = wire[q]
           /\ \/ wire'[p].kind = None
              \/ /\ wire'[p].kind = wire[p].kind /\ wire'[p].id = wire[p].id
                 /\ wire'[p].token = wire[p].token /\ wire'[p].packet = wire[p].packet
                 /\ wire'[p].ok = ok /\ wire'[p].note = n
<1>1. PICK S : wire \in [Procs -> Message(S)]
  BY DEF WireTyped
<1>2. PICK T : S \subseteq T /\ ok \in T /\ n \in T /\ "answered" \in T
  BY Room, Zenon
<1>3. PICK word \in T : word = "answered"
  BY <1>2
<1> DEFINE a == [wire[p] EXCEPT !.state = word, !.ok = ok, !.note = n]
           r == IF proc[p].at = wire[p].kind THEN a ELSE NoRequest
<1>4. /\ a \in Message(T) /\ a.state = word /\ a.kind = wire[p].kind /\ a.id = wire[p].id
      /\ a.token = wire[p].token /\ a.packet = wire[p].packet /\ a.ok = ok /\ a.note = n
  BY <1>1, <1>2 DEF Message
<1>5. wire' = [wire EXCEPT ![p] = r]
  BY <1>3, Zenon DEF Reply
<1> HIDE DEF a
<1>6. PICK U : r \in Message(U) /\ r.state # "sent"
  BY <1>3, <1>4, NoRequestIsMessage DEF None
<1>7. r.kind = None \/ r = a
  BY NoRequestIsMessage
<1> HIDE DEF r
<1>8. WireTyped' /\ wire'[p] = r /\ \A q \in Procs \ {p} : wire'[q] = wire[q]
  BY <1>5, <1>6, WireSet
<1> QED
  BY <1>4, <1>6, <1>7, <1>8, Zenon

(* A process that ends, and a request it leaves behind.                     *)
LEMMA EndsAt ==
    ASSUME ProcTyped, WireTyped, NEW p \in Procs, NEW where, Ends(p, where)
    PROVE  /\ ProcTyped' /\ \A q \in Procs \ {p} : proc'[q] = proc[q]
           /\ proc'[p].at = where /\ proc'[p].cmd = proc[p].cmd /\ proc'[p].note = proc[p].note
           /\ where # "failed" => /\ proc'[p].packet = proc[p].packet
                                  /\ proc'[p].written = proc[p].written
           /\ WireTyped' /\ \A q \in Procs \ {p} : wire'[q] = wire[q]
           /\ wire'[p] = wire[p] \/ (wire'[p].state # "sent" /\ wire[p].state # "sent")
           /\ IF wire[p].state = "sent" THEN wire' = wire ELSE wire'[p].kind = None
<1>1. PICK S : proc \in [Procs -> Process(S)]
  BY DEF ProcTyped
<1>2. PICK T : S \subseteq T /\ where \in T /\ "new" \in T /\ <<>> \in T
  BY Room, Zenon
<1>3. PICK V : T \subseteq V /\ NoPassphrase \in V /\ 0 \in V /\ None \in V
  BY Room, Zenon
<1>4. PICK U : V \subseteq U /\ where \in U /\ NoPacket \in U /\ "new" \in U
  BY Room, Zenon
<1>5. PICK np \in U, nil \in U, e \in U, z \in U, none \in U, new \in U :
          np = NoPacket /\ nil = <<>> /\ e = NoPassphrase /\ z = 0 /\ none = None /\ new = "new"
  <2>1. {NoPacket, <<>>, NoPassphrase, 0, None, "new"} \subseteq U
    BY <1>2, <1>3, <1>4
  <2> QED
    BY <2>1, Zenon
<1>6. proc[p] \in Process(U)
  BY <1>1, <1>2, <1>3, <1>4 DEF Process
<1> DEFINE f == [cmd |-> proc[p].cmd, at |-> new, note |-> none, secret |-> nil, pass |-> e,
                 packet |-> np, written |-> z]
           a == [f EXCEPT !.at = where, !.note = proc[p].note]
           b == [proc[p] EXCEPT !.at = where]
           r == IF where = "failed" THEN a ELSE b
<1>7. a \in Process(U) /\ a.at = where /\ a.cmd = proc[p].cmd /\ a.note = proc[p].note
  BY <1>4, <1>6 DEF Process
<1>8. /\ b \in Process(U) /\ b.at = where /\ b.cmd = proc[p].cmd /\ b.note = proc[p].note
      /\ b.packet = proc[p].packet /\ b.written = proc[p].written
  BY <1>4, <1>6 DEF Process
<1>9. Fresh(proc[p].cmd) = f
  BY <1>5, Zenon DEF Fresh
<1>10. proc' = [proc EXCEPT ![p] = r]
  BY <1>9, Zenon DEF Ends
<1> HIDE DEF a, b
<1>11. /\ r \in Process(U) /\ r.at = where /\ r.cmd = proc[p].cmd /\ r.note = proc[p].note
       /\ where # "failed" => r.packet = proc[p].packet /\ r.written = proc[p].written
  BY <1>7, <1>8
<1> HIDE DEF r
<1>12. ProcTyped' /\ proc'[p] = r /\ \A q \in Procs \ {p} : proc'[q] = proc[q]
  BY <1>10, <1>11, ProcSet
<1>13. /\ WireTyped' /\ \A q \in Procs \ {p} : wire'[q] = wire[q]
       /\ wire'[p] = wire[p] \/ (wire'[p].state # "sent" /\ wire[p].state # "sent")
       /\ IF wire[p].state = "sent" THEN wire' = wire ELSE wire'[p].kind = None
  <2>1. CASE wire[p].state = "sent"
    <3>1. wire' = wire
      BY <2>1 DEF Ends
    <3>2. WireTyped'
      BY <3>1 DEF WireTyped
    <3> QED
      BY <2>1, <3>1, <3>2, Zenon
  <2>2. CASE wire[p].state # "sent"
    <3>1. wire' = [wire EXCEPT ![p] = NoRequest]
      BY <2>2 DEF Ends
    <3>2. WireTyped' /\ wire'[p] = NoRequest /\ \A q \in Procs \ {p} : wire'[q] = wire[q]
      BY <3>1, NoRequestIsMessage, WireSet
    <3>3. NoRequest.state # "sent" /\ NoRequest.kind = None
      BY NoRequestIsMessage DEF None
    <3> QED
      BY <2>2, <3>2, <3>3, Zenon
  <2> QED
    BY <2>1, <2>2
<1> QED
  BY <1>11, <1>12, <1>13, Zenon

(* A request a process makes.                                               *)
LEMMA RequestIsMessage ==
    ASSUME NEW S, NEW kind
    PROVE  \E T : /\ S \subseteq T /\ Request(kind) \in Message(T)
                  /\ Request(kind).kind = kind /\ Request(kind).state = "sent"
<1>1. PICK U : NoRequest \in Message(U)
  BY NoRequestIsMessage
<1>2. PICK V : S \cup U \subseteq V /\ kind \in V /\ "sent" \in V
  BY Room, Zenon
<1>3. PICK sent \in V : sent = "sent"
  BY <1>2
<1>4. PICK m \in Message(V) : m = NoRequest
  BY <1>1, <1>2 DEF Message
<1>5. LET r == [m EXCEPT !.kind = kind, !.state = sent]
      IN  r \in Message(V) /\ r.kind = kind /\ r.state = sent
  BY <1>2 DEF Message
<1> QED
  BY <1>2, <1>3, <1>4, <1>5, Zenon DEF Request

LEMMA AsksWith ==
    ASSUME WireTyped, NEW p \in Procs, NEW S, NEW r \in Message(S), Asks(p, r)
    PROVE  WireTyped' /\ wire'[p] = r /\ \A q \in Procs \ {p} : wire'[q] = wire[q]
BY WireSet, Zenon DEF Asks
-------------------------------------------------------------------------------
(* The inductive invariant *)

(* The request that consumes a retrieval, not yet handled.                  *)
Pending(p) == wire[p].kind = "open" /\ wire[p].state = "sent"

(* Such a request is that of a receiver, for its package; and a process     *)
(* that inspects a directory or a header is a receiver.                     *)
Receiving(p) ==
    /\ Pending(p) => /\ proc[p].cmd = "receive" /\ proc[p].note = wire[p].id
                     /\ proc[p].at \notin {"new", "empty", "meta"}
    /\ proc[p].at \in {"empty", "meta"} => proc[p].cmd = "receive"

(* A receiver that will not consume another retrieval, and those of n.      *)
Spent(p) ==
    /\ proc[p].cmd = "receive" /\ proc[p].at \notin {"new", "empty", "meta"}
    /\ ~Pending(p)
Spenders(n) == {p \in Procs : Spent(p) /\ proc[p].note = n}

Counted == got \in [Notes -> Nat] /\ \A n \in Notes : got[n] <= Cardinality(Spenders(n))

IInv == ProcTyped /\ WireTyped /\ DiskTyped /\ (\A p \in Procs : Receiving(p)) /\ Counted

LEMMA FiniteProcs == IsFiniteSet(Procs)
BY CommandLineAssumption

LEMMA Chain ==
    ASSUME NEW a \in Nat, NEW b \in Nat, NEW c \in Nat, a <= b
    PROVE  0 <= c /\ (b <= c => a <= c) /\ (b + 1 <= c => a + 1 <= c)
OBVIOUS

LEMMA NonNegative == ASSUME NEW c \in Nat PROVE 0 <= c
OBVIOUS

LEMMA Increment ==
    ASSUME NEW f \in [Notes -> Nat], NEW n, NEW g, g = [f EXCEPT ![n] = @ + 1]
    PROVE  g \in [Notes -> Nat] /\ \A m \in Notes : g[m] = IF m = n THEN f[m] + 1 ELSE f[m]
<1>1. CASE n \in Notes
  BY <1>1
<1>2. CASE n \notin Notes
  <2>1. g = f
    BY <1>2
  <2> QED
    BY <1>2, <2>1
<1> QED
  BY <1>1, <1>2

(* A step of process p that consumes nothing.                               *)
LEMMA StepOfOne ==
    ASSUME IInv, NEW p \in Procs,
           \A q \in Procs \ {p} : proc'[q] = proc[q] /\ wire'[q] = wire[q],
           Receiving(p)', Spent(p) => Spent(p)' /\ proc'[p].note = proc[p].note,
           got' \in [Notes -> Nat], \A n \in Notes : got'[n] \in {0, got[n]}
    PROVE  (\A q \in Procs : Receiving(q)') /\ Counted'
<1>1. \A q \in Procs : Receiving(q)'
  <2>1. \A q \in Procs \ {p} : Receiving(q)'
    BY Zenon DEF IInv, Receiving, Pending
  <2> QED
    BY <2>1
<1>2. ASSUME NEW n \in Notes PROVE got'[n] <= Cardinality(Spenders(n)')
  <2>1. \A q \in Procs \ {p} : Spent(q) => Spent(q)' /\ proc'[q].note = proc[q].note
    BY Zenon DEF Spent, Pending
  <2>2. \A q \in Procs : Spent(q) => Spent(q)' /\ proc'[q].note = proc[q].note
    BY <2>1
  <2>3. Spenders(n) \subseteq Spenders(n)'
    BY <2>2 DEF Spenders
  <2>4. IsFiniteSet(Spenders(n)') /\ IsFiniteSet(Spenders(n))
    BY FS_Subset, FiniteProcs DEF Spenders
  <2>5. /\ Cardinality(Spenders(n)) \in Nat /\ Cardinality(Spenders(n)') \in Nat
        /\ Cardinality(Spenders(n)) <= Cardinality(Spenders(n)')
    BY <2>3, <2>4, FS_Subset, FS_CardinalityType
  <2>6. got[n] <= Cardinality(Spenders(n)) /\ got[n] \in Nat
    BY DEF IInv, Counted
  <2> QED
    <3>1. CASE got'[n] = 0
      BY <2>5, <2>6, <3>1, Chain, Zenon
    <3>2. CASE got'[n] = got[n]
      BY <2>5, <2>6, <3>2, Chain, Zenon
    <3> QED
      BY <3>1, <3>2
<1> QED
  BY <1>1, <1>2 DEF Counted

(* A process ends, whatever becomes of its request.                         *)
LEMMA EndsKeeps ==
    ASSUME IInv, NEW p \in Procs, NEW where \in Ended, Ends(p, where)
    PROVE  IInv'
<1>1. /\ ProcTyped' /\ \A q \in Procs \ {p} : proc'[q] = proc[q]
      /\ proc'[p].at = where /\ proc'[p].cmd = proc[p].cmd /\ proc'[p].note = proc[p].note
      /\ WireTyped' /\ \A q \in Procs \ {p} : wire'[q] = wire[q]
      /\ wire'[p] = wire[p] \/ (wire'[p].state # "sent" /\ wire[p].state # "sent")
  BY EndsAt DEF IInv
<1>2. got' = got /\ disk' = disk
  BY DEF Ends, service
<1>3. where \notin {"new", "empty", "meta"}
  BY DEF Ended
<1>4. Receiving(p)
  BY DEF IInv
<1>5. Receiving(p)' /\ (Spent(p) => Spent(p)')
  BY <1>1, <1>3, <1>4, Zenon DEF Receiving, Spent, Pending
<1>6. DiskTyped'
  BY <1>2 DEF IInv, DiskTyped
<1>7. got' \in [Notes -> Nat] /\ \A n \in Notes : got'[n] \in {0, got[n]}
  BY <1>2 DEF IInv, Counted
<1>8. (\A q \in Procs : Receiving(q)') /\ Counted'
  BY <1>1, <1>5, <1>7, StepOfOne
<1> QED
  BY <1>1, <1>6, <1>8 DEF IInv
-------------------------------------------------------------------------------
(* The service *)

LEMMA ReplyKeeps ==
    ASSUME IInv, NEW p \in Procs, NEW ok, NEW m, Reply(p, ok, m),
           UNCHANGED <<proc, disk>>,
           got' \in [Notes -> Nat], \A n \in Notes : got'[n] \in {0, got[n]}
    PROVE  IInv'
<1>1. /\ WireTyped' /\ wire'[p].state # "sent"
      /\ \A q \in Procs \ {p} : wire'[q] = wire[q]
  BY Replies DEF IInv
<1>2. ProcTyped' /\ DiskTyped' /\ \A q \in Procs : proc'[q] = proc[q]
  BY DEF IInv, ProcTyped, DiskTyped
<1>3. Receiving(p)
  BY DEF IInv
<1>4. Receiving(p)' /\ (Spent(p) => Spent(p)' /\ proc'[p].note = proc[p].note)
  BY <1>1, <1>2, <1>3, Zenon DEF Receiving, Spent, Pending
<1>5. (\A q \in Procs : Receiving(q)') /\ Counted'
  BY <1>1, <1>2, <1>4, StepOfOne
<1> QED
  BY <1>1, <1>2, <1>5 DEF IInv

(* A retrieval is granted: its request has been handled.                    *)
LEMMA OpenKeeps ==
    ASSUME IInv, NEW p \in Procs, Open(p)
    PROVE  IInv'
<1> DEFINE n == wire[p].id
<1>1. /\ Pending(p) /\ Reply(p, TRUE, n) /\ UNCHANGED <<proc, disk>>
      /\ got' = [got EXCEPT ![n] = @ + 1]
  BY DEF Open, Sent, Pending, Service!Retrieve
<1>2. /\ WireTyped' /\ wire'[p].state # "sent"
      /\ \A q \in Procs \ {p} : wire'[q] = wire[q]
  BY <1>1, Replies DEF IInv
<1>3. ProcTyped' /\ DiskTyped' /\ \A q \in Procs : proc'[q] = proc[q]
  BY <1>1 DEF IInv, ProcTyped, DiskTyped
<1>4. Receiving(p)
  BY DEF IInv
<1>5. Receiving(p)' /\ Spent(p)' /\ ~Spent(p) /\ proc'[p].note = n
  BY <1>1, <1>2, <1>3, <1>4, Zenon DEF Receiving, Spent, Pending
<1>6. \A q \in Procs : Receiving(q)'
  <2>1. \A q \in Procs \ {p} : Receiving(q)'
    BY <1>2, <1>3, Zenon DEF IInv, Receiving, Pending
  <2> QED
    BY <1>5, <2>1
<1>7. got \in [Notes -> Nat] /\ \A m \in Notes : got[m] <= Cardinality(Spenders(m))
  BY DEF IInv, Counted
<1> HIDE DEF n
<1>8. /\ got' \in [Notes -> Nat]
      /\ \A m \in Notes : got'[m] = IF m = n THEN got[m] + 1 ELSE got[m]
  BY <1>1, <1>7, Increment, Zenon
<1>9. ASSUME NEW m \in Notes PROVE got'[m] <= Cardinality(Spenders(m)')
  <2>1. \A q \in Procs \ {p} : Spent(q) => Spent(q)' /\ proc'[q].note = proc[q].note
    BY <1>2, <1>3, Zenon DEF Spent, Pending
  <2>2. Spenders(m) \cup (IF m = n THEN {p} ELSE {}) \subseteq Spenders(m)'
    BY <1>5, <2>1 DEF Spenders
  <2>3. IsFiniteSet(Spenders(m)') /\ IsFiniteSet(Spenders(m)) /\ p \notin Spenders(m)
    BY <1>5, FS_Subset, FiniteProcs DEF Spenders
  <2>4. Cardinality(Spenders(m)) \in Nat /\ Cardinality(Spenders(m)') \in Nat
    BY <2>3, FS_CardinalityType
  <2>5. CASE m = n
    <3>1. /\ IsFiniteSet(Spenders(m) \cup {p})
          /\ Cardinality(Spenders(m) \cup {p}) = Cardinality(Spenders(m)) + 1
      BY <2>3, FS_AddElement
    <3>2. Cardinality(Spenders(m) \cup {p}) <= Cardinality(Spenders(m)')
      BY <2>2, <2>3, <2>5, FS_Subset
    <3>3. got'[m] = got[m] + 1 /\ got[m] \in Nat /\ got[m] <= Cardinality(Spenders(m))
      BY <1>7, <1>8, <2>5, Zenon
    <3> QED
      <4>1. Cardinality(Spenders(m)) + 1 <= Cardinality(Spenders(m)')
        BY <3>1, <3>2, Zenon
      <4>2. got[m] + 1 <= Cardinality(Spenders(m)')
        BY <2>4, <3>3, <4>1, Chain, Zenon
      <4> QED
        BY <3>3, <4>2, Zenon
  <2>6. CASE m # n
    <3>1. Cardinality(Spenders(m)) <= Cardinality(Spenders(m)')
      BY <2>2, <2>3, <2>6, FS_Subset
    <3>2. got'[m] = got[m] /\ got[m] \in Nat /\ got[m] <= Cardinality(Spenders(m))
      BY <1>7, <1>8, <2>6, Zenon
    <3> QED
      BY <2>4, <3>1, <3>2, Chain, Zenon
  <2> QED
    BY <2>5, <2>6
<1> QED
  BY <1>2, <1>3, <1>6, <1>8, <1>9 DEF IInv, Counted

LEMMA ServesKeeps ==
    ASSUME IInv, NEW p \in Procs, Serves(p)
    PROVE  IInv'
<1>1. got \in [Notes -> Nat]
  BY DEF IInv, Counted
<1>2. ASSUME got' = got PROVE got' \in [Notes -> Nat] /\ \A n \in Notes : got'[n] \in {0, got[n]}
  BY <1>1, <1>2
<1>3. CASE \E c \in Proofs : Issue(p, c)
  <2>1. PICK c \in Proofs : Issue(p, c)
    BY <1>3
  <2>2. Reply(p, TRUE, c) /\ UNCHANGED <<proc, disk>> /\ got' = got
    BY <2>1 DEF Issue, Service!Offer
  <2> QED
    BY <1>2, <2>2, ReplyKeeps
<1>4. CASE \E ttl \in Ttls, views \in Views : Store(p, ttl, views)
  <2>1. PICK ttl \in Ttls, views \in Views : Store(p, ttl, views)
    BY <1>4
  <2>2. /\ Reply(p, TRUE, wire[p].id) /\ UNCHANGED <<proc, disk>>
        /\ got' = [got EXCEPT ![wire[p].id] = 0]
    BY <2>1 DEF Store, Service!Admit
  <2>3. got' \in [Notes -> Nat] /\ \A n \in Notes : got'[n] \in {0, got[n]}
    BY <1>1, <2>2
  <2> QED
    BY <2>2, <2>3, ReplyKeeps
<1>5. CASE Describe(p)
  <2>1. Reply(p, TRUE, wire[p].id) /\ UNCHANGED <<proc, disk>> /\ got' = got
    BY <1>5 DEF Describe, service
  <2> QED
    BY <1>2, <2>1, ReplyKeeps
<1>6. CASE Open(p)
  BY <1>6, OpenKeeps
<1>7. CASE Withdraw(p)
  <2>1. Reply(p, TRUE, wire[p].id) /\ UNCHANGED <<proc, disk>> /\ got' = got
    BY <1>7 DEF Withdraw, Service!Revoke, Service!End
  <2> QED
    BY <1>2, <2>1, ReplyKeeps
<1>8. CASE Deny(p)
  <2>1. Reply(p, FALSE, None) /\ UNCHANGED <<proc, disk>> /\ got' = got
    BY <1>8 DEF Deny, service
  <2> QED
    BY <1>2, <2>1, ReplyKeeps
<1>9. CASE \E m \in Notes : Misroute(p, m)
  <2>1. PICK m \in Notes : Misroute(p, m)
    BY <1>9
  <2>2. Reply(p, TRUE, m) /\ UNCHANGED <<proc, disk>> /\ got' = got
    BY <2>1 DEF Misroute, service
  <2> QED
    BY <1>2, <2>2, ReplyKeeps
<1> QED
  BY <1>3, <1>4, <1>5, <1>6, <1>7, <1>8, <1>9 DEF Serves
-------------------------------------------------------------------------------
(* The directory *)

(* What a step leaves of a file that is there.                              *)
Kept ==
    \A f \in Paths : disk[f] # NoFile =>
        disk'[f].by = disk[f].by /\ (disk[f].whole => disk'[f] = disk[f])

(* A step makes file o be r, and leaves what was there.                     *)
Puts(o, r) ==
    /\ DiskTyped' /\ Kept
    /\ o \in Paths => disk'[o] = r
    /\ \A f \in Paths \ {o} : disk'[f] = disk[f]

(* A file is created, or one that is not whole is completed.                *)
LEMMA CreatesFile ==
    ASSUME DiskTyped, NEW o, disk[o] = NoFile, NEW by, NEW of, NEW whole,
           disk' = [disk EXCEPT ![o] = [by |-> by, of |-> of, whole |-> whole]]
    PROVE  Puts(o, [by |-> by, of |-> of, whole |-> whole])
<1> DEFINE r == [by |-> by, of |-> of, whole |-> whole]
<1>1. PICK T : {} \subseteq T /\ by \in T /\ of \in T /\ whole \in T
  BY Room, Zenon
<1>2. r \in File(T)
  BY <1>1 DEF File
<1>3. disk' = [disk EXCEPT ![o] = r]
  OBVIOUS
<1> HIDE DEF r
<1>4. DiskTyped' /\ (o \in Paths => disk'[o] = r) /\ \A f \in Paths \ {o} : disk'[f] = disk[f]
  BY <1>2, <1>3, DiskSet
<1>5. Kept
  BY <1>4 DEF Kept
<1> QED
  BY <1>4, <1>5, Zenon DEF r, Puts

LEMMA CompletesFile ==
    ASSUME DiskTyped, NEW o, ~disk[o].whole, disk' = [disk EXCEPT ![o].whole = TRUE]
    PROVE  Puts(o, [by |-> disk[o].by, of |-> disk[o].of, whole |-> TRUE])
<1> DEFINE r == [disk[o] EXCEPT !.whole = TRUE]
           s == [by |-> disk[o].by, of |-> disk[o].of, whole |-> TRUE]
<1>1. PICK S : disk \in [Paths -> File(S)]
  BY DEF DiskTyped
<1>2. PICK T : S \subseteq T /\ TRUE \in T
  BY Room, Zenon
<1>3. PICK yes \in T : yes = TRUE
  BY <1>2
<1>4. CASE o \in Paths
  <2>1. r \in File(T) /\ r.by = disk[o].by /\ r = s
    <3>1. ASSUME NEW m \in File(T), NEW x \in T
          PROVE  LET k == [m EXCEPT !.whole = x]
                 IN  k \in File(T) /\ k.by = m.by /\ k = [by |-> m.by, of |-> m.of, whole |-> x]
      BY DEF File
    <3>2. disk[o] \in File(T)
      BY <1>1, <1>2, <1>4 DEF File
    <3> QED
      BY <1>3, <3>1, <3>2, Zenon
  <2>2. disk' = [disk EXCEPT ![o] = r]
    OBVIOUS
  <2> HIDE DEF r
  <2>3. DiskTyped' /\ disk'[o] = r /\ \A f \in Paths \ {o} : disk'[f] = disk[f]
    BY <1>4, <2>1, <2>2, DiskSet
  <2>4. ASSUME NEW f \in Paths
        PROVE  disk'[f].by = disk[f].by /\ (disk[f].whole => disk'[f] = disk[f])
    <3>1. CASE f = o
      BY <2>1, <2>3, <3>1, Zenon
    <3>2. CASE f # o
      BY <2>3, <3>2, Zenon
    <3> QED
      BY <3>1, <3>2
  <2>5. Kept
    BY <2>4, Zenon DEF Kept
  <2> QED
    BY <2>1, <2>3, <2>5, Zenon DEF Puts
<1>5. CASE o \notin Paths
  <2>1. disk' = disk
    BY <1>1, <1>5
  <2> QED
    BY <1>5, <2>1 DEF DiskTyped, Kept, Puts
<1> QED
  BY <1>4, <1>5

LEMMA DiskStays == ASSUME disk' = disk, DiskTyped PROVE DiskTyped' /\ Kept
BY DEF DiskTyped, Kept
-------------------------------------------------------------------------------
(* The processes *)

(* A step of process p that leaves the service alone.                       *)
LEMMA OwnStep ==
    ASSUME IInv, NEW p \in Procs, ProcTyped', WireTyped', DiskTyped',
           \A q \in Procs \ {p} : proc'[q] = proc[q] /\ wire'[q] = wire[q],
           Receiving(p)', Spent(p) => Spent(p)' /\ proc'[p].note = proc[p].note,
           got' = got
    PROVE  IInv'
<1>1. got' \in [Notes -> Nat] /\ \A n \in Notes : got'[n] \in {0, got[n]}
  BY DEF IInv, Counted
<1>2. (\A q \in Procs : Receiving(q)') /\ Counted'
  BY <1>1, StepOfOne
<1> QED
  BY <1>2 DEF IInv

(* A process enters its next stage with a package.                          *)
LEMMA Enters ==
    ASSUME ProcTyped, NEW p \in Procs, NEW where, NEW n, NEW x,
           proc' = [proc EXCEPT ![p].at = where, ![p].note = n, ![p].packet = x]
    PROVE  ProcGoes(p, where, n, x, proc[p].written)
<1>1. PICK S : proc \in [Procs -> Process(S)]
  BY DEF ProcTyped
<1>2. PICK T : S \subseteq T /\ where \in T /\ n \in T /\ x \in T
  BY Room, Zenon
<1> DEFINE r == [proc[p] EXCEPT !.at = where, !.note = n, !.packet = x]
<1>3. /\ r \in Process(T) /\ r.at = where /\ r.cmd = proc[p].cmd /\ r.note = n
      /\ r.packet = x /\ r.written = proc[p].written
  BY <1>1, <1>2 DEF Process
<1>4. proc' = [proc EXCEPT ![p] = r]
  OBVIOUS
<1> HIDE DEF r
<1>5. ProcTyped' /\ proc'[p] = r /\ \A q \in Procs \ {p} : proc'[q] = proc[q]
  BY <1>3, <1>4, ProcSet
<1> QED
  BY <1>3, <1>5, Zenon DEF ProcGoes

LEMMA StoresPacket ==
    ASSUME ProcTyped, NEW p \in Procs, NEW where, NEW x,
           proc' = [proc EXCEPT ![p].at = where, ![p].packet = x]
    PROVE  ProcGoes(p, where, proc[p].note, x, proc[p].written)
<1>1. PICK S : proc \in [Procs -> Process(S)]
  BY DEF ProcTyped
<1>2. PICK T : S \subseteq T /\ where \in T /\ x \in T /\ x \in T
  BY Room, Zenon
<1> DEFINE r == [proc[p] EXCEPT !.at = where, !.packet = x]
<1>3. /\ r \in Process(T) /\ r.at = where /\ r.cmd = proc[p].cmd /\ r.note = proc[p].note
      /\ r.packet = x /\ r.written = proc[p].written
  BY <1>1, <1>2 DEF Process
<1>4. proc' = [proc EXCEPT ![p] = r]
  OBVIOUS
<1> HIDE DEF r
<1>5. ProcTyped' /\ proc'[p] = r /\ \A q \in Procs \ {p} : proc'[q] = proc[q]
  BY <1>3, <1>4, ProcSet
<1> QED
  BY <1>3, <1>5, Zenon DEF ProcGoes

(* A process takes up a package, perhaps with the secret and the words of   *)
(* a link.                                                                  *)
LEMMA Names ==
    ASSUME ProcTyped, NEW p \in Procs, NEW where, NEW id,
           proc' = [proc EXCEPT ![p].at = where, ![p].note = id]
    PROVE  ProcGoes(p, where, id, proc[p].packet, proc[p].written)
<1>1. PICK S : proc \in [Procs -> Process(S)]
  BY DEF ProcTyped
<1>2. PICK T : S \subseteq T /\ where \in T /\ id \in T /\ id \in T
  BY Room, Zenon
<1> DEFINE r == [proc[p] EXCEPT !.at = where, !.note = id]
<1>3. /\ r \in Process(T) /\ r.at = where /\ r.cmd = proc[p].cmd /\ r.note = id
      /\ r.packet = proc[p].packet /\ r.written = proc[p].written
  BY <1>1, <1>2 DEF Process
<1>4. proc' = [proc EXCEPT ![p] = r]
  OBVIOUS
<1> HIDE DEF r
<1>5. ProcTyped' /\ proc'[p] = r /\ \A q \in Procs \ {p} : proc'[q] = proc[q]
  BY <1>3, <1>4, ProcSet
<1> QED
  BY <1>3, <1>5, Zenon DEF ProcGoes

LEMMA TakesLink ==
    ASSUME ProcTyped, NEW p \in Procs, NEW where, NEW id, NEW secret, NEW pass,
           proc' = [proc EXCEPT ![p].at = where, ![p].note = id, ![p].secret = secret,
                                ![p].pass = pass]
    PROVE  ProcGoes(p, where, id, proc[p].packet, proc[p].written)
<1>1. PICK S : proc \in [Procs -> Process(S)]
  BY DEF ProcTyped
<1>2. PICK U : S \subseteq U /\ where \in U /\ id \in U /\ secret \in U
  BY Room, Zenon
<1>3. PICK T : U \subseteq T /\ pass \in T /\ pass \in T /\ pass \in T
  BY Room, Zenon
<1> DEFINE r == [proc[p] EXCEPT !.at = where, !.note = id, !.secret = secret, !.pass = pass]
<1>4. /\ r \in Process(T) /\ r.at = where /\ r.cmd = proc[p].cmd /\ r.note = id
      /\ r.packet = proc[p].packet /\ r.written = proc[p].written
  BY <1>1, <1>2, <1>3 DEF Process
<1>5. proc' = [proc EXCEPT ![p] = r]
  OBVIOUS
<1> HIDE DEF r
<1>6. ProcTyped' /\ proc'[p] = r /\ \A q \in Procs \ {p} : proc'[q] = proc[q]
  BY <1>4, <1>5, ProcSet
<1> QED
  BY <1>4, <1>6, Zenon DEF ProcGoes

(* An output is counted.                                                    *)
LEMMA WritesOne ==
    ASSUME ProcTyped, NEW p \in Procs, NEW k, proc' = [proc EXCEPT ![p].written = k]
    PROVE  ProcGoes(p, proc[p].at, proc[p].note, proc[p].packet, k)
<1>1. PICK S : proc \in [Procs -> Process(S)]
  BY DEF ProcTyped
<1>2. PICK T : S \subseteq T /\ k \in T /\ k \in T /\ k \in T
  BY Room, Zenon
<1> DEFINE r == [proc[p] EXCEPT !.written = k]
<1>3. /\ r \in Process(T) /\ r.at = proc[p].at /\ r.cmd = proc[p].cmd
      /\ r.note = proc[p].note /\ r.packet = proc[p].packet /\ r.written = k
  BY <1>1, <1>2 DEF Process
<1>4. proc' = [proc EXCEPT ![p] = r]
  OBVIOUS
<1> HIDE DEF r
<1>5. ProcTyped' /\ proc'[p] = r /\ \A q \in Procs \ {p} : proc'[q] = proc[q]
  BY <1>3, <1>4, ProcSet
<1> QED
  BY <1>3, <1>5, Zenon DEF ProcGoes

LEMMA SendKeeps ==
    ASSUME IInv, NEW p \in Procs, NEW n, NEW input, Send(p, n, input)
    PROVE  IInv' /\ Kept
<1>1. proc[p].cmd = "send" /\ UNCHANGED <<service, disk>> /\ Asks(p, Request("challenge"))
  BY DEF Send, At
<1>2. ProcTyped
  BY DEF IInv
<1>3. /\ ProcTyped' /\ \A q \in Procs \ {p} : proc'[q] = proc[q]
      /\ proc'[p].at = "challenge"
  <2>1. PICK x : proc' = [proc EXCEPT ![p].at = "challenge", ![p].note = n, ![p].packet = x]
    BY Zenon DEF Send
  <2>2. ProcGoes(p, "challenge", n, x, proc[p].written)
    BY <1>2, <2>1, Enters, Zenon
  <2> QED
    BY <2>2 DEF ProcGoes
<1>4. PICK S : Request("challenge") \in Message(S) /\ Request("challenge").kind = "challenge"
  BY RequestIsMessage
<1>5. /\ WireTyped' /\ wire'[p].kind = "challenge"
      /\ \A q \in Procs \ {p} : wire'[q] = wire[q]
  BY <1>1, <1>4, AsksWith, Zenon DEF IInv
<1>6. Receiving(p)' /\ ~Spent(p)
  BY <1>1, <1>3, <1>5 DEF Receiving, Pending, Spent
<1>7. DiskTyped' /\ Kept /\ got' = got
  BY <1>1, DiskStays DEF service, IInv
<1> QED
  BY <1>3, <1>5, <1>6, <1>7, OwnStep
(* A request about package id with a capability.                            *)
LEMMA RequestsWithToken ==
    ASSUME WireTyped, NEW p \in Procs, NEW kind, NEW id, NEW token,
           Asks(p, [Request(kind) EXCEPT !.id = id, !.token = token])
    PROVE  WireAsks(p, kind, id) /\ wire'[p].token = token
<1>1. PICK S : {} \subseteq S /\ id \in S /\ token \in S /\ id \in S
  BY Room, Zenon
<1>2. PICK T : /\ S \subseteq T /\ Request(kind) \in Message(T)
               /\ Request(kind).kind = kind /\ Request(kind).state = "sent"
  BY RequestIsMessage, Zenon
<1>3. PICK m \in Message(T) : m = Request(kind)
  BY <1>2
<1> DEFINE r == [m EXCEPT !.id = id, !.token = token]
<1>4. /\ r \in Message(T) /\ r.kind = m.kind /\ r.id = id
      /\ r.state = m.state /\ r.token = token
  BY <1>1, <1>2 DEF Message
<1>5. Asks(p, r)
  BY <1>3, Zenon
<1> HIDE DEF r
<1>6. WireTyped' /\ wire'[p] = r /\ \A q \in Procs \ {p} : wire'[q] = wire[q]
  BY <1>4, <1>5, AsksWith, Zenon
<1> QED
  BY <1>2, <1>3, <1>4, <1>6, Zenon DEF WireAsks

(* A request to store a packet.                                             *)
LEMMA RequestsWithPacket ==
    ASSUME WireTyped, NEW p \in Procs, NEW kind, NEW id, NEW nonce, NEW x,
           Asks(p, [Request(kind) EXCEPT !.id = id, !.proof = nonce, !.packet = x])
    PROVE  WireAsks(p, kind, id) /\ wire'[p].packet = x
<1>1. PICK S : {} \subseteq S /\ id \in S /\ nonce \in S /\ x \in S
  BY Room, Zenon
<1>2. PICK T : /\ S \subseteq T /\ Request(kind) \in Message(T)
               /\ Request(kind).kind = kind /\ Request(kind).state = "sent"
  BY RequestIsMessage, Zenon
<1>3. PICK m \in Message(T) : m = Request(kind)
  BY <1>2
<1> DEFINE r == [m EXCEPT !.id = id, !.proof = nonce, !.packet = x]
<1>4. /\ r \in Message(T) /\ r.kind = m.kind /\ r.id = id
      /\ r.state = m.state /\ r.packet = x
  BY <1>1, <1>2 DEF Message
<1>5. Asks(p, r)
  BY <1>3, Zenon
<1> HIDE DEF r
<1>6. WireTyped' /\ wire'[p] = r /\ \A q \in Procs \ {p} : wire'[q] = wire[q]
  BY <1>4, <1>5, AsksWith, Zenon
<1> QED
  BY <1>2, <1>3, <1>4, <1>6, Zenon DEF WireAsks

LEMMA ChallengedKeeps ==
    ASSUME IInv, NEW p \in Procs, Challenged(p)
    PROVE  IInv' /\ Kept
<1> DEFINE id == proc[p].note
           nonce == wire[p].note
           x == proc[p].packet
<1>1. /\ Goes(p, "create") /\ UNCHANGED <<service, disk>> /\ wire[p].state = "answered"
      /\ Asks(p, [Request("create") EXCEPT !.id = id, !.proof = nonce, !.packet = x])
  BY DEF Challenged, Answer
<1> HIDE DEF id, nonce, x
<1>2. ProcTyped /\ WireTyped
  BY DEF IInv
<1>3. /\ ProcTyped' /\ \A q \in Procs \ {p} : proc'[q] = proc[q]
      /\ proc'[p].at = "create" /\ proc'[p].cmd = proc[p].cmd /\ proc'[p].note = proc[p].note
  <2>1. ProcGoes(p, "create", proc[p].note, proc[p].packet, proc[p].written)
    BY <1>1, <1>2, GoesTo, Zenon
  <2> QED
    BY <2>1 DEF ProcGoes
<1>4. /\ WireTyped' /\ wire'[p].kind = "create"
      /\ \A q \in Procs \ {p} : wire'[q] = wire[q]
  <2>1. WireAsks(p, "create", id)
    BY <1>1, <1>2, RequestsWithPacket, Zenon
  <2> QED
    BY <2>1 DEF WireAsks
<1>5. Receiving(p)' /\ (Spent(p) => Spent(p)')
  BY <1>3, <1>4 DEF Receiving, Pending, Spent
<1>6. DiskTyped' /\ Kept /\ got' = got
  BY <1>1, DiskStays DEF service, IInv
<1> QED
  BY <1>3, <1>4, <1>5, <1>6, OwnStep

LEMMA InspectKeeps ==
    ASSUME IInv, NEW p \in Procs, Inspect(p)
    PROVE  IInv' /\ Kept
<1>1. /\ proc[p].cmd = "receive" /\ proc[p].at = "new"
      /\ Goes(p, "empty") /\ UNCHANGED <<service, wire, disk>>
  BY DEF Inspect, At
<1>2. ProcTyped /\ WireTyped /\ Receiving(p)
  BY DEF IInv
<1>3. /\ ProcTyped' /\ \A q \in Procs \ {p} : proc'[q] = proc[q]
      /\ proc'[p].at = "empty" /\ proc'[p].cmd = proc[p].cmd /\ proc'[p].note = proc[p].note
  <2>1. ProcGoes(p, "empty", proc[p].note, proc[p].packet, proc[p].written)
    BY <1>1, <1>2, GoesTo, Zenon
  <2> QED
    BY <2>1 DEF ProcGoes
<1>4. WireTyped' /\ \A q \in Procs : wire'[q] = wire[q]
  BY <1>1, <1>2 DEF WireTyped
<1>5. ~Pending(p) /\ Pending(p)' = Pending(p)
  BY <1>1, <1>2, <1>4 DEF Receiving, Pending
<1>6. Receiving(p)' /\ ~Spent(p)
  BY <1>1, <1>3, <1>5 DEF Receiving, Spent
<1>7. DiskTyped' /\ Kept /\ got' = got
  BY <1>1, DiskStays DEF service, IInv
<1> QED
  BY <1>3, <1>4, <1>6, <1>7, OwnStep

LEMMA ReceiveKeeps ==
    ASSUME IInv, NEW p \in Procs, NEW id, NEW m, NEW pass,
           Receive(p, id, m, pass)
    PROVE  IInv' /\ Kept
<1> DEFINE token == Peek(Secret(m), id)
<1>1. /\ proc[p].cmd = "receive" /\ proc[p].at = "empty" /\ UNCHANGED <<service, disk>>
      /\ Asks(p, [Request("meta") EXCEPT !.id = id, !.token = token])
  BY DEF Receive, At
<1> HIDE DEF token
<1>2. ProcTyped /\ WireTyped
  BY DEF IInv
<1>3. /\ ProcTyped' /\ \A q \in Procs \ {p} : proc'[q] = proc[q]
      /\ proc'[p].at = "meta" /\ proc'[p].cmd = proc[p].cmd
  <2>1. PICK secret : secret = Secret(m)
    OBVIOUS
  <2>2. proc' = [proc EXCEPT ![p].at = "meta", ![p].note = id, ![p].secret = secret,
                             ![p].pass = pass]
    BY <2>1, Zenon DEF Receive
  <2>3. ProcGoes(p, "meta", id, proc[p].packet, proc[p].written)
    BY <1>2, <2>2, TakesLink, Zenon
  <2> QED
    BY <2>3 DEF ProcGoes
<1>4. /\ WireTyped' /\ wire'[p].kind = "meta"
      /\ \A q \in Procs \ {p} : wire'[q] = wire[q]
  <2>1. WireAsks(p, "meta", id)
    BY <1>1, <1>2, RequestsWithToken, Zenon
  <2> QED
    BY <2>1 DEF WireAsks
<1>5. Receiving(p)' /\ ~Spent(p)
  BY <1>1, <1>3, <1>4 DEF Receiving, Pending, Spent
<1>6. DiskTyped' /\ Kept /\ got' = got
  BY <1>1, DiskStays DEF service, IInv
<1> QED
  BY <1>3, <1>4, <1>5, <1>6, OwnStep
LEMMA EndsKeepsFiles ==
    ASSUME IInv, NEW p \in Procs, NEW where \in Ended, Ends(p, where)
    PROVE  IInv' /\ Kept
<1>1. IInv'
  BY EndsKeeps
<1>2. disk' = disk
  BY DEF Ends
<1> QED
  BY <1>1, <1>2, DiskStays DEF IInv

(* A header is put into the packet a process has.                           *)
LEMMA PacketOf ==
    ASSUME ProcTyped, NEW p \in Procs, NEW header
    PROVE  [proc EXCEPT ![p].at = "open", ![p].packet.header = header] =
           [proc EXCEPT ![p].at = "open",
                        ![p].packet = [proc[p].packet EXCEPT !.header = header]]
<1>1. PICK S : proc \in [Procs -> Process(S)]
  BY DEF ProcTyped
<1> DEFINE r == [proc[p] EXCEPT !.at = "open"]
<1>2. r.packet = proc[p].packet
  BY <1>1 DEF Process
<1> QED
  BY <1>1, <1>2

LEMMA VerifiedKeeps ==
    ASSUME IInv, NEW p \in Procs, Verified(p)
    PROVE  IInv' /\ Kept
<1> DEFINE header == packets[wire[p].note].header
           token == ReadToken(proc[p].secret, header, proc[p].pass)
           x == [proc[p].packet EXCEPT !.header = header]
<1>1. CASE Prepares(header, proc[p].secret, proc[p].note, proc[p].pass)
  <2>1. /\ proc[p].at = "meta" /\ UNCHANGED <<service, disk>>
        /\ proc' = [proc EXCEPT ![p].at = "open", ![p].packet.header = header]
        /\ Asks(p, [Request("open") EXCEPT !.id = proc[p].note, !.token = token])
    BY <1>1, Zenon DEF Verified, Answer
  <2>2. ProcTyped /\ WireTyped /\ Receiving(p)
    BY DEF IInv
  <2>3. proc' = [proc EXCEPT ![p].at = "open", ![p].packet = x]
    BY <2>1, <2>2, PacketOf
  <2> HIDE DEF x, token
  <2>4. /\ ProcTyped' /\ \A q \in Procs \ {p} : proc'[q] = proc[q]
        /\ proc'[p].at = "open" /\ proc'[p].cmd = proc[p].cmd /\ proc'[p].note = proc[p].note
    <3>1. ProcGoes(p, "open", proc[p].note, x, proc[p].written)
      BY <2>2, <2>3, StoresPacket, Zenon
    <3> QED
      BY <3>1 DEF ProcGoes
  <2>5. /\ WireTyped' /\ wire'[p].kind = "open" /\ wire'[p].id = proc[p].note
        /\ \A q \in Procs \ {p} : wire'[q] = wire[q]
    <3>1. WireAsks(p, "open", proc[p].note)
      BY <2>1, <2>2, RequestsWithToken, Zenon
    <3> QED
      BY <3>1 DEF WireAsks
  <2>6. proc[p].cmd = "receive" /\ ~Spent(p)
    BY <2>1, <2>2 DEF Receiving, Spent
  <2>7. Receiving(p)'
    BY <2>4, <2>5, <2>6 DEF Receiving
  <2>8. DiskTyped' /\ Kept /\ got' = got
    BY <2>1, DiskStays DEF service, IInv
  <2> QED
    BY <2>4, <2>5, <2>6, <2>7, <2>8, OwnStep
<1>2. CASE ~Prepares(header, proc[p].secret, proc[p].note, proc[p].pass)
  <2>1. Ends(p, "failed") /\ "failed" \in Ended
    BY <1>2, Zenon DEF Verified, Ended
  <2> QED
    BY <2>1, EndsKeepsFiles
<1> QED
  BY <1>1, <1>2

LEMMA OpenedKeeps ==
    ASSUME IInv, NEW p \in Procs, Opened(p)
    PROVE  IInv' /\ Kept
<1> DEFINE x == packets[wire[p].note]
           header == proc[p].packet.header
<1>1. CASE Decrypts(x, header, Key(proc[p].secret, header, proc[p].pass))
  <2>1. /\ proc[p].at = "open" /\ UNCHANGED <<service, disk>>
        /\ proc' = [proc EXCEPT ![p].at = "write", ![p].packet = x]
        /\ wire' = [wire EXCEPT ![p] = NoRequest]
    BY <1>1, Zenon DEF Opened, Answer
  <2> HIDE DEF x
  <2>2. ProcTyped /\ WireTyped
    BY DEF IInv
  <2>3. /\ ProcTyped' /\ \A q \in Procs \ {p} : proc'[q] = proc[q]
        /\ proc'[p].at = "write" /\ proc'[p].cmd = proc[p].cmd /\ proc'[p].note = proc[p].note
    <3>1. ProcGoes(p, "write", proc[p].note, x, proc[p].written)
      BY <2>1, <2>2, StoresPacket, Zenon
    <3> QED
      BY <3>1 DEF ProcGoes
  <2>4. /\ WireTyped' /\ wire'[p] = NoRequest
        /\ \A q \in Procs \ {p} : wire'[q] = wire[q]
    BY <2>1, <2>2, NoRequestIsMessage, WireSet, Zenon
  <2>5. ~Pending(p)'
    <3>1. wire'[p].state = None
      BY <2>4, NoRequestIsMessage, Zenon
    <3> QED
      BY <3>1 DEF Pending, None
  <2>6. Receiving(p)' /\ (Spent(p) => Spent(p)')
    BY <2>3, <2>5 DEF Receiving, Spent
  <2>7. DiskTyped' /\ Kept /\ got' = got
    BY <2>1, DiskStays DEF service, IInv
  <2> QED
    BY <2>3, <2>4, <2>6, <2>7, OwnStep
<1>2. CASE ~Decrypts(x, header, Key(proc[p].secret, header, proc[p].pass))
  <2>1. Ends(p, "failed") /\ "failed" \in Ended
    BY <1>2, Zenon DEF Opened, Ended
  <2> QED
    BY <2>1, EndsKeepsFiles
<1> QED
  BY <1>1, <1>2

(* While a process writes, its package and its request are left alone.      *)
LEMMA WritingKeeps ==
    ASSUME IInv, NEW p \in Procs, proc[p].at = "write",
           ProcTyped', \A q \in Procs \ {p} : proc'[q] = proc[q],
           proc'[p].at \in {"write", "collided"}, proc'[p].cmd = proc[p].cmd,
           proc'[p].note = proc[p].note, wire' = wire, got' = got, DiskTyped'
    PROVE  IInv'
<1>1. WireTyped' /\ \A q \in Procs : wire'[q] = wire[q]
  BY DEF IInv, WireTyped
<1>2. Receiving(p)
  BY DEF IInv
<1>3. Pending(p)' = Pending(p) /\ wire'[p].id = wire[p].id
  BY <1>1 DEF Pending
<1>4. proc'[p].at \notin {"new", "empty", "meta"}
  OBVIOUS
<1>5. Receiving(p)' /\ (Spent(p) => Spent(p)')
  BY <1>2, <1>3, <1>4, Zenon DEF Receiving, Spent
<1> QED
  BY <1>1, <1>5, OwnStep

LEMMA OpenFileKeeps ==
    ASSUME IInv, NEW p \in Procs, OpenFile(p)
    PROVE  IInv' /\ Kept
<1> DEFINE of == proc[p].packet.sealed.content.of
           o == Output(p)
<1>1. proc[p].at = "write" /\ wire' = wire /\ got' = got
  BY DEF OpenFile, Writing, At, service
<1>2. ProcTyped /\ DiskTyped
  BY DEF IInv
<1>3. CASE disk[o] = NoFile
  <2>1. /\ proc' = proc
        /\ disk' = [disk EXCEPT ![o] = [by |-> p, of |-> of, whole |-> FALSE]]
    BY <1>3, Zenon DEF OpenFile
  <2>2. DiskTyped' /\ Kept
    BY <1>2, <1>3, <2>1, CreatesFile, Zenon DEF Puts
  <2>3. ProcTyped' /\ \A q \in Procs : proc'[q] = proc[q]
    BY <1>2, <2>1 DEF ProcTyped
  <2> QED
    BY <1>1, <2>2, <2>3, WritingKeeps
<1>4. CASE disk[o] # NoFile
  <2>1. Goes(p, "collided") /\ disk' = disk
    BY <1>4, Zenon DEF OpenFile
  <2>2. DiskTyped' /\ Kept
    BY <1>2, <2>1, DiskStays
  <2>3. /\ ProcTyped' /\ \A q \in Procs \ {p} : proc'[q] = proc[q]
        /\ proc'[p].at = "collided" /\ proc'[p].cmd = proc[p].cmd
        /\ proc'[p].note = proc[p].note
    <3>1. ProcGoes(p, "collided", proc[p].note, proc[p].packet, proc[p].written)
      BY <1>2, <2>1, GoesTo, Zenon
    <3> QED
      BY <3>1 DEF ProcGoes
  <2> QED
    BY <1>1, <2>2, <2>3, WritingKeeps
<1> QED
  BY <1>3, <1>4

LEMMA WriteFileKeeps ==
    ASSUME IInv, NEW p \in Procs, WriteFile(p)
    PROVE  IInv' /\ Kept
<1> DEFINE o == Output(p)
           k == proc[p].written + 1
<1>1. /\ proc[p].at = "write" /\ wire' = wire /\ got' = got /\ ~disk[o].whole
      /\ disk' = [disk EXCEPT ![o].whole = TRUE]
      /\ proc' = [proc EXCEPT ![p].written = k]
  BY DEF WriteFile, Writing, At, service
<1> HIDE DEF o, k
<1>2. ProcTyped /\ DiskTyped
  BY DEF IInv
<1>3. DiskTyped' /\ Kept
  BY <1>1, <1>2, CompletesFile, Zenon DEF Puts
<1>4. /\ ProcTyped' /\ \A q \in Procs \ {p} : proc'[q] = proc[q]
      /\ proc'[p].at = proc[p].at /\ proc'[p].cmd = proc[p].cmd
      /\ proc'[p].note = proc[p].note
  <2>1. ProcGoes(p, proc[p].at, proc[p].note, proc[p].packet, k)
    BY <1>1, <1>2, WritesOne, Zenon
  <2> QED
    BY <2>1 DEF ProcGoes
<1> QED
  BY <1>1, <1>3, <1>4, WritingKeeps

LEMMA RevokeKeeps ==
    ASSUME IInv, NEW p \in Procs, NEW id, NEW m, Revoke(p, id, m)
    PROVE  IInv' /\ Kept
<1> DEFINE token == RevokeToken(m)
<1>1. /\ proc[p].cmd = "revoke" /\ UNCHANGED <<service, disk>>
      /\ Asks(p, [Request("revoke") EXCEPT !.id = id, !.token = token])
  BY DEF Revoke, At
<1> HIDE DEF token
<1>2. ProcTyped /\ WireTyped
  BY DEF IInv
<1>3. /\ ProcTyped' /\ \A q \in Procs \ {p} : proc'[q] = proc[q]
      /\ proc'[p].at = "revoke"
  <2>1. proc' = [proc EXCEPT ![p].at = "revoke", ![p].note = id]
    BY Zenon DEF Revoke
  <2>2. ProcGoes(p, "revoke", id, proc[p].packet, proc[p].written)
    BY <1>2, <2>1, Names, Zenon
  <2> QED
    BY <2>2 DEF ProcGoes
<1>4. /\ WireTyped' /\ wire'[p].kind = "revoke"
      /\ \A q \in Procs \ {p} : wire'[q] = wire[q]
  <2>1. WireAsks(p, "revoke", id)
    BY <1>1, <1>2, RequestsWithToken, Zenon
  <2> QED
    BY <2>1 DEF WireAsks
<1>5. Receiving(p)' /\ ~Spent(p)
  BY <1>1, <1>3, <1>4 DEF Receiving, Pending, Spent
<1>6. DiskTyped' /\ Kept /\ got' = got
  BY <1>1, DiskStays DEF service, IInv
<1> QED
  BY <1>3, <1>4, <1>5, <1>6, OwnStep
-------------------------------------------------------------------------------
LEMMA StartsKeeps ==
    ASSUME IInv, NEW p \in Procs, Starts(p)
    PROVE  IInv' /\ Kept
BY SendKeeps, InspectKeeps, RevokeKeeps, Zenon DEF Starts

LEMMA ContinuesKeeps ==
    ASSUME IInv, NEW p \in Procs, Continues(p) \/ Fails(p)
    PROVE  IInv' /\ Kept
<1>1. "ok" \in Ended /\ "failed" \in Ended
  BY DEF Ended
<1>2. ASSUME NEW where \in Ended, Ends(p, where) PROVE IInv' /\ Kept
  BY <1>2, EndsKeepsFiles
<1>3. CASE Challenged(p)
  BY <1>3, ChallengedKeeps
<1>4. CASE Created(p)
  <2>1. Ends(p, "ok") \/ Ends(p, "failed")
    BY <1>4, Zenon DEF Created
  <2> QED
    BY <1>1, <1>2, <2>1
<1>5. CASE Verified(p)
  BY <1>5, VerifiedKeeps
<1>6. CASE Opened(p)
  BY <1>6, OpenedKeeps
<1>7. CASE OpenFile(p)
  BY <1>7, OpenFileKeeps
<1>8. CASE WriteFile(p)
  BY <1>8, WriteFileKeeps
<1>9. CASE Saved(p) \/ Revoked(p)
  BY <1>1, <1>2, <1>9 DEF Saved, Revoked
<1>10. CASE Refused(p) \/ TimesOut(p) \/ Fails(p)
  BY <1>1, <1>2, <1>10 DEF Refused, TimesOut, Fails
<1> QED
  BY <1>3, <1>4, <1>5, <1>6, <1>7, <1>8, <1>9, <1>10 DEF Continues

LEMMA OccupyKeeps ==
    ASSUME IInv, NEW f \in Paths, Occupy(f)
    PROVE  IInv' /\ Kept
<1>1. /\ UNCHANGED <<proc, wire, got>> /\ disk[f] = NoFile
      /\ disk' = [disk EXCEPT ![f] = [by |-> "other", of |-> None, whole |-> TRUE]]
  BY DEF Occupy, service
<1>2. DiskTyped
  BY DEF IInv
<1>3. DiskTyped' /\ Kept
  BY <1>1, <1>2, CreatesFile, Zenon DEF Puts
<1>4. ProcTyped' /\ WireTyped'
  BY <1>1 DEF IInv, ProcTyped, WireTyped
<1>5. (\A p \in Procs : Receiving(p)') /\ Counted'
  BY <1>1 DEF IInv, Receiving, Pending, Counted, Spenders, Spent
<1> QED
  BY <1>3, <1>4, <1>5 DEF IInv

LEMMA StutterKeeps ==
    ASSUME IInv, UNCHANGED vars
    PROVE  IInv' /\ Kept
<1>1. UNCHANGED <<proc, wire, got, disk>>
  BY DEF vars, service
<1>2. DiskTyped' /\ Kept
  BY <1>1, DiskStays DEF IInv
<1>3. ProcTyped' /\ WireTyped'
  BY <1>1 DEF IInv, ProcTyped, WireTyped
<1>4. (\A p \in Procs : Receiving(p)') /\ Counted'
  BY <1>1 DEF IInv, Receiving, Pending, Counted, Spenders, Spent
<1> QED
  BY <1>2, <1>3, <1>4 DEF IInv

LEMMA NextKeeps ==
    ASSUME IInv, [Next]_vars
    PROVE  IInv' /\ Kept
<1>1. CASE \E p \in Procs : Starts(p) \/ Continues(p) \/ Fails(p)
  BY <1>1, StartsKeeps, ContinuesKeeps, Zenon
<1>2. CASE \E p \in Procs : Serves(p)
  <2>1. PICK p \in Procs : Serves(p)
    BY <1>2
  <2>2. disk' = disk
    BY <2>1 DEF Serves, Issue, Store, Describe, Open, Withdraw, Deny, Misroute
  <2> QED
    BY <2>1, <2>2, ServesKeeps, DiskStays DEF IInv
<1>3. CASE \E p \in Procs, id \in Receipts, m \in Receipts, pass \in Passphrases :
              Receive(p, id, m, pass)
  BY <1>3, ReceiveKeeps, Zenon
<1>4. CASE \E f \in Paths : Occupy(f)
  BY <1>4, OccupyKeeps, Zenon
<1>5. CASE UNCHANGED vars
  BY <1>5, StutterKeeps
<1> QED
  BY <1>1, <1>2, <1>3, <1>4, <1>5, Zenon DEF Next

LEMMA InitStarts == ASSUME Init PROVE IInv
<1>1. PICK cast \in Casts : proc = [p \in Procs |-> Fresh(cast[p])]
  BY DEF Init
<1>2. ProcTyped /\ \A p \in Procs : proc[p].at = "new"
  <2>1. PICK S : {} \subseteq S /\ "new" \in S /\ <<>> \in S /\ NoPassphrase \in S
    BY Room, Zenon
  <2>2. PICK U : S \subseteq U /\ NoPacket \in U /\ 0 \in U /\ None \in U
    BY Room, Zenon
  <2> DEFINE T == U \cup {cast[p] : p \in Procs}
  <2>3. PICK np \in T, nil \in T, e \in T, z \in T, none \in T, new \in T :
          np = NoPacket /\ nil = <<>> /\ e = NoPassphrase /\ z = 0 /\ none = None /\ new = "new"
    <3>1. {NoPacket, <<>>, NoPassphrase, 0, None, "new"} \subseteq T
      BY <2>1, <2>2
    <3> HIDE DEF T
    <3> QED
      BY <3>1, Zenon
  <2>4. \A p \in Procs : cast[p] \in T
    OBVIOUS
  <2> HIDE DEF T
  <2>5. ASSUME NEW c \in T
        PROVE  LET r == [cmd |-> c, at |-> new, note |-> none, secret |-> nil, pass |-> e,
                         packet |-> np, written |-> z]
               IN  r \in Process(T) /\ r.at = new
    BY DEF Process
  <2>6. \A p \in Procs : Fresh(cast[p]) \in Process(T) /\ Fresh(cast[p]).at = "new"
    BY <2>3, <2>4, <2>5, Zenon DEF Fresh
  <2>7. proc \in [Procs -> Process(T)]
    BY <1>1, <2>6
  <2> QED
    BY <1>1, <2>6, <2>7 DEF ProcTyped
<1>3. WireTyped /\ \A p \in Procs : ~Pending(p)
  <2>1. PICK S : NoRequest \in Message(S) /\ NoRequest.state = None
    BY NoRequestIsMessage
  <2>2. wire = [p \in Procs |-> NoRequest]
    BY DEF Init
  <2>3. wire \in [Procs -> Message(S)]
    BY <2>1, <2>2
  <2>4. \A p \in Procs : wire[p] = NoRequest
    BY <2>2
  <2>5. ~(NoRequest.state = "sent")
    BY <2>1 DEF None
  <2> QED
    BY <2>3, <2>4, <2>5, Zenon DEF WireTyped, Pending
<1>4. DiskTyped
  <2>1. PICK S : {} \subseteq S /\ None \in S /\ FALSE \in S /\ FALSE \in S
    BY Room, Zenon
  <2>2. PICK none \in S, no \in S : none = None /\ no = FALSE
    BY <2>1, Zenon
  <2>3. [by |-> none, of |-> none, whole |-> no] \in File(S)
    BY DEF File
  <2>4. NoFile \in File(S)
    BY <2>2, <2>3, Zenon DEF NoFile
  <2>5. disk = [f \in Paths |-> NoFile]
    BY DEF Init
  <2>6. disk \in [Paths -> File(S)]
    BY <2>4, <2>5
  <2> QED
    BY <2>6 DEF DiskTyped
<1>5. \A p \in Procs : Receiving(p)
  BY <1>2, <1>3 DEF Receiving
<1>6. Counted
  <2>1. got = [n \in Notes |-> 0]
    BY DEF Init, Service!Init
  <2>2. ASSUME NEW n \in Notes PROVE got[n] <= Cardinality(Spenders(n))
    <3>1. IsFiniteSet(Spenders(n))
      BY FS_Subset, FiniteProcs DEF Spenders
    <3>2. Cardinality(Spenders(n)) \in Nat
      BY <3>1, FS_CardinalityType
    <3>3. got[n] = 0
      BY <2>1
    <3> QED
      BY <3>2, <3>3, NonNegative, Zenon
  <2> QED
    BY <2>1, <2>2 DEF Counted
<1> QED
  BY <1>2, <1>3, <1>4, <1>5, <1>6 DEF IInv

-------------------------------------------------------------------------------
(* For any number of processes, packages and files: a file that is whole    *)
(* stays as it is, and one that is being written stays its writer's         *)
(* (index.ts:116-123).                                                      *)
THEOREM FilesNeverOverwritten == Spec => NeverOverwritten
<1>1. Init => IInv
  BY InitStarts
<1>2. IInv /\ [Next]_vars => IInv'
  BY NextKeeps
<1>3. IInv /\ [Next]_vars =>
          [\A f \in Paths : disk[f] # NoFile =>
              disk'[f].by = disk[f].by /\ (disk[f].whole => disk'[f] = disk[f])]_vars
  BY NextKeeps DEF Kept
<1> QED
  BY <1>1, <1>2, <1>3, PTL DEF Spec, NeverOverwritten

(* For any number of receivers, however requests and answers are delayed,   *)
(* lost or mixed up: a package is retrieved at most once for each receive   *)
(* command run for it (index.ts:212-227, client.ts:77-86, 172-178).         *)
THEOREM RetrievedOncePerCommand == Spec => []OneRetrievalPerCommand
<1>1. Init => IInv
  BY InitStarts
<1>2. IInv /\ [Next]_vars => IInv'
  BY NextKeeps
<1>3. IInv => OneRetrievalPerCommand
  <2> SUFFICES ASSUME IInv, NEW n \in Notes
               PROVE  got[n] <= Cardinality({p \in Procs : proc[p].cmd = "receive"
                                                         /\ proc[p].note = n})
    BY DEF OneRetrievalPerCommand
  <2> DEFINE R == {p \in Procs : proc[p].cmd = "receive" /\ proc[p].note = n}
  <2>1. Spenders(n) \subseteq R
    BY DEF Spenders, Spent
  <2>2. IsFiniteSet(R)
    BY FS_Subset, FiniteProcs
  <2>3. IsFiniteSet(Spenders(n)) /\ Cardinality(Spenders(n)) <= Cardinality(R)
    BY <2>1, <2>2, FS_Subset
  <2>4. Cardinality(Spenders(n)) \in Nat /\ Cardinality(R) \in Nat
    BY <2>2, <2>3, FS_CardinalityType
  <2>5. got[n] \in Nat /\ got[n] <= Cardinality(Spenders(n))
    BY DEF IInv, Counted
  <2> QED
    BY <2>3, <2>4, <2>5, Chain, Zenon
<1> QED
  BY <1>1, <1>2, <1>3, PTL DEF Spec

-------------------------------------------------------------------------------
(* What is sealed *)

(* The outputs of a package are names of files, different even where the    *)
(* file system ignores case.                                                *)
Neat(content) ==
    LET outs == Outputs(content)
    IN  /\ outs \in Seq(DOMAIN Folded)
        /\ \A i, j \in DOMAIN outs : Folded[outs[i]] = Folded[outs[j]] => i = j

(* A packet that was sealed for package n.                                  *)
Genuine(n, packet) ==
    /\ packet.header.id = n /\ packet.header.peek # NoPacket.header.peek
    /\ packet.sealed.content.of = n /\ Neat(packet.sealed.content)

(* The loop of writeContent ends: some name is the first that is not used.  *)
LEMMA TextNameIsFree ==
    ASSUME NEW input \in Inputs
    PROVE  /\ TextName(input.files) \in DOMAIN Folded
           /\ \A i \in DOMAIN input.files :
                 Folded[input.files[i]] # Folded[TextName(input.files)]
<1> DEFINE names == input.files
           Free(k) == \A i \in DOMAIN names : Folded[names[i]] # Folded[TextNames[k]]
           T == {k \in DOMAIN TextNames : Free(k)}
<1>1. T # {} /\ T \subseteq Nat
  BY TextNamesAssumption DEF TextNamesAssumption
<1>2. PICK k \in T : \A j \in T : ~(<<j, k>> \in OpToRel(<, Nat))
  <2> HIDE DEF T
  <2> QED
    BY <1>1, NatLessThanWellFounded, WFMin
<1>3. \A j \in DOMAIN TextNames : j < k => ~Free(j)
  <2> SUFFICES ASSUME NEW j \in DOMAIN TextNames, j < k, Free(j) PROVE FALSE
    OBVIOUS
  <2>1. j \in T /\ j \in Nat /\ k \in Nat
    BY <1>1
  <2>2. <<j, k>> \in OpToRel(<, Nat)
    BY <2>1 DEF OpToRel
  <2> QED
    BY <1>2, <2>1, <2>2
<1>4. k \in DOMAIN TextNames /\ Free(k)
  BY <1>2
<1> DEFINE Suits(name) ==
        LET m == CHOOSE m \in DOMAIN TextNames : TextNames[m] = name
        IN  /\ \A i \in DOMAIN names : Folded[names[i]] # Folded[name]
            /\ \A j \in 1 .. m - 1 : \E i \in DOMAIN names :
                  Folded[names[i]] = Folded[TextNames[j]]
<1>5. (CHOOSE m \in DOMAIN TextNames : TextNames[m] = TextNames[k]) = k
  BY <1>4, TextNamesAssumption DEF TextNamesAssumption
<1>6. DOMAIN TextNames = 1 .. Len(TextNames) /\ Len(TextNames) \in Nat
  BY TextNamesAssumption DEF TextNamesAssumption
<1>7. Suits(TextNames[k])
  <2>1. \A j \in 1 .. k - 1 : j \in DOMAIN TextNames /\ j < k
    BY <1>4, <1>6
  <2>2. \A j \in 1 .. k - 1 : ~Free(j)
    BY <1>3, <2>1
  <2> QED
    BY <1>4, <1>5, <2>2, Zenon
<1>8. TextName(names) = CHOOSE name \in {TextNames[m] : m \in DOMAIN TextNames} : Suits(name)
  BY DEF TextName
<1> HIDE DEF Suits
<1>9. TextName(names) \in {TextNames[m] : m \in DOMAIN TextNames} /\ Suits(TextName(names))
  BY <1>4, <1>7, <1>8, Zenon
<1>10. \A i \in DOMAIN names : Folded[names[i]] # Folded[TextName(names)]
  BY <1>9, Zenon DEF Suits
<1>11. TextName(names) \in DOMAIN Folded
  BY <1>9, <1>6, TextNamesAssumption DEF TextNamesAssumption
<1> QED
  BY <1>10, <1>11

(* Names that are unique are different at every two places.                 *)
LEMMA UniqueDiffer ==
    ASSUME NEW names \in Seq(DOMAIN Folded), Unique(names),
           NEW i \in DOMAIN names, NEW j \in DOMAIN names, Folded[names[i]] = Folded[names[j]]
    PROVE  i = j
<1> DEFINE D == 1 .. Len(names)
           F == {Folded[names[k]] : k \in DOMAIN names}
           g == [k \in D |-> Folded[names[k]]]
<1>1. DOMAIN names = D /\ Len(names) \in Nat
  OBVIOUS
<1>2. IsFiniteSet(D) /\ Cardinality(D) = Len(names)
  <2> DEFINE L == Len(names)
  <2>1. IsFiniteSet(1 .. L) /\ Cardinality(1 .. L) = IF 1 > L THEN 0 ELSE L - 1 + 1
    BY <1>1, FS_Interval
  <2>2. (IF 1 > L THEN 0 ELSE L - 1 + 1) = L
    BY <1>1
  <2> QED
    BY <2>1, <2>2
<1>3. g \in Surjection(D, F)
  BY <1>1 DEF Surjection
<1>4. Cardinality(F) = Len(names)
  BY DEF Unique
<1>5. g \in Injection(D, F)
  <2> HIDE DEF D, F, g
  <2> QED
    BY <1>2, <1>3, <1>4, FS_Surjection
<1> QED
  BY <1>1, <1>5 DEF Injection, IsInjective

LEMMA InputNeat ==
    ASSUME NEW input \in Inputs, Unique(input.files), NEW n
    PROVE  Neat([of |-> n, text |-> input.text, files |-> input.files])
<1> DEFINE names == input.files
           content == [of |-> n, text |-> input.text, files |-> names]
           outs == Outputs(content)
<1>1. names \in Seq(DOMAIN Folded)
  BY CommandLineAssumption DEF CommandLineAssumption
<1>2. outs = names \o IF input.text THEN <<TextName(names)>> ELSE <<>>
  BY DEF Outputs
<1>3. CASE ~input.text
  <2>1. outs = names
    BY <1>1, <1>2, <1>3
  <2> QED
    BY <1>1, <2>1, UniqueDiffer DEF Neat
<1>4. CASE input.text
  <2> DEFINE t == TextName(names)
  <2>1. outs = names \o <<t>>
    BY <1>2, <1>4
  <2>2. t \in DOMAIN Folded /\ \A i \in DOMAIN names : Folded[names[i]] # Folded[t]
    BY TextNameIsFree
  <2> HIDE DEF t, outs
  <2>3. outs \in Seq(DOMAIN Folded)
    BY <1>1, <2>1, <2>2
  <2>4. /\ Len(names) \in Nat /\ DOMAIN names = 1 .. Len(names)
        /\ DOMAIN outs = 1 .. Len(names) + 1 /\ outs[Len(names) + 1] = t
        /\ \A i \in DOMAIN names : outs[i] = names[i]
    BY <1>1, <2>1
  <2>5. ASSUME NEW i \in DOMAIN outs, NEW j \in DOMAIN outs, Folded[outs[i]] = Folded[outs[j]]
        PROVE  i = j
    <3>1. CASE i \in DOMAIN names /\ j \in DOMAIN names
      BY <1>1, <2>4, <2>5, <3>1, UniqueDiffer
    <3>2. CASE i \in DOMAIN names /\ j = Len(names) + 1
      BY <2>2, <2>4, <2>5, <3>2
    <3>3. CASE j \in DOMAIN names /\ i = Len(names) + 1
      BY <2>2, <2>4, <2>5, <3>3
    <3>4. CASE i = Len(names) + 1 /\ j = Len(names) + 1
      BY <3>4
    <3> QED
      BY <2>4, <3>1, <3>2, <3>3, <3>4
  <2> QED
    BY <2>3, <2>5, Zenon DEF Neat, outs
<1> QED
  BY <1>3, <1>4

LEMMA HashIsNoBlank == ASSUME NEW term PROVE Hash(term) # NoPacket.header.peek
<1>1. NoPacket.header.peek = <<>>
  BY DEF NoPacket, NoHeader
<1>2. Hash(term) # <<>>
  BY DEF Hash
<1> QED
  BY <1>1, <1>2

LEMMA CreateGenuine ==
    ASSUME NEW n, NEW content, NEW pass, content.of = n, Neat(content)
    PROVE  Genuine(n, Create(n, content, pass))
<1> DEFINE x == Create(n, content, pass)
<1>1. x.header.id = n /\ x.header.peek = Hash(Peek(Secret(n), n)) /\ x.sealed.content = content
  BY DEF Create
<1> HIDE DEF x
<1>2. x.header.peek # NoPacket.header.peek
  BY <1>1, HashIsNoBlank, Zenon
<1>3. x.sealed.content.of = n /\ Neat(x.sealed.content)
  BY <1>1, Zenon
<1> QED
  BY <1>1, <1>2, <1>3, Zenon DEF Genuine, x

-------------------------------------------------------------------------------
(* The second invariant: what processes, requests, packets and files have   *)
(* to do with each other                                                    *)

PacketsTyped == \E S : packets \in [Notes -> S]
LeftTyped == \E S : left \in [Notes -> S]

Stored(n) == n \in Notes /\ packets[n] # NoPacket

(* A sender that has begun, and what only a sender may have done: every     *)
(* sender draws an identifier of its own, and a packet that was stored is   *)
(* genuine and some sender's.                                               *)
Sends(p) == proc[p].cmd = "send" /\ proc[p].at # "new"
Distinct ==
    \A p, q \in Procs :
        Sends(p) /\ proc[q].cmd = "send" /\ proc[p].note = proc[q].note => p = q
Drawn ==
    \A n \in Notes : Stored(n) =>
        Genuine(n, packets[n]) /\ \E p \in Procs : Sends(p) /\ proc[p].note = n

(* A place of a process belongs to one command.                             *)
Role(q) ==
    /\ proc[q].at \in {"challenge", "create"} => proc[q].cmd = "send"
    /\ proc[q].at \in {"empty", "meta", "open", "write", "collided"} => proc[q].cmd = "receive"
    /\ proc[q].at = "revoke" => proc[q].cmd = "revoke"

(* A sender has a genuine packet, which is not stored before it asks for    *)
(* that, and is when its receipt is printed.                                *)
Sender(q) ==
    /\ Sends(q) => proc[q].note \in Notes
    /\ proc[q].at \in {"challenge", "create"} => Genuine(proc[q].note, proc[q].packet)
    /\ proc[q].at = "challenge" => ~Stored(proc[q].note) /\ wire[q].kind # "create"
    /\ proc[q].cmd = "send" /\ proc[q].at = "ok" => packets[proc[q].note] = proc[q].packet

(* A request to store: until it is handled, nothing is; and an answer that  *)
(* names its package is the answer to it.                                   *)
Creating(q) ==
    wire[q].kind = "create" =>
        /\ Sends(q) /\ wire[q].id = proc[q].note
        /\ proc[q].at = "create" => wire[q].packet = proc[q].packet
        /\ Genuine(wire[q].id, wire[q].packet)
        /\ wire[q].state = "sent" => ~Stored(wire[q].id)
        /\ wire[q].state = "answered" /\ wire[q].ok /\ wire[q].note = wire[q].id =>
               Stored(wire[q].id) /\ packets[wire[q].id] = wire[q].packet

(* The other requests: they are about stored packages, and a retrieval is   *)
(* asked for with the token of its package.                                 *)
Asking(q) ==
    /\ wire[q].kind \in {"meta", "open", "revoke"} => Stored(wire[q].id)
    /\ wire[q].kind = "open" => Hash(wire[q].token) = packets[wire[q].id].header.read
    /\ wire[q].kind \in {"meta", "open"} /\ wire[q].state = "answered" /\ wire[q].ok =>
           wire[q].note \in Notes
    /\ wire[q].kind = "revoke" =>
           /\ proc[q].at = "revoke" => wire[q].id = proc[q].note
           /\ wire[q].state = "answered" /\ wire[q].ok => left[wire[q].id] = 0

(* What a process has taken up is stored, what a receiver has accepted is   *)
(* of its package, and what was revoked grants nothing.                     *)
Holding(q) ==
    /\ proc[q].at \in {"meta", "open", "write", "collided", "revoke", "ok"} =>
           Stored(proc[q].note)
    /\ proc[q].at = "open" => proc[q].packet.header = packets[proc[q].note].header
    /\ proc[q].cmd = "receive" /\ proc[q].at \in {"write", "collided", "ok"} =>
           proc[q].packet = packets[proc[q].note]
    /\ proc[q].cmd = "revoke" /\ proc[q].at = "ok" => left[proc[q].note] = 0

(* The files of a receiver are the outputs it has written so far, and       *)
(* perhaps the one it is writing.                                           *)
Outs(q) == Outputs(proc[q].packet.sealed.content)
Done(q, k) == disk[Folded[Outs(q)[k]]] = [by |-> q, of |-> proc[q].note, whole |-> TRUE]
Files(q) ==
    /\ proc[q].at \in {"new", "empty", "meta"} => proc[q].packet = NoPacket
    /\ proc[q].at \in {"new", "empty", "meta", "open"} => proc[q].written = 0
    /\ \A f \in Paths : disk[f].by = q =>
          proc[q].cmd = "receive" /\ proc[q].at \in {"write", "ok", "collided", "failed"}
    /\ proc[q].at = "write" =>
          /\ proc[q].written \in 0 .. Len(Outs(q))
          /\ \A k \in 1 .. proc[q].written : Done(q, k)
          /\ \A f \in Paths : disk[f].by = q =>
                /\ disk[f].of = proc[q].note
                /\ disk[f].whole => \E k \in 1 .. proc[q].written : f = Folded[Outs(q)[k]]
    /\ proc[q].cmd = "receive" /\ proc[q].at = "ok" => \A k \in DOMAIN Outs(q) : Done(q, k)
    /\ proc[q].at = "collided" => Output(q) \in Paths /\ disk[Output(q)].by \notin {q, None}
Owned == \A f \in Paths : disk[f] = NoFile \/ disk[f].by \in Procs \cup {"other"}

Part(q) == Role(q) /\ Sender(q) /\ Creating(q) /\ Asking(q) /\ Holding(q) /\ Files(q)
JInv ==
    /\ PacketsTyped /\ LeftTyped /\ Distinct /\ Drawn /\ Owned
    /\ \A q \in Procs : Part(q)

-------------------------------------------------------------------------------
(* What a step leaves of the packages that are stored.                      *)
Lasting ==
    \A n \in Notes : Stored(n) => packets'[n] = packets[n] /\ (left[n] = 0 => left'[n] = 0)

(* A receiver's outputs are those of its package.                           *)
LEMMA OutputsNeat ==
    ASSUME JInv, NEW q \in Procs, proc[q].cmd = "receive",
           proc[q].at \in {"write", "collided", "ok"}
    PROVE  /\ Outs(q) \in Seq(DOMAIN Folded)
           /\ \A k \in DOMAIN Outs(q) : Folded[Outs(q)[k]] \in Paths
           /\ \A i, j \in DOMAIN Outs(q) : Folded[Outs(q)[i]] = Folded[Outs(q)[j]] => i = j
           /\ proc[q].packet.sealed.content.of = proc[q].note
<1>1. Stored(proc[q].note) /\ proc[q].packet = packets[proc[q].note]
  BY DEF JInv, Part, Holding
<1>2. Genuine(proc[q].note, proc[q].packet)
  BY <1>1 DEF JInv, Drawn, Stored
<1>3. Neat(proc[q].packet.sealed.content) /\ proc[q].packet.sealed.content.of = proc[q].note
  BY <1>2 DEF Genuine
<1>4. /\ Outs(q) \in Seq(DOMAIN Folded)
      /\ \A i, j \in DOMAIN Outs(q) : Folded[Outs(q)[i]] = Folded[Outs(q)[j]] => i = j
  BY <1>3, Zenon DEF Neat, Outs
<1>5. \A k \in DOMAIN Outs(q) : Folded[Outs(q)[k]] \in Paths
  BY <1>4 DEF Paths
<1> QED
  BY <1>3, <1>4, <1>5

(* The processes that do not take part in a step.                           *)
LEMMA OutsidersKeep ==
    ASSUME JInv, NEW q \in Procs, proc'[q] = proc[q], wire'[q] = wire[q], Lasting,
           Sends(q) => packets'[proc[q].note] = packets[proc[q].note], Kept,
           \A f \in Paths : disk[f].by = q \/ disk'[f].by = q => disk'[f] = disk[f]
    PROVE  Part(q)'
<1>0. Part(q) /\ (\A n : Stored(n) => Stored(n)')
  BY DEF JInv, Lasting, Stored
<1>1. Role(q)'
  BY <1>0 DEF Part, Role
<1>2. Sends(q)' = Sends(q) /\ (Sends(q) => Stored(proc[q].note)' = Stored(proc[q].note))
  BY DEF Sends, Stored
<1>3. Sender(q)' /\ Creating(q)'
  <2>1. wire[q].kind = "create" => Sends(q) /\ wire[q].id = proc[q].note
    BY <1>0 DEF Part, Creating
  <2>2. Sender(q)'
    BY <1>0, <1>2 DEF Part, Sender, Role, Sends
  <2>3. Creating(q)'
    BY <1>0, <1>2, <2>1 DEF Part, Creating
  <2> QED
    BY <2>2, <2>3
<1>4. Asking(q)'
  BY <1>0 DEF Part, Asking, Lasting, Stored
<1>5. Holding(q)'
  BY <1>0 DEF Part, Holding, Lasting, Stored
<1>6. Files(q)'
  <2>1. Outs(q)' = Outs(q) /\ Output(q)' = Output(q)
    BY DEF Outs, Output
  <2>2. \A f \in Paths : disk'[f].by = q => disk[f].by = q /\ disk'[f] = disk[f]
    OBVIOUS
  <2>3. ASSUME NEW k, Done(q, k), Folded[Outs(q)[k]] \in Paths PROVE Done(q, k)'
    <3>1. disk[Folded[Outs(q)[k]]].by = q
      BY <2>3 DEF Done
    <3> QED
      BY <2>1, <2>3, <3>1 DEF Done
  <2>4. ASSUME proc[q].cmd = "receive", proc[q].at \in {"write", "ok"},
               NEW k \in DOMAIN Outs(q), Done(q, k)
        PROVE  Done(q, k)'
    BY <2>3, <2>4, OutputsNeat
  <2>5. proc[q].at = "write" => Files(q)'
    <3> SUFFICES ASSUME proc[q].at = "write" PROVE Files(q)'
      OBVIOUS
    <3>1. proc[q].cmd = "receive"
      BY <1>0 DEF Part, Role
    <3>2. Outs(q) \in Seq(DOMAIN Folded)
      BY <3>1, OutputsNeat
    <3>3. \A k \in 1 .. proc[q].written : Done(q, k) /\ k \in DOMAIN Outs(q)
      BY <1>0, <3>2 DEF Part, Files
    <3>4. \A k \in 1 .. proc[q].written : Done(q, k)'
      BY <2>4, <3>1, <3>3
    <3> QED
      BY <1>0, <2>1, <2>2, <3>4 DEF Part, Files
  <2>6. proc[q].cmd = "receive" /\ proc[q].at = "ok" => Files(q)'
    <3> SUFFICES ASSUME proc[q].cmd = "receive", proc[q].at = "ok" PROVE Files(q)'
      OBVIOUS
    <3>1. \A k \in DOMAIN Outs(q) : Done(q, k)'
      BY <1>0, <2>4 DEF Part, Files
    <3> QED
      BY <1>0, <2>1, <2>2, <3>1 DEF Part, Files
  <2>7. proc[q].at = "collided" => Files(q)'
    <3> SUFFICES ASSUME proc[q].at = "collided" PROVE Files(q)'
      OBVIOUS
    <3>1. Output(q) \in Paths /\ disk[Output(q)].by \notin {q, None}
      BY <1>0 DEF Part, Files
    <3>2. disk[Output(q)] # NoFile
      BY <3>1 DEF NoFile
    <3>3. disk'[Output(q)].by = disk[Output(q)].by
      BY <3>1, <3>2 DEF Kept
    <3> QED
      BY <1>0, <2>1, <2>2, <3>1, <3>3 DEF Part, Files
  <2>8. CASE /\ proc[q].at \notin {"write", "collided"}
             /\ ~(proc[q].cmd = "receive" /\ proc[q].at = "ok")
    BY <1>0, <2>1, <2>2, <2>8 DEF Part, Files
  <2> QED
    BY <2>5, <2>6, <2>7, <2>8
<1> QED
  BY <1>1, <1>3, <1>4, <1>5, <1>6 DEF Part

(* A step of process p, or of the service on its request.  A sender draws   *)
(* its identifier once; only its own request stores a packet under it; and  *)
(* only p changes files.                                                    *)
Draws(p) ==
    /\ proc'[p].cmd = proc[p].cmd
    /\ \/ proc[p].cmd # "send"
       \/ proc'[p].note = proc[p].note /\ (proc'[p].at = "new" <=> proc[p].at = "new")
       \/ proc[p].at = "new" /\ proc'[p].note \notin Used

LEMMA OneMoves ==
    ASSUME JInv, NEW p \in Procs, PacketsTyped', LeftTyped', Lasting, Kept, Draws(p), Part(p)',
           \A q \in Procs \ {p} : proc'[q] = proc[q] /\ wire'[q] = wire[q],
           \A n \in Notes : packets'[n] = packets[n]
               \/ (Sends(p) /\ n = proc[p].note /\ Genuine(n, packets'[n])),
           \A f \in Paths : disk'[f] = disk[f] \/ disk'[f].by = p
    PROVE  JInv'
<1>1. \A q \in Procs \ {p} : Sends(q)' = Sends(q)
  BY DEF Sends
<1>2. ASSUME NEW q \in Procs, q # p PROVE Part(q)'
  <2>1. Sends(q) => packets'[proc[q].note] = packets[proc[q].note]
    <3>1. Sends(q) => proc[q].note \in Notes
      BY DEF JInv, Part, Sender
    <3>2. Sends(q) /\ Sends(p) => proc[q].note # proc[p].note
      BY <1>2 DEF JInv, Distinct, Sends
    <3> QED
      BY <3>1, <3>2
  <2>2. ASSUME NEW f \in Paths, disk[f].by = q \/ disk'[f].by = q PROVE disk'[f] = disk[f]
    <3>1. CASE disk[f].by = q
      <4>1. disk[f] # NoFile
        BY <3>1, ProcsAssumption DEF NoFile
      <4> QED
        BY <1>2, <3>1, <4>1 DEF Kept
    <3> QED
      BY <1>2, <2>2, <3>1
  <2> QED
    BY <1>2, <2>1, <2>2, OutsidersKeep
<1>3. \A q \in Procs : Part(q)'
  BY <1>2
<1>4. Distinct'
  <2> SUFFICES ASSUME NEW q \in Procs, NEW r \in Procs, Sends(q)', proc'[r].cmd = "send",
                      proc'[q].note = proc'[r].note, q # r
               PROVE  FALSE
    BY DEF Distinct
  <2>1. \A s \in Procs : proc[s].cmd = "send" => proc[s].note \in Used
    BY DEF Used
  <2>2. CASE proc'[p].note = proc[p].note /\ (proc'[p].at = "new" <=> proc[p].at = "new")
    <3>1. Sends(q) /\ proc[r].cmd = "send" /\ proc[q].note = proc[r].note
      BY <2>2 DEF Draws, Sends
    <3> QED
      BY <3>1 DEF JInv, Distinct
  <2>3. CASE proc[p].at = "new" /\ proc'[p].note \notin Used
    <3>1. CASE q = p
      BY <2>1, <2>3, <3>1
    <3>2. CASE r = p
      BY <2>1, <2>3, <3>2 DEF Sends
    <3>3. CASE q # p /\ r # p
      BY <3>3 DEF JInv, Distinct, Sends
    <3> QED
      BY <3>1, <3>2, <3>3
  <2>4. CASE proc[p].cmd # "send"
    <3>1. q # p /\ r # p
      BY <2>4 DEF Draws, Sends
    <3> QED
      BY <3>1 DEF JInv, Distinct, Sends
  <2> QED
    BY <2>2, <2>3, <2>4 DEF Draws
<1>5. Drawn'
  <2> SUFFICES ASSUME NEW n \in Notes, Stored(n)'
               PROVE  Genuine(n, packets'[n]) /\ \E q \in Procs : Sends(q)' /\ proc'[q].note = n
    BY DEF Drawn
  <2>1. \A q \in Procs : Sends(q) => Sends(q)' /\ proc'[q].note = proc[q].note
    BY <1>1 DEF Draws, Sends
  <2>2. CASE packets'[n] = packets[n]
    BY <2>1, <2>2 DEF JInv, Drawn, Stored
  <2>3. CASE Sends(p) /\ n = proc[p].note /\ Genuine(n, packets'[n])
    BY <2>1, <2>3
  <2> QED
    BY <2>2, <2>3
<1>6. Owned'
  BY DEF JInv, Owned
<1> QED
  BY <1>3, <1>4, <1>5, <1>6 DEF JInv

LEMMA PacketsStay ==
    ASSUME JInv, packets' = packets, left' = left
    PROVE  PacketsTyped' /\ LeftTyped' /\ Lasting
BY DEF JInv, PacketsTyped, LeftTyped, Lasting

(* A step of process p that changes neither packages nor files.             *)
LEMMA OwnMove ==
    ASSUME JInv, DiskTyped, NEW p \in Procs, Draws(p), Part(p)',
           packets' = packets, left' = left, disk' = disk,
           \A q \in Procs \ {p} : proc'[q] = proc[q] /\ wire'[q] = wire[q]
    PROVE  JInv'
<1>1. PacketsTyped' /\ LeftTyped' /\ Lasting /\ Kept
  BY PacketsStay, DiskStays
<1> QED
  BY <1>1, OneMoves

(* Such a step of a process that does not write, or gives up.               *)
LEMMA FilesStay ==
    ASSUME JInv, NEW p \in Procs, disk' = disk, proc'[p].cmd = proc[p].cmd,
           \/ proc'[p].at = "failed"
           \/ /\ proc[p].at \notin {"write", "ok", "collided", "failed"}
              /\ proc'[p].at \notin {"write", "collided"}
              /\ ~(proc[p].cmd = "receive" /\ proc'[p].at = "ok")
              /\ proc'[p].at \in {"new", "empty", "meta"} => proc'[p].packet = NoPacket
              /\ proc'[p].at \in {"new", "empty", "meta", "open"} => proc'[p].written = 0
    PROVE  Files(p)'
<1>1. Files(p)
  BY DEF JInv, Part
<1> QED
  BY <1>1 DEF Files

LEMMA FailsMoves ==
    ASSUME IInv, JInv, NEW p \in Procs, proc[p].at # "new", Ends(p, "failed")
    PROVE  JInv'
<1>1. /\ \A q \in Procs \ {p} : proc'[q] = proc[q] /\ wire'[q] = wire[q]
      /\ proc'[p].at = "failed" /\ proc'[p].cmd = proc[p].cmd /\ proc'[p].note = proc[p].note
      /\ wire'[p] = wire[p] \/ wire'[p].kind = None
  <2>1. ProcTyped /\ WireTyped
    BY DEF IInv
  <2> QED
    BY <2>1, EndsAt, Zenon
<1>2. packets' = packets /\ left' = left /\ disk' = disk /\ DiskTyped
  BY DEF Ends, service, IInv
<1>3. Part(p)
  BY DEF JInv
<1>4. Role(p)' /\ Sender(p)' /\ Holding(p)'
  BY <1>1, <1>2, <1>3 DEF Part, Role, Sender, Holding, Sends
<1>5. Creating(p)' /\ Asking(p)'
  BY <1>1, <1>2, <1>3 DEF Part, Creating, Asking, Sends, Stored, None
<1>6. Files(p)'
  BY <1>1, <1>2, FilesStay
<1>7. Draws(p)
  BY <1>1 DEF Draws
<1> QED
  BY <1>1, <1>2, <1>4, <1>5, <1>6, <1>7, OwnMove DEF Part

LEMMA SendMoves ==
    ASSUME IInv, JInv, NEW p \in Procs, NEW n \in Notes, NEW input \in Inputs,
           Send(p, n, input)
    PROVE  JInv'
<1> DEFINE content == [of |-> n, text |-> input.text, files |-> input.files]
           x == Create(n, content, input.pass)
<1>1. /\ proc[p].cmd = "send" /\ proc[p].at = "new" /\ n \notin Used /\ Unique(input.files)
      /\ packets' = packets /\ left' = left /\ disk' = disk
      /\ proc' = [proc EXCEPT ![p].at = "challenge", ![p].note = n, ![p].packet = x]
      /\ Asks(p, Request("challenge"))
  BY DEF Send, At, service
<1>2. Genuine(n, x)
  <2>1. content.of = n
    OBVIOUS
  <2>2. Neat(content)
    BY <1>1, InputNeat
  <2> HIDE DEF content
  <2> QED
    BY <2>1, <2>2, CreateGenuine
<1> HIDE DEF x
<1>3. ProcTyped /\ WireTyped /\ DiskTyped
  BY DEF IInv
<1>4. /\ \A q \in Procs \ {p} : proc'[q] = proc[q]
      /\ proc'[p].at = "challenge" /\ proc'[p].cmd = proc[p].cmd /\ proc'[p].note = n
      /\ proc'[p].packet = x
  <2>1. ProcGoes(p, "challenge", n, x, proc[p].written)
    BY <1>1, <1>3, Enters, Zenon
  <2> QED
    BY <1>1, <2>1 DEF ProcGoes
<1>5. wire'[p].kind = "challenge" /\ \A q \in Procs \ {p} : wire'[q] = wire[q]
  <2>1. PICK S : Request("challenge") \in Message(S) /\ Request("challenge").kind = "challenge"
    BY RequestIsMessage
  <2> QED
    BY <1>1, <1>3, <2>1, AsksWith, Zenon
<1>6. ~Stored(n)
  BY <1>1 DEF JInv, Drawn, Used, Sends
<1>7. Role(p)' /\ Sender(p)' /\ Holding(p)'
  BY <1>1, <1>2, <1>4, <1>5, <1>6 DEF Role, Sender, Holding, Sends, Stored
<1>8. Creating(p)' /\ Asking(p)'
  BY <1>5 DEF Creating, Asking
<1>9. Files(p)'
  BY <1>1, <1>4, FilesStay
<1>10. Draws(p)
  BY <1>1, <1>4 DEF Draws
<1> QED
  BY <1>1, <1>3, <1>4, <1>5, <1>7, <1>8, <1>9, <1>10, OwnMove DEF Part

LEMMA ChallengedMoves ==
    ASSUME IInv, JInv, NEW p \in Procs, Challenged(p)
    PROVE  JInv'
<1> DEFINE id == proc[p].note
           nonce == wire[p].note
           x == proc[p].packet
<1>1. /\ Goes(p, "create") /\ packets' = packets /\ left' = left /\ disk' = disk
      /\ wire[p].kind = "challenge" /\ proc[p].at = "challenge"
      /\ Asks(p, [Request("create") EXCEPT !.id = id, !.proof = nonce, !.packet = x])
  BY DEF Challenged, Answer, service
<1> HIDE DEF nonce, id, x
<1>2. ProcTyped /\ WireTyped /\ DiskTyped
  BY DEF IInv
<1>3. /\ \A q \in Procs \ {p} : proc'[q] = proc[q]
      /\ proc'[p].at = "create" /\ proc'[p].cmd = proc[p].cmd /\ proc'[p].note = proc[p].note
      /\ proc'[p].packet = proc[p].packet
  <2>1. ProcGoes(p, "create", proc[p].note, proc[p].packet, proc[p].written)
    BY <1>1, <1>2, GoesTo, Zenon
  <2> QED
    BY <2>1 DEF ProcGoes
<1>4. /\ wire'[p].kind = "create" /\ wire'[p].id = id /\ wire'[p].state = "sent"
      /\ wire'[p].packet = x /\ \A q \in Procs \ {p} : wire'[q] = wire[q]
  <2>1. WireAsks(p, "create", id) /\ wire'[p].packet = x
    BY <1>1, <1>2, RequestsWithPacket, Zenon
  <2> QED
    BY <2>1 DEF WireAsks
<1>5. Part(p)
  BY DEF JInv
<1>6. Role(p)' /\ Sender(p)' /\ Holding(p)'
  BY <1>1, <1>3, <1>5 DEF Part, Role, Sender, Holding, Sends
<1>7. Creating(p)' /\ Asking(p)'
  BY <1>1, <1>3, <1>4, <1>5 DEF Part, Role, Sender, Creating, Asking, Sends, Stored, id, x
<1>8. Files(p)'
  BY <1>1, <1>3, FilesStay
<1>9. Draws(p)
  BY <1>1, <1>3 DEF Draws
<1> QED
  BY <1>1, <1>2, <1>3, <1>4, <1>6, <1>7, <1>8, <1>9, OwnMove DEF Part

(* The receipt of the package was answered to the request that stored it.   *)
LEMMA CreatedMoves ==
    ASSUME IInv, JInv, NEW p \in Procs, Created(p)
    PROVE  JInv'
<1>1. /\ proc[p].at = "create" /\ wire[p].kind = "create" /\ wire[p].state = "answered"
      /\ wire[p].ok
      /\ Ends(p, IF wire[p].note = proc[p].note THEN "ok" ELSE "failed")
  BY DEF Created, Answer
<1>2. CASE wire[p].note # proc[p].note
  BY <1>1, <1>2, FailsMoves
<1>3. CASE wire[p].note = proc[p].note
  <2>1. Ends(p, "ok")
    BY <1>1, <1>3
  <2>2. ProcTyped /\ WireTyped /\ DiskTyped
    BY DEF IInv
  <2>3. /\ \A q \in Procs \ {p} : proc'[q] = proc[q] /\ wire'[q] = wire[q]
        /\ proc'[p].at = "ok" /\ proc'[p].cmd = proc[p].cmd /\ proc'[p].note = proc[p].note
        /\ "ok" # "failed" => proc'[p].packet = proc[p].packet
        /\ IF wire[p].state = "sent" THEN wire' = wire ELSE wire'[p].kind = None
    BY <2>1, <2>2, EndsAt, Zenon
  <2>4. wire'[p].kind = None /\ proc'[p].packet = proc[p].packet
    BY <1>1, <2>3
  <2>5. packets' = packets /\ left' = left /\ disk' = disk
    BY <2>1 DEF Ends, service
  <2>6. Part(p)
    BY DEF JInv
  <2>7. Stored(proc[p].note) /\ packets[proc[p].note] = proc[p].packet
    BY <1>1, <1>3, <2>6 DEF Part, Creating
  <2>8. Role(p)' /\ Sender(p)' /\ Holding(p)'
    BY <1>1, <2>3, <2>4, <2>5, <2>6, <2>7 DEF Part, Role, Sender, Holding, Sends, Stored
  <2>9. Creating(p)' /\ Asking(p)'
    BY <2>4 DEF Creating, Asking, None
  <2>10. Files(p)'
    BY <1>1, <2>3, <2>5, <2>6, FilesStay DEF Part, Role
  <2>11. Draws(p)
    BY <1>1, <2>3 DEF Draws
  <2> QED
    BY <2>2, <2>3, <2>5, <2>8, <2>9, <2>10, <2>11, OwnMove DEF Part
<1> QED
  BY <1>2, <1>3

(* Printed receipts are of stored packages.                                 *)
LEMMA ReceiptStored == ASSUME JInv, NEW id \in Receipts PROVE Stored(id)
<1>1. PICK p \in Procs : proc[p].at = "ok" /\ proc[p].note = id
  BY DEF Receipts, At
<1> QED
  BY <1>1 DEF JInv, Part, Holding

LEMMA InspectMoves ==
    ASSUME IInv, JInv, NEW p \in Procs, Inspect(p)
    PROVE  JInv'
<1>1. /\ proc[p].cmd = "receive" /\ proc[p].at = "new" /\ Goes(p, "empty")
      /\ wire' = wire /\ packets' = packets /\ left' = left /\ disk' = disk
  BY DEF Inspect, At, service
<1>2. ProcTyped /\ DiskTyped /\ Part(p)
  BY DEF IInv, JInv
<1>3. /\ \A q \in Procs \ {p} : proc'[q] = proc[q] /\ wire'[q] = wire[q]
      /\ proc'[p].at = "empty" /\ proc'[p].cmd = "receive" /\ proc'[p].note = proc[p].note
      /\ proc'[p].packet = proc[p].packet /\ proc'[p].written = proc[p].written
  <2>1. ProcGoes(p, "empty", proc[p].note, proc[p].packet, proc[p].written)
    BY <1>1, <1>2, GoesTo, Zenon
  <2> QED
    BY <1>1, <2>1 DEF ProcGoes
<1>4. Role(p)' /\ Sender(p)' /\ Holding(p)'
  BY <1>3 DEF Role, Sender, Holding, Sends
<1>5. Creating(p)' /\ Asking(p)'
  BY <1>1, <1>2, <1>3 DEF Part, Creating, Asking, Sends, Stored
<1>6. Files(p)'
  BY <1>1, <1>2, <1>3, FilesStay DEF Part, Files
<1>7. Draws(p)
  BY <1>1, <1>3 DEF Draws
<1> QED
  BY <1>1, <1>2, <1>3, <1>4, <1>5, <1>6, <1>7, OwnMove DEF Part

LEMMA ReceiveMoves ==
    ASSUME IInv, JInv, NEW p \in Procs, NEW id \in Receipts, NEW m, NEW pass,
           Receive(p, id, m, pass)
    PROVE  JInv'
<1> DEFINE token == Peek(Secret(m), id)
           secret == Secret(m)
<1>1. /\ proc[p].cmd = "receive" /\ proc[p].at = "empty"
      /\ packets' = packets /\ left' = left /\ disk' = disk
      /\ proc' = [proc EXCEPT ![p].at = "meta", ![p].note = id, ![p].secret = secret,
                              ![p].pass = pass]
      /\ Asks(p, [Request("meta") EXCEPT !.id = id, !.token = token])
  BY DEF Receive, At, service
<1> HIDE DEF token, secret
<1>2. ProcTyped /\ WireTyped /\ DiskTyped /\ Part(p)
  BY DEF IInv, JInv
<1>3. /\ \A q \in Procs \ {p} : proc'[q] = proc[q]
      /\ proc'[p].at = "meta" /\ proc'[p].cmd = "receive" /\ proc'[p].note = id
      /\ proc'[p].packet = proc[p].packet /\ proc'[p].written = proc[p].written
  <2>1. ProcGoes(p, "meta", id, proc[p].packet, proc[p].written)
    BY <1>1, <1>2, TakesLink, Zenon
  <2> QED
    BY <1>1, <2>1 DEF ProcGoes
<1>4. /\ wire'[p].kind = "meta" /\ wire'[p].id = id /\ wire'[p].state = "sent"
      /\ \A q \in Procs \ {p} : wire'[q] = wire[q]
  <2>1. WireAsks(p, "meta", id)
    BY <1>1, <1>2, RequestsWithToken, Zenon
  <2> QED
    BY <2>1 DEF WireAsks
<1>5. Stored(id)
  BY ReceiptStored
<1>6. Role(p)' /\ Sender(p)' /\ Holding(p)'
  BY <1>1, <1>3, <1>5 DEF Role, Sender, Holding, Sends, Stored
<1>7. Creating(p)' /\ Asking(p)'
  BY <1>1, <1>4, <1>5 DEF Creating, Asking, Stored
<1>8. Files(p)'
  BY <1>1, <1>2, <1>3, FilesStay DEF Part, Files
<1>9. Draws(p)
  BY <1>1, <1>3 DEF Draws
<1> QED
  BY <1>1, <1>2, <1>3, <1>4, <1>6, <1>7, <1>8, <1>9, OwnMove DEF Part

(* A header that names package n and has a key's verifier is that of n.     *)
LEMMA HeaderOf ==
    ASSUME JInv, NEW m \in Notes, NEW n, packets[m].header.id = n,
           packets[m].header.peek # NoPacket.header.peek
    PROVE  m = n
<1>1. Stored(m)
  BY DEF Stored
<1> QED
  BY <1>1 DEF JInv, Drawn, Genuine

(* prepareOpen has found the token of the package of the link.              *)
LEMMA VerifiedMoves ==
    ASSUME IInv, JInv, NEW p \in Procs, Verified(p)
    PROVE  JInv'
<1> DEFINE header == packets[wire[p].note].header
           token == ReadToken(proc[p].secret, header, proc[p].pass)
           x == [proc[p].packet EXCEPT !.header = header]
           id == proc[p].note
<1>0. proc[p].at = "meta" /\ wire[p].kind = "meta" /\ wire[p].state = "answered" /\ wire[p].ok
  BY DEF Verified, Answer
<1>1. CASE Prepares(header, proc[p].secret, id, proc[p].pass)
  <2>1. /\ packets' = packets /\ left' = left /\ disk' = disk
        /\ proc' = [proc EXCEPT ![p].at = "open", ![p].packet.header = header]
        /\ Asks(p, [Request("open") EXCEPT !.id = id, !.token = token])
    BY <1>1, Zenon DEF Verified, service
  <2>2. ProcTyped /\ WireTyped /\ DiskTyped /\ Part(p)
    BY DEF IInv, JInv
  <2>3. header.id = id /\ header.peek # NoPacket.header.peek /\ Hash(token) = header.read
    <3>1. header.id = id /\ Hash(Peek(proc[p].secret, id)) = header.peek
          /\ Hash(token) = header.read
      BY <1>1, Zenon DEF Prepares
    <3> QED
      BY <3>1, HashIsNoBlank
  <2>4. wire[p].note = id /\ Stored(id)
    <3>1. wire[p].note \in Notes /\ Stored(id)
      BY <1>0, <2>2 DEF Part, Asking, Holding
    <3> HIDE DEF id
    <3> QED
      BY <2>3, <3>1, HeaderOf
  <2>5. x.header = header
    <3>1. proc[p].packet = NoPacket
      BY <1>0, <2>2 DEF Part, Files
    <3> HIDE DEF header
    <3> QED
      BY <3>1 DEF NoPacket
  <2>6. proc' = [proc EXCEPT ![p].at = "open", ![p].packet = x]
    BY <2>1, <2>2, PacketOf
  <2> HIDE DEF x, token, id
  <2>7. /\ \A q \in Procs \ {p} : proc'[q] = proc[q]
        /\ proc'[p].at = "open" /\ proc'[p].cmd = proc[p].cmd /\ proc'[p].note = proc[p].note
        /\ proc'[p].packet = x /\ proc'[p].written = proc[p].written
    <3>1. ProcGoes(p, "open", proc[p].note, x, proc[p].written)
      BY <2>2, <2>6, StoresPacket, Zenon
    <3> QED
      BY <3>1 DEF ProcGoes
  <2>8. /\ wire'[p].kind = "open" /\ wire'[p].id = id /\ wire'[p].state = "sent"
        /\ wire'[p].token = token /\ \A q \in Procs \ {p} : wire'[q] = wire[q]
    <3>1. WireAsks(p, "open", id) /\ wire'[p].token = token
      BY <2>1, <2>2, RequestsWithToken, Zenon
    <3> QED
      BY <3>1 DEF WireAsks
  <2>9. proc[p].cmd = "receive" /\ proc[p].written = 0
    BY <1>0, <2>2 DEF Part, Role, Files
  <2>10. Role(p)' /\ Sender(p)' /\ Holding(p)'
    BY <2>1, <2>4, <2>5, <2>7, <2>9 DEF Role, Sender, Holding, Sends, Stored, id
  <2>11. Creating(p)' /\ Asking(p)'
    BY <2>1, <2>3, <2>4, <2>8 DEF Creating, Asking, Stored
  <2>12. Files(p)'
    BY <1>0, <2>1, <2>7, <2>9, FilesStay
  <2>13. Draws(p)
    BY <2>7, <2>9 DEF Draws
  <2> QED
    BY <2>1, <2>2, <2>7, <2>8, <2>10, <2>11, <2>12, <2>13, OwnMove DEF Part
<1>2. CASE ~Prepares(header, proc[p].secret, id, proc[p].pass)
  <2>1. Ends(p, "failed")
    BY <1>2, Zenon DEF Verified
  <2> QED
    BY <1>0, <2>1, FailsMoves
<1> QED
  BY <1>1, <1>2

(* decrypt has found the packet of the package of the link.                 *)
LEMMA OpenedMoves ==
    ASSUME IInv, JInv, NEW p \in Procs, Opened(p)
    PROVE  JInv'
<1> DEFINE x == packets[wire[p].note]
           header == proc[p].packet.header
           id == proc[p].note
<1>0. proc[p].at = "open" /\ wire[p].kind = "open" /\ wire[p].state = "answered" /\ wire[p].ok
  BY DEF Opened, Answer
<1>1. CASE Decrypts(x, header, Key(proc[p].secret, header, proc[p].pass))
  <2>1. /\ packets' = packets /\ left' = left /\ disk' = disk
        /\ proc' = [proc EXCEPT ![p].at = "write", ![p].packet = x]
        /\ wire' = [wire EXCEPT ![p] = NoRequest]
    BY <1>1, Zenon DEF Opened, service
  <2>2. ProcTyped /\ WireTyped /\ DiskTyped /\ Part(p)
    BY DEF IInv, JInv
  <2>3. x.header = header
    BY <1>1, Zenon DEF Decrypts
  <2>4. wire[p].note \in Notes /\ Stored(id) /\ header = packets[id].header
    BY <1>0, <2>2 DEF Part, Asking, Holding
  <2>5. Genuine(id, packets[id])
    BY <2>4 DEF JInv, Drawn, Stored
  <2>6. wire[p].note = id
    <3>1. x.header.id = id /\ x.header.peek # NoPacket.header.peek
      BY <2>3, <2>4, <2>5 DEF Genuine
    <3> HIDE DEF id
    <3> QED
      BY <2>4, <3>1, HeaderOf
  <2>7. x = packets[id] /\ Neat(x.sealed.content)
    BY <2>5, <2>6 DEF Genuine
  <2> HIDE DEF x
  <2>8. /\ \A q \in Procs \ {p} : proc'[q] = proc[q]
        /\ proc'[p].at = "write" /\ proc'[p].cmd = proc[p].cmd /\ proc'[p].note = proc[p].note
        /\ proc'[p].packet = x /\ proc'[p].written = proc[p].written
    <3>1. ProcGoes(p, "write", proc[p].note, x, proc[p].written)
      BY <2>1, <2>2, StoresPacket, Zenon
    <3> QED
      BY <3>1 DEF ProcGoes
  <2>9. wire'[p].kind = None /\ \A q \in Procs \ {p} : wire'[q] = wire[q]
    <3>1. wire'[p] = NoRequest /\ \A q \in Procs \ {p} : wire'[q] = wire[q]
      BY <2>1, <2>2, NoRequestIsMessage, WireSet, Zenon
    <3> QED
      BY <3>1, NoRequestIsMessage
  <2>10. proc[p].cmd = "receive" /\ proc[p].written = 0
    BY <1>0, <2>2 DEF Part, Role, Files
  <2>11. Role(p)' /\ Sender(p)' /\ Holding(p)'
    BY <2>1, <2>4, <2>7, <2>8, <2>10 DEF Role, Sender, Holding, Sends, Stored
  <2>12. Creating(p)' /\ Asking(p)'
    BY <2>9 DEF Creating, Asking, None
  <2>13. Files(p)'
    <3>1. Len(Outs(p)') \in Nat
      <4>1. Outs(p)' = Outputs(x.sealed.content)
        BY <2>8 DEF Outs
      <4>2. Outputs(x.sealed.content) \in Seq(DOMAIN Folded)
        BY <2>7, Zenon DEF Neat
      <4> QED
        BY <4>1, <4>2
    <3>2. \A f \in Paths : disk'[f].by # p
      BY <1>0, <2>1, <2>2 DEF Part, Files
    <3> QED
      BY <2>8, <2>10, <3>1, <3>2 DEF Files
  <2>14. Draws(p)
    BY <2>8, <2>10 DEF Draws
  <2> QED
    BY <2>1, <2>2, <2>8, <2>9, <2>11, <2>12, <2>13, <2>14, OwnMove DEF Part
<1>2. CASE ~Decrypts(x, header, Key(proc[p].secret, header, proc[p].pass))
  <2>1. Ends(p, "failed")
    BY <1>2, Zenon DEF Opened
  <2> QED
    BY <1>0, <2>1, FailsMoves
<1> QED
  BY <1>1, <1>2

-------------------------------------------------------------------------------
(* The file a receiver writes next.                                         *)
LEMMA WritingAt ==
    ASSUME JInv, NEW p \in Procs, Writing(p)
    PROVE  /\ proc[p].cmd = "receive" /\ proc[p].at = "write"
           /\ proc[p].written \in Nat /\ proc[p].written + 1 \in DOMAIN Outs(p)
           /\ Output(p) = Folded[Outs(p)[proc[p].written + 1]] /\ Output(p) \in Paths
           /\ \A k \in 1 .. proc[p].written : k \in DOMAIN Outs(p)
<1>1. /\ proc[p].cmd = "receive" /\ proc[p].at = "write"
      /\ proc[p].written < Len(Outs(p))
      /\ Output(p) = Folded[Outs(p)[proc[p].written + 1]]
  BY DEF Writing, At, Outs, Output
<1>2. /\ Outs(p) \in Seq(DOMAIN Folded)
      /\ \A k \in DOMAIN Outs(p) : Folded[Outs(p)[k]] \in Paths
  BY <1>1, OutputsNeat
<1>3. proc[p].written \in 0 .. Len(Outs(p))
  BY <1>1 DEF JInv, Part, Files
<1>4. DOMAIN Outs(p) = 1 .. Len(Outs(p)) /\ Len(Outs(p)) \in Nat
  BY <1>2
<1>5. proc[p].written \in Nat /\ proc[p].written + 1 \in 1 .. Len(Outs(p))
  BY <1>1, <1>3, <1>4
<1> QED
  BY <1>1, <1>2, <1>3, <1>4, <1>5

(* An output is created, or is not as a file is in its way that is not one  *)
(* of the receiver's own.                                                   *)
LEMMA OpenFileMoves ==
    ASSUME IInv, JInv, NEW p \in Procs, OpenFile(p)
    PROVE  JInv'
<1> DEFINE o == Output(p)
           n == proc[p].packet.sealed.content.of
<1>1. /\ Writing(p) /\ (disk[o].by = p => disk[o].whole)
      /\ wire' = wire /\ packets' = packets /\ left' = left
  BY DEF OpenFile, service
<1>2. /\ proc[p].cmd = "receive" /\ proc[p].at = "write"
      /\ proc[p].written \in Nat /\ proc[p].written + 1 \in DOMAIN Outs(p)
      /\ o = Folded[Outs(p)[proc[p].written + 1]] /\ o \in Paths
      /\ \A k \in 1 .. proc[p].written : k \in DOMAIN Outs(p)
  BY <1>1, WritingAt
<1>3. /\ \A i, j \in DOMAIN Outs(p) : Folded[Outs(p)[i]] = Folded[Outs(p)[j]] => i = j
      /\ \A k \in DOMAIN Outs(p) : Folded[Outs(p)[k]] \in Paths
      /\ n = proc[p].note
  BY <1>2, OutputsNeat
<1>4. ProcTyped /\ DiskTyped /\ Part(p) /\ p # None
  BY ProcsAssumption DEF IInv, JInv
<1>5. CASE disk[o] = NoFile
  <2>1. proc' = proc /\ disk' = [disk EXCEPT ![o] = [by |-> p, of |-> n, whole |-> FALSE]]
    BY <1>5 DEF OpenFile
  <2> HIDE DEF o, n
  <2>2. /\ Kept /\ disk'[o] = [by |-> p, of |-> n, whole |-> FALSE]
        /\ \A f \in Paths \ {o} : disk'[f] = disk[f]
    <3>1. Puts(o, [by |-> p, of |-> n, whole |-> FALSE])
      BY <1>4, <1>5, <2>1, CreatesFile, Zenon
    <3> QED
      BY <1>2, <3>1, Zenon DEF Puts
  <2>3. Role(p)' /\ Sender(p)' /\ Creating(p)' /\ Asking(p)' /\ Holding(p)'
    BY <1>1, <1>4, <2>1 DEF Part, Role, Sender, Creating, Asking, Holding, Sends, Stored
  <2>4. Outs(p)' = Outs(p)
    BY <2>1 DEF Outs
  <2>5. ASSUME NEW k \in 1 .. proc[p].written PROVE Done(p, k)'
    <3>1. Done(p, k) /\ Folded[Outs(p)[k]] \in Paths
      BY <1>2, <1>3, <1>4, <2>5 DEF Part, Files
    <3>2. Folded[Outs(p)[k]] # o
      BY <1>4, <1>5, <3>1 DEF Done, NoFile
    <3> QED
      BY <2>1, <2>2, <2>4, <3>1, <3>2 DEF Done
  <2>6. ASSUME NEW f \in Paths, disk'[f].by = p
        PROVE  /\ disk'[f].of = proc[p].note
               /\ disk'[f].whole => \E k \in 1 .. proc[p].written : f = Folded[Outs(p)[k]]
    <3>1. CASE f = o
      BY <1>3, <2>2, <3>1
    <3>2. CASE f # o
      <4>1. disk'[f] = disk[f]
        BY <2>2, <3>2
      <4> QED
        BY <1>2, <1>4, <2>6, <4>1 DEF Part, Files
    <3> QED
      BY <3>1, <3>2
  <2>7. Files(p)'
    <3>1. proc[p].written \in 0 .. Len(Outs(p))
      BY <1>2, <1>4 DEF Part, Files
    <3> QED
      BY <1>2, <2>1, <2>4, <2>5, <2>6, <3>1 DEF Files
  <2>8. PacketsTyped' /\ LeftTyped' /\ Lasting
    BY <1>1, PacketsStay
  <2>9. \A f \in Paths : disk'[f] = disk[f] \/ disk'[f].by = p
    BY <2>2
  <2> QED
    BY <1>1, <2>1, <2>2, <2>3, <2>7, <2>8, <2>9, OneMoves DEF Part, Draws
<1>6. CASE disk[o] # NoFile
  <2>1. Goes(p, "collided") /\ disk' = disk
    BY <1>6 DEF OpenFile
  <2>2. ProcGoes(p, "collided", proc[p].note, proc[p].packet, proc[p].written)
    BY <1>4, <2>1, GoesTo, Zenon
  <2>3. /\ \A q \in Procs \ {p} : proc'[q] = proc[q] /\ wire'[q] = wire[q]
        /\ proc'[p].at = "collided" /\ proc'[p].cmd = "receive" /\ proc'[p].note = proc[p].note
        /\ proc'[p].packet = proc[p].packet /\ proc'[p].written = proc[p].written
    BY <1>1, <1>2, <2>2 DEF ProcGoes
  <2>4. disk[o].by # p
    <3> SUFFICES ASSUME disk[o].by = p PROVE FALSE
      OBVIOUS
    <3>1. PICK k \in 1 .. proc[p].written : o = Folded[Outs(p)[k]]
      <4> HIDE DEF o
      <4> QED
        BY <1>1, <1>2, <1>4 DEF Part, Files
    <3>2. k = proc[p].written + 1
      BY <1>2, <1>3, <3>1
    <3> QED
      BY <1>2, <3>2
  <2>5. disk[o].by # None
    BY <1>2, <1>6, ProcsAssumption DEF JInv, Owned, None
  <2>6. Output(p)' = Output(p)
    BY <2>3 DEF Output
  <2>7. Role(p)' /\ Sender(p)' /\ Holding(p)'
    BY <1>1, <1>2, <1>4, <2>3 DEF Part, Role, Sender, Holding, Sends, Stored
  <2>8. Creating(p)' /\ Asking(p)'
    BY <1>1, <1>2, <1>4, <2>3 DEF Part, Creating, Asking, Sends, Stored
  <2>9. Files(p)'
    BY <1>2, <2>1, <2>3, <2>4, <2>5, <2>6 DEF Files
  <2> QED
    BY <1>1, <1>2, <1>4, <2>1, <2>3, <2>7, <2>8, <2>9, OwnMove DEF Part, Draws
<1> QED
  BY <1>5, <1>6

LEMMA WriteFileMoves ==
    ASSUME IInv, JInv, NEW p \in Procs, WriteFile(p)
    PROVE  JInv'
<1> DEFINE o == Output(p)
           k == proc[p].written + 1
<1>1. /\ Writing(p) /\ disk[o].by = p /\ ~disk[o].whole
      /\ disk' = [disk EXCEPT ![o].whole = TRUE] /\ proc' = [proc EXCEPT ![p].written = k]
      /\ wire' = wire /\ packets' = packets /\ left' = left
  BY DEF WriteFile, service
<1>2. /\ proc[p].cmd = "receive" /\ proc[p].at = "write"
      /\ proc[p].written \in Nat /\ k \in DOMAIN Outs(p)
      /\ o = Folded[Outs(p)[k]] /\ o \in Paths
      /\ \A i \in 1 .. proc[p].written : i \in DOMAIN Outs(p)
  BY <1>1, WritingAt
<1>3. /\ \A i \in DOMAIN Outs(p) : Folded[Outs(p)[i]] \in Paths
      /\ DOMAIN Outs(p) = 1 .. Len(Outs(p)) /\ Len(Outs(p)) \in Nat
  BY <1>2, OutputsNeat
<1>4. ProcTyped /\ DiskTyped /\ Part(p)
  BY DEF IInv, JInv
<1>5. k \in 0 .. Len(Outs(p)) /\ 1 .. k = (1 .. proc[p].written) \cup {k}
  BY <1>2, <1>3
<1> HIDE DEF o, k
<1>6. disk[o].of = proc[p].note
  BY <1>1, <1>2, <1>4 DEF Part, Files
<1>7. /\ Kept /\ disk'[o] = [by |-> p, of |-> proc[p].note, whole |-> TRUE]
      /\ \A f \in Paths \ {o} : disk'[f] = disk[f]
  <2>1. Puts(o, [by |-> disk[o].by, of |-> disk[o].of, whole |-> TRUE])
    BY <1>1, <1>4, CompletesFile, Zenon
  <2> QED
    BY <1>1, <1>2, <1>6, <2>1, Zenon DEF Puts
<1>8. /\ \A q \in Procs \ {p} : proc'[q] = proc[q] /\ wire'[q] = wire[q]
      /\ proc'[p].at = "write" /\ proc'[p].cmd = "receive" /\ proc'[p].note = proc[p].note
      /\ proc'[p].packet = proc[p].packet /\ proc'[p].written = k
  <2>1. ProcGoes(p, proc[p].at, proc[p].note, proc[p].packet, k)
    BY <1>1, <1>4, WritesOne, Zenon
  <2> QED
    BY <1>1, <1>2, <2>1 DEF ProcGoes
<1>9. Role(p)' /\ Sender(p)' /\ Holding(p)'
  BY <1>1, <1>2, <1>4, <1>8 DEF Part, Role, Sender, Holding, Sends, Stored
<1>10. Creating(p)' /\ Asking(p)'
  BY <1>1, <1>2, <1>4, <1>8 DEF Part, Creating, Asking, Sends, Stored
<1>11. Outs(p)' = Outs(p)
  BY <1>8 DEF Outs
<1>12. ASSUME NEW i \in 1 .. k PROVE Done(p, i)'
  <2>1. CASE i = k
    BY <1>2, <1>7, <1>8, <1>11, <2>1 DEF Done
  <2>2. CASE i \in 1 .. proc[p].written
    <3>1. Done(p, i) /\ Folded[Outs(p)[i]] \in Paths
      BY <1>2, <1>3, <1>4, <2>2 DEF Part, Files
    <3>2. Folded[Outs(p)[i]] # o
      BY <1>1, <3>1 DEF Done
    <3> QED
      BY <1>7, <1>8, <1>11, <3>1, <3>2 DEF Done
  <2> QED
    BY <1>5, <2>1, <2>2
<1>13. ASSUME NEW f \in Paths, disk'[f].by = p
       PROVE  /\ disk'[f].of = proc[p].note
              /\ disk'[f].whole => \E i \in 1 .. k : f = Folded[Outs(p)[i]]
  <2>1. CASE f = o
    BY <1>2, <1>5, <1>7, <2>1
  <2>2. CASE f # o
    <3>1. disk'[f] = disk[f]
      BY <1>7, <2>2
    <3> QED
      BY <1>2, <1>4, <1>5, <1>13, <3>1 DEF Part, Files
  <2> QED
    BY <2>1, <2>2
<1>14. Files(p)'
  BY <1>5, <1>8, <1>11, <1>12, <1>13 DEF Files
<1>15. PacketsTyped' /\ LeftTyped' /\ Lasting
  BY <1>1, PacketsStay
<1>16. \A f \in Paths : disk'[f] = disk[f] \/ disk'[f].by = p
  BY <1>7
<1>17. Draws(p)
  BY <1>2, <1>8 DEF Draws
<1> QED
  BY <1>1, <1>7, <1>8, <1>9, <1>10, <1>14, <1>15, <1>16, <1>17, OneMoves DEF Part

(* Every output has been written.                                           *)
LEMMA SavedMoves ==
    ASSUME IInv, JInv, NEW p \in Procs, Saved(p)
    PROVE  JInv'
<1>1. /\ proc[p].cmd = "receive" /\ proc[p].at = "write" /\ Ends(p, "ok")
      /\ ~(proc[p].written < Len(Outs(p)))
  BY DEF Saved, Writing, At, Outs
<1>2. ProcTyped /\ WireTyped /\ DiskTyped /\ Part(p)
  BY DEF IInv, JInv
<1>3. /\ \A q \in Procs \ {p} : proc'[q] = proc[q] /\ wire'[q] = wire[q]
      /\ proc'[p].at = "ok" /\ proc'[p].cmd = "receive" /\ proc'[p].note = proc[p].note
      /\ "ok" # "failed" => proc'[p].packet = proc[p].packet
      /\ IF wire[p].state = "sent" THEN wire' = wire ELSE wire'[p].kind = None
  BY <1>1, <1>2, EndsAt, Zenon
<1>4. proc'[p].packet = proc[p].packet /\ (wire'[p] = wire[p] \/ wire'[p].kind = None)
  BY <1>3
<1>5. packets' = packets /\ left' = left /\ disk' = disk
  BY <1>1 DEF Ends, service
<1>6. Role(p)' /\ Sender(p)' /\ Holding(p)'
  BY <1>1, <1>2, <1>3, <1>4, <1>5 DEF Part, Role, Sender, Holding, Sends, Stored
<1>7. Creating(p)' /\ Asking(p)'
  BY <1>1, <1>2, <1>3, <1>4, <1>5 DEF Part, Creating, Asking, Sends, Stored, None
<1>8. Outs(p)' = Outs(p)
  BY <1>4 DEF Outs
<1>9. \A k \in DOMAIN Outs(p) : Done(p, k)'
  <2>1. DOMAIN Outs(p) = 1 .. Len(Outs(p)) /\ Len(Outs(p)) \in Nat
    BY <1>1, OutputsNeat
  <2>2. proc[p].written \in 0 .. Len(Outs(p)) /\ \A k \in 1 .. proc[p].written : Done(p, k)
    BY <1>1, <1>2 DEF Part, Files
  <2>3. \A k \in DOMAIN Outs(p) : Done(p, k)
    BY <1>1, <2>1, <2>2
  <2> QED
    BY <1>3, <1>5, <1>8, <2>3 DEF Done
<1>10. Files(p)'
  BY <1>2, <1>3, <1>5, <1>8, <1>9 DEF Part, Files
<1>11. Draws(p)
  BY <1>1, <1>3 DEF Draws
<1> QED
  BY <1>2, <1>3, <1>5, <1>6, <1>7, <1>10, <1>11, OwnMove DEF Part

-------------------------------------------------------------------------------
LEMMA RevokeMoves ==
    ASSUME IInv, JInv, NEW p \in Procs, NEW id \in Receipts, NEW m, Revoke(p, id, m)
    PROVE  JInv'
<1> DEFINE token == RevokeToken(m)
<1>1. /\ proc[p].cmd = "revoke" /\ proc[p].at = "new"
      /\ packets' = packets /\ left' = left /\ disk' = disk
      /\ proc' = [proc EXCEPT ![p].at = "revoke", ![p].note = id]
      /\ Asks(p, [Request("revoke") EXCEPT !.id = id, !.token = token])
  BY DEF Revoke, At, service
<1> HIDE DEF token
<1>2. ProcTyped /\ WireTyped /\ DiskTyped /\ Part(p)
  BY DEF IInv, JInv
<1>3. /\ \A q \in Procs \ {p} : proc'[q] = proc[q]
      /\ proc'[p].at = "revoke" /\ proc'[p].cmd = "revoke" /\ proc'[p].note = id
  <2>1. ProcGoes(p, "revoke", id, proc[p].packet, proc[p].written)
    BY <1>1, <1>2, Names, Zenon
  <2> QED
    BY <1>1, <2>1 DEF ProcGoes
<1>4. /\ wire'[p].kind = "revoke" /\ wire'[p].id = id /\ wire'[p].state = "sent"
      /\ \A q \in Procs \ {p} : wire'[q] = wire[q]
  <2>1. WireAsks(p, "revoke", id)
    BY <1>1, <1>2, RequestsWithToken, Zenon
  <2> QED
    BY <2>1 DEF WireAsks
<1>5. Stored(id)
  BY ReceiptStored
<1>6. Role(p)' /\ Sender(p)' /\ Holding(p)'
  BY <1>1, <1>3, <1>5 DEF Role, Sender, Holding, Sends, Stored
<1>7. Creating(p)' /\ Asking(p)'
  BY <1>1, <1>3, <1>4, <1>5 DEF Creating, Asking, Stored
<1>8. Files(p)'
  BY <1>1, <1>3, FilesStay
<1>9. Draws(p)
  BY <1>1, <1>3 DEF Draws
<1> QED
  BY <1>1, <1>2, <1>3, <1>4, <1>6, <1>7, <1>8, <1>9, OwnMove DEF Part

(* The revocation was answered to the request for that package.             *)
LEMMA RevokedMoves ==
    ASSUME IInv, JInv, NEW p \in Procs, Revoked(p)
    PROVE  JInv'
<1>1. /\ proc[p].at = "revoke" /\ wire[p].kind = "revoke" /\ wire[p].state = "answered"
      /\ wire[p].ok /\ Ends(p, "ok")
  BY DEF Revoked, Answer
<1>2. ProcTyped /\ WireTyped /\ DiskTyped /\ Part(p)
  BY DEF IInv, JInv
<1>3. proc[p].cmd = "revoke" /\ Stored(proc[p].note) /\ left[proc[p].note] = 0
  BY <1>1, <1>2 DEF Part, Role, Asking, Holding
<1>4. /\ \A q \in Procs \ {p} : proc'[q] = proc[q] /\ wire'[q] = wire[q]
      /\ proc'[p].at = "ok" /\ proc'[p].cmd = proc[p].cmd /\ proc'[p].note = proc[p].note
      /\ IF wire[p].state = "sent" THEN wire' = wire ELSE wire'[p].kind = None
  BY <1>1, <1>2, EndsAt, Zenon
<1>5. wire'[p].kind = None
  BY <1>1, <1>4
<1>6. packets' = packets /\ left' = left /\ disk' = disk
  BY <1>1 DEF Ends, service
<1>7. Role(p)' /\ Sender(p)' /\ Holding(p)'
  BY <1>3, <1>4, <1>6 DEF Role, Sender, Holding, Sends, Stored
<1>8. Creating(p)' /\ Asking(p)'
  BY <1>5 DEF Creating, Asking, None
<1>9. Files(p)'
  BY <1>1, <1>3, <1>4, <1>6, FilesStay
<1>10. Draws(p)
  BY <1>1, <1>4 DEF Draws
<1> QED
  BY <1>2, <1>4, <1>6, <1>7, <1>8, <1>9, <1>10, OwnMove DEF Part

LEMMA GivesUpMoves ==
    ASSUME IInv, JInv, NEW p \in Procs, Refused(p) \/ TimesOut(p) \/ Fails(p)
    PROVE  JInv'
<1>1. Ends(p, "failed")
  BY DEF Refused, TimesOut, Fails
<1>2. proc[p].at # "new"
  BY DEF Refused, TimesOut, Fails, Answer, Waiting
<1> QED
  BY <1>1, <1>2, FailsMoves

-------------------------------------------------------------------------------
(* What the service does about the request of p                             *)

(* An answer stores nothing.  One of another package is not taken for a     *)
(* receipt.                                                                 *)
LEMMA ReplyMoves ==
    ASSUME IInv, JInv, NEW p \in Procs, NEW ok, NEW m, Reply(p, ok, m),
           UNCHANGED <<proc, disk, packets>>, LeftTyped', Lasting,
           wire[p].kind = "create" /\ ok => m # wire[p].id,
           wire[p].kind \in {"meta", "open"} /\ ok => m \in Notes,
           wire[p].kind = "revoke" /\ ok => left'[wire[p].id] = 0
    PROVE  JInv'
<1>1. /\ wire'[p].state # "sent" /\ \A q \in Procs \ {p} : wire'[q] = wire[q]
      /\ \/ wire'[p].kind = None
         \/ /\ wire'[p].kind = wire[p].kind /\ wire'[p].id = wire[p].id
            /\ wire'[p].token = wire[p].token /\ wire'[p].packet = wire[p].packet
            /\ wire'[p].ok = ok /\ wire'[p].note = m
  <2>1. WireTyped
    BY DEF IInv
  <2> QED
    BY <2>1, Replies
<1>2. Part(p) /\ DiskTyped
  BY DEF JInv, IInv
<1>3. Role(p)' /\ Sender(p)'
  BY <1>1, <1>2 DEF Part, Role, Sender, Sends, Stored, None
<1>4. Holding(p)'
  BY <1>2 DEF Part, Holding, Lasting, Stored
<1>5. Files(p)'
  BY <1>2 DEF Part, Files, Outs, Output, Done
<1>6. CASE wire'[p].kind = None
  <2>1. Creating(p)' /\ Asking(p)'
    BY <1>6 DEF Creating, Asking, None
  <2> QED
    BY <1>1, <1>2, <1>3, <1>4, <1>5, <2>1, DiskStays, OneMoves DEF Part, Draws, JInv, PacketsTyped
<1>7. CASE /\ wire'[p].kind = wire[p].kind /\ wire'[p].id = wire[p].id
           /\ wire'[p].token = wire[p].token /\ wire'[p].packet = wire[p].packet
           /\ wire'[p].ok = ok /\ wire'[p].note = m
  <2>1. Creating(p)'
    BY <1>1, <1>2, <1>7 DEF Part, Creating, Sends
  <2>2. Asking(p)'
    BY <1>1, <1>2, <1>7 DEF Part, Asking, Stored
  <2> QED
    BY <1>1, <1>2, <1>3, <1>4, <1>5, <2>1, <2>2, DiskStays, OneMoves
       DEF Part, Draws, JInv, PacketsTyped
<1> QED
  BY <1>1, <1>6, <1>7

(* The packet is stored, the only one ever under its identifier.            *)
LEMMA StoreMoves ==
    ASSUME IInv, JInv, NEW p \in Procs, NEW ttl, NEW views, Store(p, ttl, views)
    PROVE  JInv'
<1> DEFINE id == wire[p].id
           x == wire[p].packet
<1>1. /\ wire[p].kind = "create" /\ wire[p].state = "sent" /\ Reply(p, TRUE, id)
      /\ left' = [left EXCEPT ![id] = views] /\ packets' = [packets EXCEPT ![id] = x]
      /\ proc' = proc /\ disk' = disk
  BY DEF Store, Sent, Service!Admit
<1>2. Part(p) /\ DiskTyped
  BY DEF JInv, IInv
<1>3. /\ Sends(p) /\ id = proc[p].note /\ id \in Notes /\ ~Stored(id) /\ Genuine(id, x)
      /\ proc[p].at = "create" => x = proc[p].packet
  BY <1>1, <1>2 DEF Part, Creating, Sender
<1>4. /\ wire'[p].state # "sent" /\ \A q \in Procs \ {p} : wire'[q] = wire[q]
      /\ \/ wire'[p].kind = None
         \/ /\ wire'[p].kind = wire[p].kind /\ wire'[p].id = wire[p].id
            /\ wire'[p].token = wire[p].token /\ wire'[p].packet = wire[p].packet
            /\ wire'[p].ok = TRUE /\ wire'[p].note = id
  BY <1>1, Replies, Zenon DEF IInv
<1>5. x # NoPacket
  BY <1>3 DEF Genuine
<1> HIDE DEF x
<1>6. PacketsTyped' /\ packets'[id] = x /\ \A n \in Notes : n # id => packets'[n] = packets[n]
  <2>1. PICK S : packets \in [Notes -> S]
    BY DEF JInv, PacketsTyped
  <2>2. packets \in [Notes -> S \cup {x}] /\ packets' \in [Notes -> S \cup {x}]
    BY <1>1, <2>1
  <2> QED
    BY <1>1, <1>3, <2>1, <2>2 DEF PacketsTyped
<1>7. LeftTyped' /\ \A n \in Notes : n # id => left'[n] = left[n]
  <2>1. PICK S : left \in [Notes -> S]
    BY DEF JInv, LeftTyped
  <2>2. left \in [Notes -> S \cup {views}] /\ left' \in [Notes -> S \cup {views}]
    BY <1>1, <2>1
  <2> QED
    BY <1>1, <2>1, <2>2 DEF LeftTyped
<1>8. Lasting
  BY <1>3, <1>6, <1>7 DEF Lasting, Stored
<1>9. proc[p].at \notin {"challenge", "meta", "open", "write", "collided", "revoke", "ok"}
       /\ proc[p].cmd = "send"
  BY <1>1, <1>2, <1>3 DEF Part, Holding, Sender, Sends
<1>10. Role(p)' /\ Sender(p)' /\ Holding(p)'
  BY <1>1, <1>2, <1>3, <1>9 DEF Part, Role, Sender, Holding, Sends
<1>11. Creating(p)' /\ Asking(p)'
  <2>1. CASE wire'[p].kind = None
    BY <2>1 DEF Creating, Asking, None
  <2>2. CASE /\ wire'[p].kind = "create" /\ wire'[p].id = id /\ wire'[p].packet = x
    BY <1>1, <1>3, <1>4, <1>5, <1>6, <2>2 DEF Creating, Asking, Sends, Stored
  <2> QED
    BY <1>1, <1>4, <2>1, <2>2 DEF x
<1>12. Files(p)'
  BY <1>1, <1>2 DEF Part, Files, Outs, Output, Done
<1>13. Kept /\ Draws(p) /\ \A f \in Paths : disk'[f] = disk[f]
  BY <1>1, <1>2, DiskStays DEF Draws
<1> QED
  BY <1>1, <1>3, <1>4, <1>6, <1>7, <1>8, <1>10, <1>11, <1>12, <1>13, OneMoves DEF Part

LEMMA OpenMoves ==
    ASSUME IInv, JInv, NEW p \in Procs, Open(p)
    PROVE  JInv'
<1> DEFINE id == wire[p].id
<1>1. /\ wire[p].kind = "open" /\ Reply(p, TRUE, id) /\ UNCHANGED <<proc, disk, packets>>
      /\ left[id] > 0 /\ left' = [left EXCEPT ![id] = @ - 1]
  BY DEF Open, Sent, Service!Retrieve
<1>2. id \in Notes
  BY <1>1 DEF JInv, Part, Asking, Stored
<1> HIDE DEF id
<1>3. PICK S : left \in [Notes -> S]
  BY DEF JInv, LeftTyped
<1>4. LeftTyped'
  <2>1. left' \in [Notes -> S \cup {left[id] - 1}]
    BY <1>1, <1>3
  <2> QED
    BY <2>1 DEF LeftTyped
<1>5. Lasting
  <2>1. \A n \in Notes : n # id => left'[n] = left[n]
    BY <1>1, <1>3
  <2>2. left[id] # 0
    BY <1>1
  <2> QED
    BY <1>1, <2>1, <2>2 DEF Lasting
<1> QED
  BY <1>1, <1>2, <1>4, <1>5, ReplyMoves

LEMMA WithdrawMoves ==
    ASSUME IInv, JInv, NEW p \in Procs, Withdraw(p)
    PROVE  JInv'
<1> DEFINE id == wire[p].id
<1>1. /\ wire[p].kind = "revoke" /\ Reply(p, TRUE, id) /\ UNCHANGED <<proc, disk, packets>>
      /\ left' = [n \in Notes |-> IF n \in {id} THEN 0 ELSE left[n]]
  BY DEF Withdraw, Sent, Service!Revoke, Service!End
<1>2. id \in Notes
  BY <1>1 DEF JInv, Part, Asking, Stored
<1> HIDE DEF id
<1>3. PICK S : left \in [Notes -> S]
  BY DEF JInv, LeftTyped
<1>4. LeftTyped'
  <2>1. left' \in [Notes -> S \cup {0}]
    BY <1>1, <1>3
  <2> QED
    BY <2>1 DEF LeftTyped
<1>5. Lasting /\ left'[id] = 0
  BY <1>1, <1>2 DEF Lasting
<1> QED
  BY <1>1, <1>4, <1>5, ReplyMoves DEF id

LEMMA ServesMoves ==
    ASSUME IInv, JInv, NEW p \in Procs, Serves(p)
    PROVE  JInv'
<1>1. ASSUME UNCHANGED <<packets, left>> PROVE LeftTyped' /\ Lasting
  BY <1>1, PacketsStay
<1>2. CASE \E c \in Proofs : Issue(p, c)
  <2>1. PICK c \in Proofs : Issue(p, c)
    BY <1>2
  <2>2. /\ Reply(p, TRUE, c) /\ UNCHANGED <<proc, disk, packets, left>>
        /\ wire[p].kind = "challenge"
    BY <2>1 DEF Issue, Sent, Service!Offer
  <2> QED
    BY <1>1, <2>2, ReplyMoves
<1>3. CASE \E ttl \in Ttls, views \in Views : Store(p, ttl, views)
  BY <1>3, StoreMoves
<1>4. CASE Describe(p)
  <2>1. /\ Reply(p, TRUE, wire[p].id) /\ UNCHANGED <<proc, disk, packets, left>>
        /\ wire[p].kind = "meta"
    BY <1>4 DEF Describe, Sent, service
  <2>2. wire[p].id \in Notes
    BY <2>1 DEF JInv, Part, Asking, Stored
  <2> QED
    BY <1>1, <2>1, <2>2, ReplyMoves
<1>5. CASE Open(p)
  BY <1>5, OpenMoves
<1>6. CASE Withdraw(p)
  BY <1>6, WithdrawMoves
<1>7. CASE Deny(p)
  <2>1. Reply(p, FALSE, None) /\ UNCHANGED <<proc, disk, packets, left>>
    BY <1>7 DEF Deny, service
  <2> QED
    BY <1>1, <2>1, ReplyMoves
<1>8. CASE \E m \in Notes : Misroute(p, m)
  <2>1. PICK m \in Notes : Misroute(p, m)
    BY <1>8
  <2>2. /\ Reply(p, TRUE, m) /\ UNCHANGED <<proc, disk, packets, left>>
        /\ wire[p].kind \in {"create", "meta", "open"} /\ wire[p].state = "sent" /\ Stored(m)
    BY <2>1 DEF Misroute, Sent, service, Stored
  <2>3. wire[p].kind = "create" => m # wire[p].id
    BY <2>2 DEF JInv, Part, Creating
  <2> QED
    BY <1>1, <2>2, <2>3, ReplyMoves
<1> QED
  BY <1>2, <1>3, <1>4, <1>5, <1>6, <1>7, <1>8 DEF Serves

-------------------------------------------------------------------------------
(* Another program's file is not a receiver's.                              *)
LEMMA OccupyMoves ==
    ASSUME IInv, JInv, NEW f \in Paths, Occupy(f)
    PROVE  JInv'
<1>1. /\ proc' = proc /\ wire' = wire /\ packets' = packets /\ left' = left /\ disk[f] = NoFile
      /\ disk' = [disk EXCEPT ![f] = [by |-> "other", of |-> None, whole |-> TRUE]]
  BY DEF Occupy, service
<1>2. /\ Kept /\ disk'[f] = [by |-> "other", of |-> None, whole |-> TRUE]
      /\ \A g \in Paths \ {f} : disk'[g] = disk[g]
  <2>1. DiskTyped
    BY DEF IInv
  <2>2. Puts(f, [by |-> "other", of |-> None, whole |-> TRUE])
    BY <1>1, <2>1, CreatesFile, Zenon
  <2> QED
    BY <2>2, Zenon DEF Puts
<1>3. PacketsTyped' /\ LeftTyped' /\ Lasting
  BY <1>1, PacketsStay
<1>4. ASSUME NEW q \in Procs PROVE Part(q)'
  <2>1. q # None /\ q # "other"
    BY ProcsAssumption
  <2>2. disk[f].by # q /\ disk'[f].by # q
    BY <1>1, <1>2, <2>1 DEF NoFile
  <2>3. \A g \in Paths : disk[g].by = q \/ disk'[g].by = q => disk'[g] = disk[g]
    BY <1>2, <2>2
  <2> QED
    BY <1>1, <1>2, <1>3, <2>3, OutsidersKeep
<1>5. Distinct' /\ Drawn'
  BY <1>1 DEF JInv, Distinct, Drawn, Sends, Stored
<1>6. Owned'
  BY <1>2 DEF JInv, Owned
<1> QED
  BY <1>3, <1>4, <1>5, <1>6 DEF JInv

LEMMA StutterMoves == ASSUME JInv, UNCHANGED vars PROVE JInv'
<1>1. UNCHANGED <<proc, wire, packets, left, disk>>
  BY DEF vars, service
<1>2. PacketsTyped' /\ LeftTyped'
  BY <1>1 DEF JInv, PacketsTyped, LeftTyped
<1>3. Distinct' /\ Drawn' /\ Owned'
  BY <1>1 DEF JInv, Distinct, Drawn, Owned, Sends, Stored
<1>4. ASSUME NEW q \in Procs PROVE Part(q)'
  <2>1. Part(q)
    BY DEF JInv
  <2>2. Role(q)' /\ Sender(q)' /\ Creating(q)' /\ Asking(q)' /\ Holding(q)'
    BY <1>1, <2>1 DEF Part, Role, Sender, Creating, Asking, Holding, Sends, Stored
  <2>3. Files(q)'
    BY <1>1, <2>1 DEF Part, Files, Outs, Output, Done
  <2> QED
    BY <2>2, <2>3 DEF Part
<1> QED
  BY <1>2, <1>3, <1>4 DEF JInv

LEMMA NextMoves == ASSUME IInv, JInv, [Next]_vars PROVE JInv'
<1>1. CASE \E p \in Procs : Starts(p)
  BY <1>1, SendMoves, InspectMoves, RevokeMoves, Zenon DEF Starts
<1>2. CASE \E p \in Procs : Continues(p) \/ Fails(p)
  BY <1>2, ChallengedMoves, CreatedMoves, VerifiedMoves, OpenedMoves, OpenFileMoves,
     WriteFileMoves, SavedMoves, RevokedMoves, GivesUpMoves, Zenon DEF Continues
<1>3. CASE \E p \in Procs : Serves(p)
  BY <1>3, ServesMoves
<1>4. CASE \E p \in Procs, id \in Receipts, m \in Receipts, pass \in Passphrases :
              Receive(p, id, m, pass)
  BY <1>4, ReceiveMoves, Zenon
<1>5. CASE \E f \in Paths : Occupy(f)
  BY <1>5, OccupyMoves
<1>6. CASE UNCHANGED vars
  BY <1>6, StutterMoves
<1> QED
  BY <1>1, <1>2, <1>3, <1>4, <1>5, <1>6, Zenon DEF Next

LEMMA InitHolds == ASSUME Init PROVE JInv
<1>1. PICK cast \in Casts : proc = [p \in Procs |-> Fresh(cast[p])]
  BY DEF Init
<1>2. /\ packets = [n \in Notes |-> NoPacket] /\ left = [n \in Notes |-> 0]
      /\ wire = [p \in Procs |-> NoRequest] /\ disk = [f \in Paths |-> NoFile]
  BY DEF Init, Service!Init
<1>3. PacketsTyped /\ LeftTyped
  <2>1. packets \in [Notes -> {NoPacket}] /\ left \in [Notes -> {0}]
    BY <1>2
  <2> QED
    BY <2>1 DEF PacketsTyped, LeftTyped
<1>4. \A p \in Procs : proc[p].at = "new" /\ proc[p].packet = NoPacket /\ proc[p].written = 0
  <2>1. ASSUME NEW c, NEW s, NEW np
        PROVE  LET r == [cmd |-> c, at |-> "new", note |-> None, secret |-> <<>>, pass |-> s,
                         packet |-> np, written |-> 0]
               IN  r.at = "new" /\ r.packet = np /\ r.written = 0
    OBVIOUS
  <2>2. \A c : Fresh(c).at = "new" /\ Fresh(c).packet = NoPacket /\ Fresh(c).written = 0
    BY <2>1, Zenon DEF Fresh
  <2> QED
    BY <1>1, <2>2
<1>5. \A p \in Procs : wire[p].kind = None
  BY <1>2, NoRequestIsMessage
<1>6. \A f \in Paths : disk[f] = NoFile
  BY <1>2
<1>7. ASSUME NEW q \in Procs PROVE Part(q)
  <2>1. \A f \in Paths : disk[f].by # q
    BY <1>6, ProcsAssumption DEF NoFile
  <2>2. Role(q) /\ Sender(q) /\ Holding(q) /\ Files(q)
    BY <1>4, <2>1 DEF Role, Sender, Holding, Files, Sends
  <2>3. Creating(q) /\ Asking(q)
    BY <1>5 DEF Creating, Asking, None
  <2> QED
    BY <2>2, <2>3 DEF Part
<1>8. Distinct /\ Drawn /\ Owned
  BY <1>2, <1>4, <1>6 DEF Distinct, Drawn, Owned, Sends, Stored
<1> QED
  BY <1>3, <1>7, <1>8 DEF JInv

-------------------------------------------------------------------------------
LEMMA AlwaysJInv == Spec => [](IInv /\ JInv)
<1>1. Init => IInv /\ JInv
  BY InitStarts, InitHolds
<1>2. IInv /\ JInv /\ [Next]_vars => (IInv /\ JInv)'
  BY NextKeeps, NextMoves
<1> QED
  BY <1>1, <1>2, PTL DEF Spec

(* For any number of processes and packages, whatever links, passphrases    *)
(* and answers a receiver is given: it asks for the retrieval, which cannot *)
(* be undone, only with the token that opens the package                    *)
(* (shared/index.ts:197-231, index.ts:212-222).                             *)
THEOREM RetrievalAskedOnlyToOpen == Spec => []AskedOnlyToOpen
<1>1. JInv => AskedOnlyToOpen
  BY DEF JInv, Part, Asking, AskedOnlyToOpen, Header
<1> QED
  BY <1>1, AlwaysJInv, PTL

(* Whatever answers were delayed, lost or those of other packages: a        *)
(* command that reports success has done what it says.  What was sent is    *)
(* what the service was given, every part of what was received is in a file *)
(* of its own, and what was revoked is never retrieved again                *)
(* (index.ts:177-191, 212-227, 249-250).                                    *)
THEOREM SuccessAlwaysTrue == Spec => []SuccessIsTrue
<1>1. ASSUME JInv PROVE SuccessIsTrue
  <2> SUFFICES ASSUME NEW p \in Procs, proc[p].at = "ok"
               PROVE  LET n == proc[p].note
                          content == packets[n].sealed.content
                      IN  /\ packets[n] # NoPacket
                          /\ proc[p].cmd = "send" => packets[n] = proc[p].packet
                          /\ proc[p].cmd = "receive" => \A k \in DOMAIN Outputs(content) :
                                 disk[Folded[Outputs(content)[k]]]
                                     = [by |-> p, of |-> n, whole |-> TRUE]
                          /\ proc[p].cmd = "revoke" => left[n] = 0
    BY DEF SuccessIsTrue
  <2>1. Part(p)
    BY <1>1 DEF JInv
  <2>2. packets[proc[p].note] # NoPacket
    BY <2>1 DEF Part, Holding, Stored
  <2>3. proc[p].cmd = "send" => packets[proc[p].note] = proc[p].packet
    BY <2>1 DEF Part, Sender
  <2>4. proc[p].cmd = "revoke" => left[proc[p].note] = 0
    BY <2>1 DEF Part, Holding
  <2>5. CASE proc[p].cmd = "receive"
    <3>1. proc[p].packet = packets[proc[p].note] /\ \A k \in DOMAIN Outs(p) : Done(p, k)
      BY <2>1, <2>5 DEF Part, Holding, Files
    <3> QED
      BY <2>2, <2>3, <2>4, <3>1 DEF Outs, Done
  <2> QED
    BY <2>2, <2>3, <2>4, <2>5
<1> QED
  BY <1>1, AlwaysJInv, PTL

(* Whatever names are sent together, on a file system that may ignore case: *)
(* an output of a package is never in the way of another of its own, so a   *)
(* retrieval is spoiled only by files other programs or receivers put there *)
(* (index.ts:107-123, 204-206).                                             *)
THEOREM CollidesAlwaysWithOthers == Spec => []CollidesOnlyWithOthers
<1>1. JInv => CollidesOnlyWithOthers
  BY DEF JInv, Part, Files, CollidesOnlyWithOthers
<1> QED
  BY <1>1, AlwaysJInv, PTL
================================================================================
