-------------------------- MODULE ApiServer_proofs ---------------------------
(***************************************************************************)
(* Proofs about one API process, for any number of requests, slots,        *)
(* challenges and notes.                                                   *)
(*                                                                         *)
(* A handler's step moves one request.  The invariant is therefore a       *)
(* predicate of a request (what it asks for, owns, was answered and has    *)
(* consumed at each await) and three facts about all of them; one lemma    *)
(* (StepOfOne) says what a step must show of its request, and each action  *)
(* shows it.                                                               *)
(***************************************************************************)
EXTENDS ApiServer, FiniteSetTheorems, TLAPS

Places == Handling \cup {"new", "responding", "done"}

\* What a request at each await asks for.
Asks(r) ==
    /\ pc[r] \in Places
    /\ pc[r] # "new" => task[r] \in Tasks
    /\ At(r, "loading") => task[r].kind = "page"
    /\ At(r, "rating") => task[r].kind # "page"
    /\ At(r, "asking") => task[r].kind \in {"challenge", "create"}
    /\ At(r, "issuing") => task[r].kind = "challenge"
    /\ pc[r] \in {"inspecting", "inspected", "uploading", "storing"} =>
          task[r].kind = "create"
    /\ At(r, "reading") => task[r].kind \in AccessKinds
    /\ At(r, "checking") => task[r].kind \in {"meta", "open"}
    /\ pc[r] \in {"checked", "opening"} => task[r].kind = "open"
    /\ At(r, "deleting") => task[r].kind = "delete"
    /\ At(r, "responding") => task[r].kind \in {"open", "page"}

\* The permits it owns there.
Owns(r) ==
    /\ pc[r] \in {"new", "done"} => held[r] = {}
    /\ pc[r] \in {"rating", "loading"} => held[r] = {Class(task[r].kind)}
    /\ pc[r] \in {"asking", "issuing", "inspecting", "inspected"} => held[r] = {"public"}
    /\ pc[r] \in {"reading", "checking", "checked", "deleting"} => held[r] = {"access"}
    /\ pc[r] \in {"uploading", "storing"} => held[r] = {"uploads", "packets"}
    /\ At(r, "opening") => held[r] = {"packets"}
    /\ At(r, "responding") => held[r] = IF task[r].kind = "open" THEN {"packets"}
                                        ELSE {"static"}

\* An answer awaits only a handler that waits for it; a script outlives only a
\* handler that was dropped or whose cache call failed.
Awaits(r) ==
    /\ pc[r] \notin Mutating => answer[r] = "none"
    /\ answer[r] # "none" => r \notin inflight
    /\ r \in inflight => /\ pc[r] \in Mutating \cup {"done"}
                         /\ At(r, "done") => result[r] \in {"capacity", "dropped"}
    /\ ~At(r, "done") => result[r] = "none"

\* What it has consumed.
Consumes(r) ==
    /\ consumed[r] \in {0, 1}
    /\ At(r, "new") \/ task[r].kind # "open" => consumed[r] = 0
    /\ pc[r] \in {"rating", "reading", "checking", "checked"} => consumed[r] = 0
    /\ r \in inflight => consumed[r] = 0
    /\ At(r, "opening") => /\ answer[r] \in {"none", "ok", "unavailable"}
                           /\ answer[r] = "ok" => consumed[r] = 1
                           /\ answer[r] = "unavailable" => consumed[r] = 0
    /\ At(r, "responding") /\ task[r].kind = "open" => consumed[r] = 1
    /\ result[r] \in {"busy", "limited", "unavailable"} => consumed[r] = 0

Sane(r) == Asks(r) /\ Owns(r) /\ Awaits(r) /\ Consumes(r)

Active == {r \in Requests : ~At(r, "new")}

\* A creation the store has confirmed.
Confirmed(r) ==
    /\ task[r].kind = "create"
    /\ (At(r, "storing") /\ answer[r] = "ok") \/ result[r] = "ok"

\* Each is a function on the requests; proof, on the challenges.
Shaped ==
    /\ pc = [r \in Requests |-> pc[r]] /\ task = [r \in Requests |-> task[r]]
    /\ held = [r \in Requests |-> held[r]] /\ answer = [r \in Requests |-> answer[r]]
    /\ result = [r \in Requests |-> result[r]]
    /\ consumed = [r \in Requests |-> consumed[r]]
    /\ proof \in [Proofs -> Store!ProofStates]

PermitsBounded ==
    \A s \in Semaphores : Cardinality(Holders(s)) <= Capacity(s)

\* A challenge is void once it has paid, and it has paid for one creation.
PaidOnce ==
    /\ \A r \in Requests : Confirmed(r) => proof[task[r].proof] = "void"
    /\ \A r, q \in Requests :
          Confirmed(r) /\ Confirmed(q) /\ task[r].proof = task[q].proof => r = q

IInv ==
    /\ Shaped
    /\ \A r \in Requests : Sane(r)
    /\ IsFiniteSet(Active)
    /\ PermitsBounded
    /\ PaidOnce

-----------------------------------------------------------------------------
(* Counting *)

LEMMA CapacityType == \A s \in Semaphores : Capacity(s) \in Nat
BY ServerAssumption DEF Capacity, Semaphores

\* A part of a finite set is no larger.
LEMMA PartIsSmaller ==
    ASSUME NEW T, IsFiniteSet(T), NEW S \in SUBSET T, NEW m \in Int, Cardinality(T) <= m
    PROVE  Cardinality(S) <= m
<1>1. IsFiniteSet(S) /\ Cardinality(S) <= Cardinality(T)
  BY FS_Subset
<1>2. Cardinality(S) \in Nat /\ Cardinality(T) \in Nat
  BY <1>1, FS_CardinalityType
<1> QED
  BY <1>1, <1>2

\* One element more than a set that is not full.
LEMMA RoomForOne ==
    ASSUME NEW T, IsFiniteSet(T), NEW x, NEW S \in SUBSET (T \cup {x}),
           NEW m \in Nat, Cardinality(T) < m
    PROVE  Cardinality(S) <= m
<1>1. Cardinality(T) \in Nat
  BY FS_CardinalityType
<1>2. /\ IsFiniteSet(T \cup {x})
      /\ Cardinality(T \cup {x}) = IF x \in T THEN Cardinality(T) ELSE Cardinality(T) + 1
  BY FS_AddElement
<1>3. Cardinality(T \cup {x}) <= m
  BY <1>1, <1>2
<1> QED
  BY <1>2, <1>3, PartIsSmaller

\* Who owns a permit has arrived.
LEMMA HoldersAreActive ==
    ASSUME IInv, NEW s PROVE Holders(s) \in SUBSET Active /\ IsFiniteSet(Holders(s))
<1>1. Holders(s) \in SUBSET Active
  BY DEF IInv, Sane, Owns, Holders, Active, At
<1> QED
  BY <1>1, FS_Subset DEF IInv

-----------------------------------------------------------------------------
(* A step of one request *)

\* Nothing about the request q changes.
Untouched(q) ==
    /\ pc'[q] = pc[q] /\ task'[q] = task[q] /\ held'[q] = held[q]
    /\ answer'[q] = answer[q] /\ result'[q] = result[q] /\ consumed'[q] = consumed[q]
    /\ q \in inflight' <=> q \in inflight

\* The store forgets no payment.
VoidStaysVoid ==
    /\ proof' \in [Proofs -> Store!ProofStates]
    /\ \A p \in Proofs : proof[p] = "void" => proof'[p] = "void"

\* Why a confirmation is no second one.
NoSecondPayment(r) ==
    Confirmed(r)' =>
        \/ Confirmed(r) /\ task'[r] = task[r]
        \/ proof[task'[r].proof] # "void" /\ proof'[task'[r].proof] = "void"

LEMMA SaneUntouched ==
    ASSUME NEW q \in Requests, Sane(q), Untouched(q) PROVE Sane(q)'
BY DEF Sane, Asks, Owns, Awaits, Consumes, Untouched, At

LEMMA ConfirmedIsActive ==
    ASSUME NEW r \in Requests, Sane(r), Confirmed(r)
    PROVE  task[r] \in Tasks /\ task[r].proof \in Proofs
BY DEF Sane, Asks, Awaits, Confirmed, Tasks, At

LEMMA StepOfOne ==
    ASSUME IInv, NEW r \in Requests, Shaped', Sane(r)',
           \A q \in Requests \ {r} : Untouched(q),
           \A s \in Semaphores : s \in held'[r] => s \in held[r] \/ Free(s),
           VoidStaysVoid, NoSecondPayment(r)
    PROVE  IInv'
<1>1. ASSUME NEW q \in Requests PROVE Sane(q)'
  BY SaneUntouched DEF IInv
<1>2. IsFiniteSet(Active)'
  <2>1. Active' \in SUBSET (Active \cup {r})
    BY DEF Active, Untouched, At
  <2>2. IsFiniteSet(Active \cup {r})
    BY FS_AddElement DEF IInv
  <2> QED
    BY <2>1, <2>2, FS_Subset
<1>3. ASSUME NEW s \in Semaphores PROVE Cardinality(Holders(s)') <= Capacity(s)
  <2>1. /\ IsFiniteSet(Holders(s)) /\ Capacity(s) \in Nat
        /\ Cardinality(Holders(s)) <= Capacity(s)
    BY HoldersAreActive, CapacityType DEF IInv, PermitsBounded
  <2>2. CASE s \in held'[r] => s \in held[r]
    <3>1. Holders(s)' \in SUBSET Holders(s)
      BY <2>2 DEF Holders, Untouched
    <3> QED
      BY <2>1, <3>1, PartIsSmaller
  <2>3. CASE Free(s)
    <3>1. Holders(s)' \in SUBSET (Holders(s) \cup {r})
      BY DEF Holders, Untouched
    <3> QED
      BY <2>1, <2>3, <3>1, RoomForOne DEF Free
  <2> QED
    BY <2>2, <2>3
<1>4. PaidOnce'
  <2>1. ASSUME NEW q \in Requests \ {r}
        PROVE  /\ Confirmed(q)' <=> Confirmed(q)
               /\ task'[q] = task[q]
    BY DEF Confirmed, Untouched, At
  <2>2. ASSUME NEW q \in Requests, Confirmed(q)
        PROVE  proof[task[q].proof] = "void" /\ proof'[task[q].proof] = "void"
    BY <2>2, ConfirmedIsActive DEF IInv, PaidOnce, VoidStaysVoid
  <2>3. ASSUME NEW q \in Requests, Confirmed(q)' PROVE proof'[task'[q].proof] = "void"
    BY <2>1, <2>2, <2>3 DEF NoSecondPayment
  <2>4. ASSUME NEW q \in Requests \ {r}, Confirmed(q)', Confirmed(r)',
               task'[q].proof = task'[r].proof
        PROVE  FALSE
    <3>1. Confirmed(q) /\ proof[task[q].proof] = "void"
      BY <2>1, <2>2, <2>4
    <3> QED
      BY <2>1, <2>4, <3>1 DEF NoSecondPayment, IInv, PaidOnce
  <2>5. ASSUME NEW q \in Requests \ {r}, NEW i \in Requests \ {r},
               Confirmed(q)', Confirmed(i)', task'[q].proof = task'[i].proof
        PROVE  q = i
    BY <2>1, <2>5 DEF IInv, PaidOnce
  <2> QED
    BY <2>3, <2>4, <2>5 DEF PaidOnce
<1> QED
  BY <1>1, <1>2, <1>3, <1>4 DEF IInv, PermitsBounded

-----------------------------------------------------------------------------
(* The steps of a handler *)

\* The class's bucket has answered.
LEMMA RatedKeepsIInv == ASSUME IInv, NEW r \in Requests, Rated(r) PROVE IInv'
<1>1. Sane(r) /\ Shaped
  BY DEF IInv
<1>2. Shaped' /\ \A q \in Requests \ {r} : Untouched(q)
  BY <1>1 DEF Rated, Finish, Go, Hold, Shaped, Untouched, store
<1>3. Sane(r)'
  <2>1. Asks(r)'
    BY <1>1 DEF Rated, Finish, Go, At, Shaped, Sane, Asks, Places, Handling,
       Kinds, Tasks, PublicKinds, AccessKinds
  <2>2. Owns(r)'
    BY <1>1 DEF Rated, Finish, Go, At, Hold, Shaped, Sane, Asks, Owns, Class,
       Tasks, Kinds, PublicKinds, AccessKinds
  <2>3. Awaits(r)'
    BY <1>1 DEF Rated, Finish, Go, At, Shaped, Sane, Awaits, Mutating
  <2>4. Consumes(r)'
    BY <1>1 DEF Rated, Finish, Go, At, Shaped, Sane, Asks, Awaits, Consumes,
       AccessKinds
  <2> QED
    BY <2>1, <2>2, <2>3, <2>4 DEF Sane
<1>4. \A s \in Semaphores : s \in held'[r] => s \in held[r] \/ Free(s)
  BY <1>1 DEF Rated, Finish, Hold, Shaped, Sane, Owns
<1>5. VoidStaysVoid /\ NoSecondPayment(r)
  BY <1>1 DEF Rated, Finish, Go, At, Shaped, Sane, Asks, Awaits, VoidStaysVoid,
     NoSecondPayment, Confirmed, store, AccessKinds
<1> QED
  BY <1>1, <1>2, <1>3, <1>4, <1>5, StepOfOne

\* The page's permit moves into the response.
LEMMA LoadedKeepsIInv == ASSUME IInv, NEW r \in Requests, Loaded(r) PROVE IInv'
<1>1. Sane(r) /\ Shaped
  BY DEF IInv
<1>2. Shaped' /\ \A q \in Requests \ {r} : Untouched(q)
  BY <1>1 DEF Loaded, Go, Shaped, Untouched, store
<1>3. Sane(r)'
  <2>1. Asks(r)'
    BY <1>1 DEF Loaded, Go, At, Shaped, Sane, Asks, Places, Handling
  <2>2. Owns(r)'
    BY <1>1 DEF Loaded, Go, At, Shaped, Sane, Asks, Owns, Class, AccessKinds,
       PublicKinds
  <2>3. Awaits(r)'
    BY <1>1 DEF Loaded, Go, At, Shaped, Sane, Awaits, Mutating
  <2>4. Consumes(r)'
    BY <1>1 DEF Loaded, Go, At, Shaped, Sane, Asks, Awaits, Consumes
  <2> QED
    BY <2>1, <2>2, <2>3, <2>4 DEF Sane
<1>4. \A s \in Semaphores : s \in held'[r] => s \in held[r] \/ Free(s)
  BY <1>1 DEF Loaded, Shaped, Sane, Owns
<1>5. VoidStaysVoid /\ NoSecondPayment(r)
  BY <1>1 DEF Loaded, Go, At, Shaped, Sane, Asks, Awaits, VoidStaysVoid,
     NoSecondPayment, Confirmed, store
<1> QED
  BY <1>1, <1>2, <1>3, <1>4, <1>5, StepOfOne

\* The endpoint's bucket, then the script is sent.
LEMMA AskKeepsIInv == ASSUME IInv, NEW r \in Requests, Ask(r) PROVE IInv'
<1>1. Sane(r) /\ Shaped
  BY DEF IInv
<1>2. Shaped' /\ \A q \in Requests \ {r} : Untouched(q)
  BY <1>1 DEF Ask, Finish, Dispatch, Go, Hold, Shaped, Untouched, store
<1>3. Sane(r)'
  <2>1. Asks(r)'
    BY <1>1 DEF Ask, Finish, Dispatch, Go, At, Shaped, Sane, Asks, Places,
       Handling
  <2>2. Owns(r)'
    BY <1>1 DEF Ask, Finish, Dispatch, Go, At, Hold, Shaped, Sane, Asks, Owns
  <2>3. Awaits(r)'
    BY <1>1 DEF Ask, Finish, Dispatch, Go, At, Shaped, Sane, Awaits, Mutating
  <2>4. Consumes(r)'
    BY <1>1 DEF Ask, Finish, Dispatch, Go, At, Shaped, Sane, Asks, Awaits,
       Consumes
  <2> QED
    BY <2>1, <2>2, <2>3, <2>4 DEF Sane
<1>4. \A s \in Semaphores : s \in held'[r] => s \in held[r] \/ Free(s)
  BY <1>1 DEF Ask, Finish, Dispatch, Hold, Shaped, Sane, Owns
<1>5. VoidStaysVoid /\ NoSecondPayment(r)
  BY <1>1 DEF Ask, Finish, Dispatch, Go, At, Shaped, Sane, Asks, Awaits,
     VoidStaysVoid, NoSecondPayment, Confirmed, store
<1> QED
  BY <1>1, <1>2, <1>3, <1>4, <1>5, StepOfOne

\* A challenge is inspected.
LEMMA InspectKeepsIInv == ASSUME IInv, NEW r \in Requests, Inspect(r) PROVE IInv'
<1>1. Sane(r) /\ Shaped
  BY DEF IInv
<1>2. Shaped' /\ \A q \in Requests \ {r} : Untouched(q)
  BY <1>1 DEF Inspect, Finish, Go, Hold, Shaped, Untouched, store
<1>3. Sane(r)'
  <2>1. Asks(r)'
    BY <1>1 DEF Inspect, Finish, Go, At, Shaped, Sane, Asks, Places, Handling
  <2>2. Owns(r)'
    BY <1>1 DEF Inspect, Finish, Go, At, Hold, Shaped, Sane, Asks, Owns
  <2>3. Awaits(r)'
    BY <1>1 DEF Inspect, Finish, Go, At, Shaped, Sane, Awaits, Mutating
  <2>4. Consumes(r)'
    BY <1>1 DEF Inspect, Finish, Go, At, Shaped, Sane, Asks, Awaits, Consumes
  <2> QED
    BY <2>1, <2>2, <2>3, <2>4 DEF Sane
<1>4. \A s \in Semaphores : s \in held'[r] => s \in held[r] \/ Free(s)
  BY <1>1 DEF Inspect, Finish, Hold, Shaped, Sane, Owns
<1>5. VoidStaysVoid /\ NoSecondPayment(r)
  BY <1>1 DEF Inspect, Finish, Go, At, Shaped, Sane, Asks, Awaits,
     VoidStaysVoid, NoSecondPayment, Confirmed, store
<1> QED
  BY <1>1, <1>2, <1>3, <1>4, <1>5, StepOfOne

\* An upload takes both slots for its control permit.
LEMMA AcceptKeepsIInv == ASSUME IInv, NEW r \in Requests, Accept(r) PROVE IInv'
<1>1. Sane(r) /\ Shaped
  BY DEF IInv
<1>2. Shaped' /\ \A q \in Requests \ {r} : Untouched(q)
  BY <1>1 DEF Accept, Finish, Hold, Go, Shaped, Untouched, store
<1>3. Sane(r)'
  <2>1. Asks(r)'
    BY <1>1 DEF Accept, Finish, Go, At, Shaped, Sane, Asks, Places, Handling
  <2>2. Owns(r)'
    BY <1>1 DEF Accept, Finish, Hold, Go, At, Shaped, Sane, Asks, Owns
  <2>3. Awaits(r)'
    BY <1>1 DEF Accept, Finish, Go, At, Shaped, Sane, Awaits, Mutating
  <2>4. Consumes(r)'
    BY <1>1 DEF Accept, Finish, Go, At, Shaped, Sane, Asks, Awaits, Consumes
  <2> QED
    BY <2>1, <2>2, <2>3, <2>4 DEF Sane
<1>4. \A s \in Semaphores : s \in held'[r] => s \in held[r] \/ Free(s)
  BY <1>1 DEF Accept, Finish, Hold, Shaped, Sane, Owns
<1>5. VoidStaysVoid /\ NoSecondPayment(r)
  BY <1>1 DEF Accept, Finish, Go, At, Shaped, Sane, Asks, Awaits,
     VoidStaysVoid, NoSecondPayment, Confirmed, store
<1> QED
  BY <1>1, <1>2, <1>3, <1>4, <1>5, StepOfOne

\* The body is there.
LEMMA UploadedKeepsIInv == ASSUME IInv, NEW r \in Requests, Uploaded(r) PROVE IInv'
<1>1. Sane(r) /\ Shaped
  BY DEF IInv
<1>2. Shaped' /\ \A q \in Requests \ {r} : Untouched(q)
  BY <1>1 DEF Uploaded, Finish, Dispatch, Go, Hold, Shaped, Untouched, store
<1>3. Sane(r)'
  <2>1. Asks(r)'
    BY <1>1 DEF Uploaded, Finish, Dispatch, Go, At, Shaped, Sane, Asks, Places,
       Handling
  <2>2. Owns(r)'
    BY <1>1 DEF Uploaded, Finish, Dispatch, Go, At, Hold, Shaped, Sane, Asks,
       Owns
  <2>3. Awaits(r)'
    BY <1>1 DEF Uploaded, Finish, Dispatch, Go, At, Shaped, Sane, Awaits,
       Mutating
  <2>4. Consumes(r)'
    BY <1>1 DEF Uploaded, Finish, Dispatch, Go, At, Shaped, Sane, Asks, Awaits,
       Consumes
  <2> QED
    BY <2>1, <2>2, <2>3, <2>4 DEF Sane
<1>4. \A s \in Semaphores : s \in held'[r] => s \in held[r] \/ Free(s)
  BY <1>1 DEF Uploaded, Finish, Dispatch, Hold, Shaped, Sane, Owns
<1>5. VoidStaysVoid /\ NoSecondPayment(r)
  BY <1>1 DEF Uploaded, Finish, Dispatch, Go, At, Shaped, Sane, Asks, Awaits,
     VoidStaysVoid, NoSecondPayment, Confirmed, store, Mutating
<1> QED
  BY <1>1, <1>2, <1>3, <1>4, <1>5, StepOfOne

\* The capability is there.
LEMMA ReadKeepsIInv == ASSUME IInv, NEW r \in Requests, Read(r) PROVE IInv'
<1>1. Sane(r) /\ Shaped
  BY DEF IInv
<1>2. Shaped' /\ \A q \in Requests \ {r} : Untouched(q)
  BY <1>1 DEF Read, Finish, Dispatch, Go, Hold, Shaped, Untouched, store
<1>3. Sane(r)'
  <2>1. Asks(r)'
    BY <1>1 DEF Read, Finish, Dispatch, Go, At, Shaped, Sane, Asks, Places,
       Handling, AccessKinds
  <2>2. Owns(r)'
    BY <1>1 DEF Read, Finish, Dispatch, Go, At, Hold, Shaped, Sane, Asks, Owns
  <2>3. Awaits(r)'
    BY <1>1 DEF Read, Finish, Dispatch, Go, At, Shaped, Sane, Awaits, Mutating
  <2>4. Consumes(r)'
    BY <1>1 DEF Read, Finish, Dispatch, Go, At, Shaped, Sane, Asks, Awaits,
       Consumes, AccessKinds
  <2> QED
    BY <2>1, <2>2, <2>3, <2>4 DEF Sane
<1>4. \A s \in Semaphores : s \in held'[r] => s \in held[r] \/ Free(s)
  BY <1>1 DEF Read, Finish, Dispatch, Hold, Shaped, Sane, Owns
<1>5. VoidStaysVoid /\ NoSecondPayment(r)
  BY <1>1 DEF Read, Finish, Dispatch, Go, At, Shaped, Sane, Asks, Awaits,
     VoidStaysVoid, NoSecondPayment, Confirmed, store, AccessKinds
<1> QED
  BY <1>1, <1>2, <1>3, <1>4, <1>5, StepOfOne

\* A note is looked at.
LEMMA CheckKeepsIInv == ASSUME IInv, NEW r \in Requests, Check(r) PROVE IInv'
<1>1. Sane(r) /\ Shaped
  BY DEF IInv
<1>2. Shaped' /\ \A q \in Requests \ {r} : Untouched(q)
  BY <1>1 DEF Check, Finish, Go, Hold, Shaped, Untouched, store
<1>3. Sane(r)'
  <2>1. Asks(r)'
    BY <1>1 DEF Check, Finish, Go, At, Shaped, Sane, Asks, Places, Handling,
       AccessKinds
  <2>2. Owns(r)'
    BY <1>1 DEF Check, Finish, Go, At, Hold, Shaped, Sane, Asks, Owns
  <2>3. Awaits(r)'
    BY <1>1 DEF Check, Finish, Go, At, Shaped, Sane, Awaits, Mutating
  <2>4. Consumes(r)'
    BY <1>1 DEF Check, Finish, Go, At, Shaped, Sane, Asks, Awaits, Consumes,
       AccessKinds
  <2> QED
    BY <2>1, <2>2, <2>3, <2>4 DEF Sane
<1>4. \A s \in Semaphores : s \in held'[r] => s \in held[r] \/ Free(s)
  BY <1>1 DEF Check, Finish, Hold, Shaped, Sane, Owns
<1>5. VoidStaysVoid /\ NoSecondPayment(r)
  BY <1>1 DEF Check, Finish, Go, At, Shaped, Sane, Asks, Awaits, VoidStaysVoid,
     NoSecondPayment, Confirmed, store, AccessKinds
<1> QED
  BY <1>1, <1>2, <1>3, <1>4, <1>5, StepOfOne

\* An opening takes a packet slot for its control permit.
LEMMA OpenKeepsIInv == ASSUME IInv, NEW r \in Requests, Open(r) PROVE IInv'
<1>1. Sane(r) /\ Shaped
  BY DEF IInv
<1>2. Shaped' /\ \A q \in Requests \ {r} : Untouched(q)
  BY <1>1 DEF Open, Finish, Hold, Dispatch, Go, Shaped, Untouched, store
<1>3. Sane(r)'
  <2>1. Asks(r)'
    BY <1>1 DEF Open, Finish, Dispatch, Go, At, Shaped, Sane, Asks, Places,
       Handling
  <2>2. Owns(r)'
    BY <1>1 DEF Open, Finish, Hold, Dispatch, Go, At, Shaped, Sane, Asks, Owns
  <2>3. Awaits(r)'
    BY <1>1 DEF Open, Finish, Dispatch, Go, At, Shaped, Sane, Awaits, Mutating
  <2>4. Consumes(r)'
    BY <1>1 DEF Open, Finish, Dispatch, Go, At, Shaped, Sane, Asks, Awaits,
       Consumes, Mutating
  <2> QED
    BY <2>1, <2>2, <2>3, <2>4 DEF Sane
<1>4. \A s \in Semaphores : s \in held'[r] => s \in held[r] \/ Free(s)
  BY <1>1 DEF Open, Finish, Hold, Dispatch, Shaped, Sane, Owns
<1>5. VoidStaysVoid /\ NoSecondPayment(r)
  BY <1>1 DEF Open, Finish, Dispatch, Go, At, Shaped, Sane, Asks, Awaits,
     VoidStaysVoid, NoSecondPayment, Confirmed, store
<1> QED
  BY <1>1, <1>2, <1>3, <1>4, <1>5, StepOfOne

\* The answer of a script is read; only a packet keeps its permit.
LEMMA AnsweredKeepsIInv == ASSUME IInv, NEW r \in Requests, Answered(r) PROVE IInv'
<1>1. Sane(r) /\ Shaped
  BY DEF IInv
<1>2. Shaped' /\ \A q \in Requests \ {r} : Untouched(q)
  BY <1>1 DEF Answered, Finish, Forget, Go, Hold, Shaped, Untouched, store
<1>3. Sane(r)'
  <2>1. Asks(r)'
    BY <1>1 DEF Answered, Finish, Go, At, Mutating, Shaped, Sane, Asks, Places,
       Handling
  <2>2. Owns(r)'
    BY <1>1 DEF Answered, Finish, Go, Hold, At, Mutating, Shaped, Sane, Asks,
       Owns
  <2>3. Awaits(r)'
    BY <1>1 DEF Answered, Finish, Forget, Go, At, Mutating, Shaped, Sane,
       Awaits
  <2>4. Consumes(r)'
    BY <1>1 DEF Answered, Finish, Forget, Go, At, Mutating, Shaped, Sane, Asks,
       Awaits, Consumes
  <2> QED
    BY <2>1, <2>2, <2>3, <2>4 DEF Sane
<1>4. \A s \in Semaphores : s \in held'[r] => s \in held[r] \/ Free(s)
  BY <1>1 DEF Answered, Finish, Hold, Shaped, Sane, Owns
<1>5. VoidStaysVoid /\ NoSecondPayment(r)
  BY <1>1 DEF Answered, Finish, Forget, Go, At, Mutating, Shaped, Sane, Asks,
     Awaits, VoidStaysVoid, NoSecondPayment, Confirmed, store
<1> QED
  BY <1>1, <1>2, <1>3, <1>4, <1>5, StepOfOne

\* The cache's deadline passes while a script may still run.
LEMMA CacheFailsKeepsIInv == ASSUME IInv, NEW r \in Requests, CacheFails(r) PROVE IInv'
<1>1. Sane(r) /\ Shaped
  BY DEF IInv
<1>2. Shaped' /\ \A q \in Requests \ {r} : Untouched(q)
  BY <1>1 DEF CacheFails, Finish, Forget, Go, Hold, Shaped, Untouched, store
<1>3. Sane(r)'
  <2>1. Asks(r)'
    BY <1>1 DEF CacheFails, Finish, Go, At, Mutating, Shaped, Sane, Asks,
       Places, Handling
  <2>2. Owns(r)'
    BY <1>1 DEF CacheFails, Finish, Go, Hold, At, Mutating, Shaped, Sane, Asks,
       Owns
  <2>3. Awaits(r)'
    BY <1>1 DEF CacheFails, Finish, Forget, Go, At, Mutating, Shaped, Sane,
       Awaits
  <2>4. Consumes(r)'
    BY <1>1 DEF CacheFails, Finish, Forget, Go, At, Mutating, Shaped, Sane,
       Asks, Awaits, Consumes
  <2> QED
    BY <2>1, <2>2, <2>3, <2>4 DEF Sane
<1>4. \A s \in Semaphores : s \in held'[r] => s \in held[r] \/ Free(s)
  BY <1>1 DEF CacheFails, Finish, Hold, Shaped, Sane, Owns
<1>5. VoidStaysVoid /\ NoSecondPayment(r)
  BY <1>1 DEF CacheFails, Finish, Forget, Go, At, Mutating, Shaped, Sane, Asks,
     Awaits, VoidStaysVoid, NoSecondPayment, Confirmed, store
<1> QED
  BY <1>1, <1>2, <1>3, <1>4, <1>5, StepOfOne

\* A handler is dropped at any await.
LEMMA DropKeepsIInv == ASSUME IInv, NEW r \in Requests, Drop(r) PROVE IInv'
<1>1. Sane(r) /\ Shaped
  BY DEF IInv
<1>2. Shaped' /\ \A q \in Requests \ {r} : Untouched(q)
  BY <1>1 DEF Drop, Finish, Forget, Go, Hold, Shaped, Untouched, store
<1>3. Sane(r)'
  <2>1. Asks(r)'
    BY <1>1 DEF Drop, Finish, Go, At, Handling, Mutating, Shaped, Sane, Asks,
       Places
  <2>2. Owns(r)'
    BY <1>1 DEF Drop, Finish, Go, Hold, At, Handling, Mutating, Shaped, Sane,
       Asks, Owns
  <2>3. Awaits(r)'
    BY <1>1 DEF Drop, Finish, Forget, Go, At, Handling, Mutating, Shaped, Sane,
       Awaits
  <2>4. Consumes(r)'
    BY <1>1 DEF Drop, Finish, Forget, Go, At, Handling, Mutating, Shaped, Sane,
       Asks, Awaits, Consumes
  <2> QED
    BY <2>1, <2>2, <2>3, <2>4 DEF Sane
<1>4. \A s \in Semaphores : s \in held'[r] => s \in held[r] \/ Free(s)
  BY <1>1 DEF Drop, Finish, Hold, Shaped, Sane, Owns
<1>5. VoidStaysVoid /\ NoSecondPayment(r)
  BY <1>1 DEF Drop, Finish, Forget, Go, At, Handling, Mutating, Shaped, Sane,
     Asks, Awaits, VoidStaysVoid, NoSecondPayment, Confirmed, store
<1> QED
  BY <1>1, <1>2, <1>3, <1>4, <1>5, StepOfOne

\* The last byte of a response leaves.
LEMMA ReleasedKeepsIInv == ASSUME IInv, NEW r \in Requests, Released(r) PROVE IInv'
<1>1. Sane(r) /\ Shaped
  BY DEF IInv
<1>2. Shaped' /\ \A q \in Requests \ {r} : Untouched(q)
  BY <1>1 DEF Released, Finish, Go, Hold, Shaped, Untouched, store
<1>3. Sane(r)'
  <2>1. Asks(r)'
    BY <1>1 DEF Released, Finish, Go, At, Shaped, Sane, Asks, Places, Handling
  <2>2. Owns(r)'
    BY <1>1 DEF Released, Finish, Go, Hold, At, Shaped, Sane, Asks, Owns
  <2>3. Awaits(r)'
    BY <1>1 DEF Released, Finish, Go, At, Shaped, Sane, Awaits, Mutating
  <2>4. Consumes(r)'
    BY <1>1 DEF Released, Finish, Go, At, Shaped, Sane, Asks, Awaits, Consumes
  <2> QED
    BY <2>1, <2>2, <2>3, <2>4 DEF Sane
<1>4. \A s \in Semaphores : s \in held'[r] => s \in held[r] \/ Free(s)
  BY <1>1 DEF Released, Finish, Hold, Shaped, Sane, Owns
<1>5. VoidStaysVoid /\ NoSecondPayment(r)
  BY <1>1 DEF Released, Finish, Go, At, Shaped, Sane, Asks, Awaits,
     VoidStaysVoid, NoSecondPayment, Confirmed, store
<1> QED
  BY <1>1, <1>2, <1>3, <1>4, <1>5, StepOfOne

-----------------------------------------------------------------------------
(* Arrivals, scripts, what happens outside *)

\* A request is admitted by a free slot of its class, or turned away.
LEMMA ArriveKeepsIInv ==
    ASSUME IInv, NEW r \in Requests, NEW t \in Tasks, Arrive(r, t) PROVE IInv'
<1>1. Sane(r) /\ Shaped
  BY DEF IInv
<1>2. Shaped' /\ \A q \in Requests \ {r} : Untouched(q)
  BY <1>1 DEF Arrive, Finish, Go, Hold, Shaped, Untouched, store
<1>3. Sane(r)'
  <2>1. Asks(r)'
    BY <1>1 DEF Arrive, Finish, Go, At, Shaped, Asks, Places, Handling
  <2>2. Owns(r)'
    BY <1>1 DEF Arrive, Finish, Go, Hold, At, Shaped, Owns
  <2>3. Awaits(r)'
    BY <1>1 DEF Arrive, Finish, Go, At, Shaped, Sane, Awaits, Mutating
  <2>4. Consumes(r)'
    BY <1>1 DEF Arrive, Finish, Go, At, Shaped, Sane, Awaits, Consumes, Mutating
  <2> QED
    BY <2>1, <2>2, <2>3, <2>4 DEF Sane
<1>4. \A s \in Semaphores : s \in held'[r] => s \in held[r] \/ Free(s)
  BY <1>1 DEF Arrive, Finish, Hold, Shaped
<1>5. VoidStaysVoid /\ NoSecondPayment(r)
  BY <1>1 DEF Arrive, Finish, Go, At, Shaped, Sane, Awaits, VoidStaysVoid,
     NoSecondPayment, Confirmed, store
<1> QED
  BY <1>1, <1>2, <1>3, <1>4, <1>5, StepOfOne

\* A script that runs changes no handler: its answer waits for the one that
\* sent it, if that still runs.
LEMMA RunKeepsIInv ==
    ASSUME IInv, NEW r \in Requests, r \in inflight, NEW reply, Ran(r, reply),
           UNCHANGED <<pc, task, held, result>>, VoidStaysVoid,
           \/ UNCHANGED consumed /\ (task[r].kind = "open" => reply = "unavailable")
           \/ /\ task[r].kind = "open" /\ reply = "ok"
              /\ consumed' = [consumed EXCEPT ![r] = @ + 1],
           task[r].kind = "create" /\ reply = "ok" =>
               proof[task[r].proof] # "void" /\ proof'[task[r].proof] = "void",
           reply # "none"
    PROVE  IInv'
<1>1. Sane(r) /\ Shaped
  BY DEF IInv
<1>2. Shaped' /\ \A q \in Requests \ {r} : Untouched(q)
  BY <1>1 DEF Ran, Shaped, Untouched, VoidStaysVoid
<1>3. Sane(r)'
  <2>1. Asks(r)' /\ Owns(r)'
    BY <1>1 DEF Sane, Asks, Owns, At
  <2>2. Awaits(r)'
    BY <1>1 DEF Ran, Shaped, Sane, Awaits, Mutating, At
  <2>3. Consumes(r)'
    BY <1>1 DEF Ran, Shaped, Sane, Asks, Awaits, Consumes, Mutating, At
  <2> QED
    BY <2>1, <2>2, <2>3 DEF Sane
<1>4. \A s \in Semaphores : s \in held'[r] => s \in held[r] \/ Free(s)
  OBVIOUS
<1>5. NoSecondPayment(r)
  BY <1>1 DEF Ran, Shaped, Sane, Awaits, NoSecondPayment, Confirmed, Mutating, At
<1> QED
  BY <1>1, <1>2, <1>3, <1>4, <1>5, StepOfOne

\* The store's own steps never make a void challenge usable again.
LEMMA StoreKeepsVoid ==
    ASSUME Shaped,
           \/ UNCHANGED store
           \/ \E p \in Proofs : Store!Offer(p)
           \/ \E n \in Notes, p \in Proofs, ttl \in Ttls, views \in Views :
                 Store!Admit(n, p, ttl, views)
           \/ \E n \in Notes : Store!Retrieve(n) \/ Store!Revoke(n)
           \/ Store!Pass
           \/ Store!Lose
    PROVE  VoidStaysVoid
<1>1. proof \in [Proofs -> Store!ProofStates]
  BY DEF Shaped
<1>2. CASE UNCHANGED store
  BY <1>1, <1>2 DEF store, VoidStaysVoid
<1>3. ASSUME NEW p \in Proofs, Store!Offer(p) PROVE VoidStaysVoid
  BY <1>1, <1>3 DEF Store!Offer, Store!ProofStates, VoidStaysVoid
<1>4. ASSUME NEW n \in Notes, NEW p \in Proofs, NEW ttl \in Ttls, NEW views \in Views,
             Store!Admit(n, p, ttl, views)
      PROVE  VoidStaysVoid
  BY <1>1, <1>4 DEF Store!Admit, Store!ProofStates, VoidStaysVoid
<1>5. ASSUME NEW n \in Notes, Store!Retrieve(n) \/ Store!Revoke(n) PROVE VoidStaysVoid
  BY <1>1, <1>5 DEF Store!Retrieve, Store!Revoke, VoidStaysVoid
<1>6. CASE Store!Pass
  <2>1. PICK P \in SUBSET Proofs :
          proof' = [p \in Proofs |-> IF p \in P /\ proof[p] = "fresh"
                                     THEN "void" ELSE proof[p]]
    BY <1>6 DEF Store!Pass
  <2> QED
    BY <1>1, <2>1 DEF Store!ProofStates, VoidStaysVoid
<1>7. CASE Store!Lose
  BY <1>1, <1>7 DEF Store!Lose, Store!ProofStates, VoidStaysVoid
<1> QED
  BY <1>2, <1>3, <1>4, <1>5, <1>6, <1>7

LEMMA RunIssueKeepsIInv == ASSUME IInv, NEW r \in Requests, RunIssue(r) PROVE IInv'
<1>1. VoidStaysVoid
  BY StoreKeepsVoid DEF IInv, RunIssue
<1>2. ASSUME NEW reply \in {"ok", "capacity"}, Ran(r, reply) PROVE IInv'
  BY <1>1, <1>2, RunKeepsIInv DEF RunIssue
<1> QED
  BY <1>2 DEF RunIssue

LEMMA RunCreateKeepsIInv == ASSUME IInv, NEW r \in Requests, RunCreate(r) PROVE IInv'
<1>1. task[r] \in Tasks /\ Shaped
  BY DEF IInv, Sane, Asks, Awaits, RunCreate, Mutating
<1>2. CASE UNCHANGED store /\ Ran(r, "rejected")
  <2>1. VoidStaysVoid
    BY <1>1, <1>2, StoreKeepsVoid
  <2> QED
    BY <1>2, <2>1, RunKeepsIInv DEF RunCreate
<1>3. ASSUME NEW ttl \in Ttls, NEW views \in Views,
             Store!Admit(task[r].note, task[r].proof, ttl, views), Ran(r, "ok")
      PROVE  IInv'
  <2>1. task[r].note \in Notes /\ task[r].proof \in Proofs
    BY <1>1 DEF Tasks
  <2>2. VoidStaysVoid
    BY <1>1, <1>3, <2>1, StoreKeepsVoid
  <2>3. proof[task[r].proof] # "void" /\ proof'[task[r].proof] = "void"
    BY <1>1, <1>3, <2>1 DEF Store!Admit, Shaped
  <2> QED
    BY <1>3, <2>2, <2>3, RunKeepsIInv DEF RunCreate
<1> QED
  BY <1>2, <1>3 DEF RunCreate

LEMMA RunOpenKeepsIInv == ASSUME IInv, NEW r \in Requests, RunOpen(r) PROVE IInv'
<1>1. task[r] \in Tasks /\ Shaped
  BY DEF IInv, Sane, Asks, Awaits, RunOpen, Mutating
<1>2. VoidStaysVoid
  <2>1. task[r].note \in Notes
    BY <1>1 DEF Tasks
  <2> QED
    BY <1>1, <2>1, StoreKeepsVoid DEF RunOpen
<1>3. CASE Ran(r, "ok") /\ consumed' = [consumed EXCEPT ![r] = @ + 1]
  BY <1>2, <1>3, RunKeepsIInv DEF RunOpen
<1>4. CASE Ran(r, "unavailable") /\ UNCHANGED consumed
  BY <1>2, <1>4, RunKeepsIInv DEF RunOpen
<1> QED
  BY <1>3, <1>4 DEF RunOpen

LEMMA RunDeleteKeepsIInv == ASSUME IInv, NEW r \in Requests, RunDelete(r) PROVE IInv'
<1>1. task[r] \in Tasks /\ Shaped
  BY DEF IInv, Sane, Asks, Awaits, RunDelete, Mutating
<1>2. VoidStaysVoid
  <2>1. task[r].note \in Notes
    BY <1>1 DEF Tasks
  <2> QED
    BY <1>1, <2>1, StoreKeepsVoid DEF RunDelete
<1>3. ASSUME NEW reply \in {"ok", "unavailable"}, Ran(r, reply) PROVE IInv'
  BY <1>2, <1>3, RunKeepsIInv DEF RunDelete
<1> QED
  BY <1>3 DEF RunDelete

\* What happens outside the process moves no request.
LEMMA OutsideKeepsIInv ==
    ASSUME IInv, UNCHANGED <<pc, task, held, answer, result, consumed>>,
           inflight' \in SUBSET inflight, VoidStaysVoid
    PROVE  IInv'
<1>1. ASSUME NEW r \in Requests PROVE Sane(r)'
  <2>1. Sane(r)
    BY DEF IInv
  <2> QED
    BY <2>1 DEF Sane, Asks, Owns, Awaits, Consumes, At
<1>2. Shaped'
  BY DEF IInv, Shaped, VoidStaysVoid
<1>3. IsFiniteSet(Active)' /\ PermitsBounded'
  BY DEF IInv, Active, PermitsBounded, Holders, At
<1>4. PaidOnce'
  <2>1. \A r \in Requests : Confirmed(r)' <=> Confirmed(r)
    BY DEF Confirmed, At
  <2>2. ASSUME NEW r \in Requests, Confirmed(r) PROVE proof'[task[r].proof] = "void"
    BY <2>2, ConfirmedIsActive DEF IInv, PaidOnce, VoidStaysVoid
  <2> QED
    BY <2>1, <2>2 DEF IInv, PaidOnce
<1> QED
  BY <1>1, <1>2, <1>3, <1>4 DEF IInv

LEMMA InitIInv == Init => IInv
<1> SUFFICES ASSUME Init PROVE IInv
  OBVIOUS
<1>1. Shaped
  BY DEF Init, Shaped, Store!ProofStates
<1>2. ASSUME NEW r \in Requests PROVE Sane(r)
  BY DEF Init, Sane, Asks, Owns, Awaits, Consumes, Places, At, Mutating
<1>3. Active = {} /\ \A s : Holders(s) = {}
  BY DEF Init, Active, Holders, At
<1>4. PermitsBounded
  <2>1. ASSUME NEW s \in Semaphores PROVE Cardinality(Holders(s)) <= Capacity(s)
    <3>1. Holders(s) = {} /\ Capacity(s) \in Nat
      BY <1>3, CapacityType
    <3> QED
      BY <3>1, FS_EmptySet
  <2> QED
    BY <2>1 DEF PermitsBounded
<1>5. PaidOnce
  BY DEF Init, PaidOnce, Confirmed, At
<1> QED
  BY <1>1, <1>2, <1>3, <1>4, <1>5, FS_EmptySet DEF IInv

LEMMA NextKeepsIInv == IInv /\ [Next]_vars => IInv'
<1> SUFFICES ASSUME IInv, [Next]_vars PROVE IInv'
  OBVIOUS
<1>1. ASSUME NEW r \in Requests, NEW t \in Tasks, Arrive(r, t) PROVE IInv'
  BY <1>1, ArriveKeepsIInv
<1>2. ASSUME NEW r \in Requests, Handle(r) PROVE IInv'
  BY <1>2, RatedKeepsIInv, LoadedKeepsIInv, AskKeepsIInv, InspectKeepsIInv,
     AcceptKeepsIInv, UploadedKeepsIInv, ReadKeepsIInv, CheckKeepsIInv,
     OpenKeepsIInv, AnsweredKeepsIInv, CacheFailsKeepsIInv DEF Handle
<1>3. ASSUME NEW r \in Requests, Run(r) PROVE IInv'
  BY <1>3, RunIssueKeepsIInv, RunCreateKeepsIInv, RunOpenKeepsIInv,
     RunDeleteKeepsIInv DEF Run
<1>4. ASSUME NEW r \in Requests, Drop(r) \/ Released(r) PROVE IInv'
  BY <1>4, DropKeepsIInv, ReleasedKeepsIInv
<1>5. CASE Elsewhere
  <2>1. VoidStaysVoid
    BY <1>5, StoreKeepsVoid DEF IInv, Elsewhere
  <2> QED
    BY <1>5, <2>1, OutsideKeepsIInv DEF Elsewhere, local
<1>6. CASE Pass
  <2>1. VoidStaysVoid
    BY <1>6, StoreKeepsVoid DEF IInv, Pass
  <2> QED
    BY <1>6, <2>1, OutsideKeepsIInv DEF Pass, local
<1>7. CASE Lose
  <2>1. VoidStaysVoid
    BY <1>7, StoreKeepsVoid DEF IInv, Lose
  <2> QED
    BY <1>7, <2>1, OutsideKeepsIInv DEF Lose
<1>8. CASE UNCHANGED vars
  <2>1. VoidStaysVoid
    BY <1>8, StoreKeepsVoid DEF IInv, vars
  <2> QED
    BY <1>8, <2>1, OutsideKeepsIInv DEF vars, local
<1> QED
  BY <1>1, <1>2, <1>3, <1>4, <1>5, <1>6, <1>7, <1>8 DEF Next

\* For any number of requests, cancelled at any await, and any store: each holds
\* the permits of the place it is at, no semaphore is overdrawn, and a challenge
\* pays for one creation (lib.rs).
THEOREM ServerInvariant == Spec => []IInv
<1>1. IInv /\ [Next]_vars => IInv'
  BY NextKeepsIInv
<1> QED
  BY <1>1, InitIInv, PTL DEF Spec

-----------------------------------------------------------------------------
(* Results *)

\* Packet-sized buffers stay within max_in_flight, uploads leave a slot to
\* recipients, and permits are owned exactly by the requests that run.
THEOREM BuffersAlwaysBounded == Spec => []BuffersBounded
<1>1. ASSUME IInv PROVE BuffersBounded
  <2> DEFINE creating == {r \in Holders("packets") : task[r].kind = "create"}
  <2>1. Buffering \in SUBSET Holders("packets")
    BY <1>1 DEF IInv, Sane, Owns, Buffering, Holders, At
  <2>2. /\ IsFiniteSet(Holders("packets")) /\ IsFiniteSet(Holders("uploads"))
        /\ Cardinality(Holders("packets")) <= MaxInFlight
        /\ Cardinality(Holders("uploads")) <= MaxInFlight - 1
    BY <1>1, HoldersAreActive DEF IInv, PermitsBounded, Semaphores, Capacity
  <2>3. MaxInFlight \in Int /\ MaxInFlight - 1 \in Int
    BY ServerAssumption
  <2>4. Cardinality(Buffering) <= MaxInFlight
    BY <2>1, <2>2, <2>3, PartIsSmaller
  <2>5. creating \in SUBSET Holders("uploads")
    BY <1>1 DEF IInv, Sane, Asks, Owns, Holders, At, Places, Handling, Class,
       Tasks, Kinds, PublicKinds, AccessKinds
  <2>6. Cardinality(creating) < MaxInFlight
    <3> HIDE DEF creating
    <3>1. Cardinality(creating) <= MaxInFlight - 1
      BY <2>2, <2>3, <2>5, PartIsSmaller
    <3>2. IsFiniteSet(creating)
      BY <2>2, <2>5, FS_Subset
    <3> QED
      BY <2>3, <3>1, <3>2, FS_CardinalityType
  <2>7. ASSUME NEW r \in Requests PROVE held[r] = {} <=> pc[r] \in {"new", "done"}
    BY <1>1 DEF IInv, Sane, Asks, Owns, Places, Handling, At
  <2> QED
    BY <2>4, <2>6, <2>7 DEF BuffersBounded
<1> QED
  BY <1>1, ServerInvariant, PTL

\* However openings are delayed, dropped or answered late, a request consumes at
\* most one retrieval, has consumed it when its packet is written out, and has
\* consumed none when it is turned away.
THEOREM OpeningsAlwaysConsumeOne == Spec => []OneRetrievalPerOpening
<1>1. IInv => OneRetrievalPerOpening
  BY DEF IInv, Sane, Consumes, OneRetrievalPerOpening
<1> QED
  BY <1>1, ServerInvariant, PTL

\* No two creations paid with one challenge are both confirmed.
THEOREM ProofAlwaysConfirmedOnce == Spec => []ConfirmedOncePerProof
<1>1. ASSUME IInv, NEW p \in Proofs
      PROVE  Cardinality({r \in Requests : /\ task[r].kind = "create" /\ task[r].proof = p
                                           /\ result[r] = "ok"}) <= 1
  <2> DEFINE paid == {r \in Requests : /\ task[r].kind = "create" /\ task[r].proof = p
                                       /\ result[r] = "ok"}
  <2>1. \A r, q \in paid : r = q
    BY <1>1 DEF IInv, PaidOnce, Confirmed
  <2> HIDE DEF paid
  <2>2. paid = {} \/ \E r : paid = {r}
    <3>1. CASE paid # {}
      <4>1. PICK r \in paid : TRUE
        BY <3>1
      <4>2. paid = {r}
        BY <2>1, <4>1
      <4> QED
        BY <4>2
    <3> QED
      BY <3>1
  <2>3. Cardinality(paid) <= 1
    BY <2>2, FS_EmptySet, FS_Singleton
  <2> QED
    BY <2>3 DEF paid
<1>2. IInv => ConfirmedOncePerProof
  BY <1>1 DEF ConfirmedOncePerProof
<1> QED
  BY <1>2, ServerInvariant, PTL

\* A recipient turned away at the door finds its class full of recipients.
THEOREM RecipientsNeverCrowdedOut == Spec => RecipientsNotCrowdedOut
<1> DEFINE Served == {q \in Requests : pc[q] \in Handling /\ task[q].kind \in AccessKinds}
<1>1. ASSUME IInv, [Next]_vars, NEW r \in Requests, At(r, "new"),
             result'[r] = "busy", task'[r].kind \in AccessKinds
      PROVE  Cardinality(Served) >= Controls
  <2>1. result[r] = "none"
    BY <1>1 DEF IInv, Sane, Awaits, At
  <2>2. \E t \in Tasks : Arrive(r, t) /\ ~Free(Class(t.kind)) /\ t.kind \in AccessKinds
    <3>1. result' # result /\ Shaped
      BY <1>1, <2>1 DEF IInv
    <3>2. ~(Elsewhere \/ Pass \/ Lose \/ UNCHANGED vars)
      BY <3>1 DEF Elsewhere, Pass, Lose, vars, local
    <3>3. ASSUME NEW q \in Requests, Run(q) PROVE FALSE
      BY <3>1, <3>3 DEF Run, RunIssue, RunCreate, RunOpen, RunDelete
    <3>4. ASSUME NEW q \in Requests, Handle(q) \/ Drop(q) \/ Released(q) PROVE FALSE
      <4>1. ~At(q, "new") /\ \A i \in Requests \ {q} : result'[i] = result[i]
        BY <3>1, <3>4 DEF Handle, Drop, Released, Rated, Loaded, Ask, Inspect, Accept,
           Uploaded, Read, Check, Open, Answered, CacheFails, Finish, At, Handling,
           Mutating, Shaped
      <4> QED
        BY <1>1, <2>1, <4>1
    <3>5. PICK q \in Requests, t \in Tasks : Arrive(q, t)
      BY <1>1, <3>2, <3>3, <3>4 DEF Next
    <3>6. q = r
      BY <1>1, <2>1, <3>1, <3>5 DEF Arrive, Finish, Shaped
    <3> QED
      BY <1>1, <2>1, <3>1, <3>5, <3>6 DEF Arrive, Finish, Shaped
  <2>3. ~Free("access")
    BY <2>2 DEF Class, AccessKinds, PublicKinds
  <2>4. Holders("access") \in SUBSET Served
    BY <1>1 DEF IInv, Sane, Asks, Owns, Holders, Class, Handling, Places, At, AccessKinds, PublicKinds
  <2>5. Served \in SUBSET Active
    BY DEF Active, At, Handling
  <2> HIDE DEF Served
  <2>6. IsFiniteSet(Served) /\ IsFiniteSet(Holders("access"))
    BY <1>1, <2>5, HoldersAreActive, FS_Subset DEF IInv
  <2>7. Cardinality(Holders("access")) <= Cardinality(Served)
    BY <2>4, <2>6, FS_Subset
  <2> QED
    BY <2>3, <2>6, <2>7, FS_CardinalityType, ServerAssumption DEF Free, Capacity
<1>2. IInv /\ [Next]_vars =>
        [\A r \in Requests :
            At(r, "new") /\ result'[r] = "busy" /\ task'[r].kind \in AccessKinds =>
                Cardinality({q \in Requests : /\ pc[q] \in Handling
                                              /\ task[q].kind \in AccessKinds}) >= Controls]_vars
  BY <1>1
<1> QED
  BY <1>2, ServerInvariant, PTL DEF Spec, RecipientsNotCrowdedOut
==============================================================================
