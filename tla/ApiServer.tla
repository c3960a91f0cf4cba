------------------------------ MODULE ApiServer ------------------------------
(***************************************************************************)
(* One API process (server/src/lib.rs) over the store that Handoff         *)
(* describes.  A handler is a future: between two awaits it runs alone,    *)
(* at each await other handlers, other processes and the cache move, and   *)
(* the guard's timeout or a disconnecting client may drop it.  Permits are *)
(* owned by the future and are released when it ends, except those moved   *)
(* into a response, which live until the last byte of it is released.      *)
(*                                                                         *)
(* A mutating script is sent, run and answered in separate steps, so that  *)
(* it may run after its request was given up, and its answer may be lost.  *)
(***************************************************************************)
EXTENDS Integers, FiniteSets

CONSTANTS
    Requests,     \* HTTP requests, each made once
    Notes, Proofs, Ttls, Views,
    MaxInFlight,  \* config.max_in_flight
    Controls,     \* slots of each control class (max_in_flight.max(8))
    StaticSlots,  \* slots for pages (32)
    Horizon       \* bound: the seconds a behaviour lasts

ASSUME ServerAssumption ==
    /\ MaxInFlight \in Nat /\ MaxInFlight >= 2
    /\ {Controls, StaticSlots} \subseteq Nat \ {0}
    /\ Horizon \in Nat

VARIABLES
    clock, left, got, deadline, proof,  \* the store
    pc,        \* the await each request is at
    task,      \* what it asks for: an endpoint, a note and a challenge
    held,      \* the permits it owns
    inflight,  \* requests whose mutating script has been sent and not run
    answer,    \* what that script answered
    result,    \* the response
    consumed   \* history: retrievals made by the open script of a request

Store == INSTANCE Handoff

store == <<clock, left, got, deadline, proof>>
local == <<pc, task, held, inflight, answer, result, consumed>>
vars == <<store, local>>

PublicKinds == {"config", "challenge", "create"}
AccessKinds == {"meta", "open", "delete"}
Kinds == PublicKinds \cup AccessKinds \cup {"page"}
Tasks == [kind : Kinds, note : Notes, proof : Proofs]

Semaphores == {"public", "access", "static", "uploads", "packets"}

\* Mutant: one class of controls for all.
Class_Shared(k) == IF k = "page" THEN "static" ELSE "public"

\* build_router
Capacity(s) ==
    CASE s = "static" -> StaticSlots
      [] s = "uploads" -> MaxInFlight - 1
      [] s = "packets" -> MaxInFlight
      [] OTHER -> Controls

\* The slots a request enters by.
Class(k) == IF k \in PublicKinds THEN "public"
            ELSE IF k \in AccessKinds THEN "access" ELSE "static"

Holders(s) == {r \in Requests : s \in held[r]}
Free(s) == Cardinality(Holders(s)) < Capacity(s)

\* Awaits of a handler, as opposed to a response being written.
Handling == {"rating", "asking", "issuing", "inspecting", "inspected",
             "uploading", "storing", "reading", "checking", "checked", "opening",
             "deleting", "loading"}

At(r, where) == pc[r] = where
Go(r, to) == pc' = [pc EXCEPT ![r] = to]
Hold(r, permits) == held' = [held EXCEPT ![r] = permits]

\* The future ends: its permits are released.
Finish(r, outcome) ==
    /\ Go(r, "done")
    /\ Hold(r, {})
    /\ result' = [result EXCEPT ![r] = outcome]

\* A mutating script is on its way.
Dispatch(r, at) == Go(r, at) /\ inflight' = inflight \cup {r}

\* The answer was read or nobody is left to read it.
Forget(r) == answer' = [answer EXCEPT ![r] = "none"]

-----------------------------------------------------------------------------
(* Admission: public_admission, access_capability, guard *)

Arrive(r, t) ==
    LET slots == Class(t.kind)
    IN /\ At(r, "new")
       /\ task' = [task EXCEPT ![r] = t]
       /\ \/ /\ Free(slots)
             /\ Hold(r, {slots})
             /\ Go(r, IF t.kind = "page" THEN "loading" ELSE "rating")
             /\ UNCHANGED result
          \/ /\ ~Free(slots)
             /\ Finish(r, "busy")
       /\ UNCHANGED <<store, inflight, answer, consumed>>

\* The bucket of the class admits, or it does not, or the cache does not answer.
Rated(r) ==
    /\ At(r, "rating")
    /\ \/ Finish(r, "limited")
       \/ task[r].kind = "config" /\ Finish(r, "ok")
       \/ /\ task[r].kind # "config"
          /\ Go(r, IF task[r].kind \in AccessKinds THEN "reading" ELSE "asking")
          /\ UNCHANGED <<held, result>>
    /\ UNCHANGED <<store, task, inflight, answer, consumed>>

\* page, health: the permit moves into the response, an error page included.
Loaded(r) ==
    /\ At(r, "loading")
    /\ Go(r, "responding")
    /\ UNCHANGED <<store, task, held, inflight, answer, result, consumed>>

-----------------------------------------------------------------------------
(* challenge, create_note *)

\* The endpoint's own bucket, then issue.lua or inspect_proof.lua.
Ask(r) ==
    /\ At(r, "asking")
    /\ \/ Finish(r, "limited") /\ UNCHANGED inflight
       \/ /\ task[r].kind = "challenge"
          /\ Dispatch(r, "issuing") /\ UNCHANGED <<held, result>>
       \/ /\ task[r].kind = "create"
          /\ Go(r, "inspecting") /\ UNCHANGED <<held, result, inflight>>
    /\ UNCHANGED <<store, task, answer, consumed>>

\* inspect_proof runs; its answer may be stale when the handler resumes.
Inspect(r) ==
    /\ At(r, "inspecting")
    /\ \/ Finish(r, "rejected")
       \/ proof[task[r].proof] = "fresh" /\ Go(r, "inspected") /\ UNCHANGED <<held, result>>
    /\ UNCHANGED <<store, task, inflight, answer, consumed>>

\* Both slots, then the control permit is dropped.
Accept(r) ==
    /\ At(r, "inspected")
    /\ \/ ~(Free("uploads") /\ Free("packets")) /\ Finish(r, "busy")
       \/ /\ Free("uploads") /\ Free("packets")
          /\ Hold(r, {"uploads", "packets"})
          /\ Go(r, "uploading")
          /\ UNCHANGED result
    /\ UNCHANGED <<store, task, inflight, answer, consumed>>

\* The body arrives; parse_packet and verify_work may reject it.
Uploaded(r) ==
    /\ At(r, "uploading")
    /\ \/ Finish(r, "rejected") /\ UNCHANGED inflight
       \/ Dispatch(r, "storing") /\ UNCHANGED <<held, result>>
    /\ UNCHANGED <<store, task, answer, consumed>>

-----------------------------------------------------------------------------
(* metadata, open_note, delete_note *)

\* The capability is read; it has five seconds to arrive.
Read(r) ==
    /\ At(r, "reading")
    /\ \/ \E outcome \in {"rejected", "timeout"} : Finish(r, outcome) /\ UNCHANGED inflight
       \/ task[r].kind = "delete" /\ Dispatch(r, "deleting") /\ UNCHANGED <<held, result>>
       \/ task[r].kind # "delete" /\ Go(r, "checking") /\ UNCHANGED <<held, result, inflight>>
    /\ UNCHANGED <<store, task, answer, consumed>>

\* meta and check_open run; the answer of check_open may be stale when the
\* handler resumes.
Check(r) ==
    /\ At(r, "checking")
    /\ \/ Finish(r, "unavailable")
       \/ left[task[r].note] > 0 /\ task[r].kind = "meta" /\ Finish(r, "ok")
       \/ /\ left[task[r].note] > 0 /\ task[r].kind = "open"
          /\ Go(r, "checked") /\ UNCHANGED <<held, result>>
    /\ UNCHANGED <<store, task, inflight, answer, consumed>>

\* Mutant: a full server turns an opening away after the script was sent.
Open_TooLate(r) ==
    /\ At(r, "checked")
    /\ \/ ~Free("packets") /\ Finish(r, "busy") /\ inflight' = inflight \cup {r}
       \/ Free("packets") /\ Hold(r, {"packets"}) /\ Dispatch(r, "opening") /\ UNCHANGED result
    /\ UNCHANGED <<store, task, answer, consumed>>

\* The packet slot, the release of the control permit, the consuming script.
Open(r) ==
    /\ At(r, "checked")
    /\ \/ ~Free("packets") /\ Finish(r, "busy") /\ UNCHANGED inflight
       \/ Free("packets") /\ Hold(r, {"packets"}) /\ Dispatch(r, "opening") /\ UNCHANGED result
    /\ UNCHANGED <<store, task, answer, consumed>>

-----------------------------------------------------------------------------
(* The store runs the scripts sent to it, also for requests given up. *)

Mutating == {"issuing", "storing", "opening", "deleting"}

\* Nobody receives the answer of a request that was given up.
Ran(r, reply) ==
    /\ inflight' = inflight \ {r}
    /\ answer' = IF pc[r] \in Mutating THEN [answer EXCEPT ![r] = reply] ELSE answer

RunIssue(r) ==
    /\ r \in inflight /\ task[r].kind = "challenge"
    /\ \/ \E p \in Proofs : Store!Offer(p) /\ Ran(r, "ok")
       \/ UNCHANGED store /\ Ran(r, "capacity")
    /\ UNCHANGED <<pc, task, held, result, consumed>>

\* Mutant: a refused creation is confirmed all the same.
RunCreate_Blind(r) ==
    /\ r \in inflight /\ task[r].kind = "create"
    /\ \/ \E ttl \in Ttls, views \in Views :
             Store!Admit(task[r].note, task[r].proof, ttl, views) /\ Ran(r, "ok")
       \/ UNCHANGED store /\ Ran(r, "ok")
    /\ UNCHANGED <<pc, task, held, result, consumed>>

RunCreate(r) ==
    /\ r \in inflight /\ task[r].kind = "create"
    /\ \/ \E ttl \in Ttls, views \in Views :
             Store!Admit(task[r].note, task[r].proof, ttl, views) /\ Ran(r, "ok")
       \/ UNCHANGED store /\ Ran(r, "rejected")
    /\ UNCHANGED <<pc, task, held, result, consumed>>

RunOpen(r) ==
    /\ r \in inflight /\ task[r].kind = "open"
    /\ \/ /\ Store!Retrieve(task[r].note) /\ Ran(r, "ok")
          /\ consumed' = [consumed EXCEPT ![r] = @ + 1]
       \/ /\ left[task[r].note] = 0
          /\ UNCHANGED <<store, consumed>> /\ Ran(r, "unavailable")
    /\ UNCHANGED <<pc, task, held, result>>

RunDelete(r) ==
    /\ r \in inflight /\ task[r].kind = "delete"
    /\ \/ Store!Revoke(task[r].note) /\ Ran(r, "ok")
       \/ left[task[r].note] = 0 /\ UNCHANGED store /\ Ran(r, "unavailable")
    /\ UNCHANGED <<pc, task, held, result, consumed>>

\* Mutant: the packet's permit ends with the handler, not with the response.
Answered_PermitDropped(r) ==
    /\ pc[r] \in Mutating /\ answer[r] # "none"
    /\ IF At(r, "opening") /\ answer[r] = "ok"
       THEN Go(r, "responding") /\ Hold(r, {}) /\ UNCHANGED result
       ELSE Finish(r, answer[r])
    /\ Forget(r) /\ UNCHANGED <<store, task, inflight, consumed>>

\* hold_response: the packet's permit moves into the response.
Answered(r) ==
    /\ pc[r] \in Mutating /\ answer[r] # "none"
    /\ IF At(r, "opening") /\ answer[r] = "ok"
       THEN Go(r, "responding") /\ UNCHANGED <<held, result>>
       ELSE Finish(r, answer[r])
    /\ Forget(r) /\ UNCHANGED <<store, task, inflight, consumed>>

\* The cache's own deadline: an error, whether or not the script ran or will.
CacheFails(r) ==
    /\ pc[r] \in Mutating
    /\ Finish(r, "capacity")
    /\ Forget(r) /\ UNCHANGED <<store, task, inflight, consumed>>

-----------------------------------------------------------------------------
(* The guard's timeout, the client, the transport *)

\* Mutant: an upload may take as long as it likes.
Drop_NotUploads(r) ==
    /\ pc[r] \in Handling \ {"uploading"}
    /\ Finish(r, "dropped")
    /\ Forget(r) /\ UNCHANGED <<store, task, inflight, consumed>>

\* request_timeout passes or the client disconnects: the future is dropped.
Drop(r) ==
    /\ pc[r] \in Handling
    /\ Finish(r, "dropped")
    /\ Forget(r) /\ UNCHANGED <<store, task, inflight, consumed>>

\* The last byte of a response leaves or the connection's lifetime is over.
Released(r) ==
    /\ At(r, "responding")
    /\ Finish(r, "ok")
    /\ UNCHANGED <<store, task, inflight, answer, consumed>>

\* Other API processes use the same cache, time passes, the cache restarts
\* (which also loses the scripts not yet run).
Elsewhere ==
    /\ \E n \in Notes, p \in Proofs, ttl \in Ttls, views \in Views :
          Store!Offer(p) \/ Store!Admit(n, p, ttl, views) \/ Store!Retrieve(n) \/ Store!Revoke(n)
    /\ UNCHANGED local
Pass == clock < Horizon /\ Store!Pass /\ UNCHANGED local
Lose == /\ Store!Lose /\ inflight' = {}
        /\ UNCHANGED <<pc, task, held, answer, result, consumed>>

-----------------------------------------------------------------------------
\* Startup: the cache may already hold notes and challenges.
Init ==
    /\ clock = 0
    /\ left \in [Notes -> {0} \cup Views]
    /\ got = [n \in Notes |-> 0]
    /\ deadline = [n \in Notes |-> IF left[n] > 0 THEN Horizon ELSE 0]
    /\ proof \in [Proofs -> {"unissued", "fresh"}]
    /\ pc = [r \in Requests |-> "new"]
    /\ task \in [Requests -> {CHOOSE t \in Tasks : TRUE}]
    /\ held = [r \in Requests |-> {}]
    /\ inflight = {}
    /\ answer = [r \in Requests |-> "none"]
    /\ result = [r \in Requests |-> "none"]
    /\ consumed = [r \in Requests |-> 0]

Handle(r) ==
    \/ Rated(r) \/ Loaded(r) \/ Ask(r) \/ Inspect(r) \/ Accept(r) \/ Uploaded(r)
    \/ Read(r) \/ Check(r) \/ Open(r) \/ Answered(r) \/ CacheFails(r)

Run(r) == RunIssue(r) \/ RunCreate(r) \/ RunOpen(r) \/ RunDelete(r)

Next ==
    \/ \E r \in Requests :
          \/ \E t \in Tasks : Arrive(r, t)
          \/ Handle(r) \/ Run(r) \/ Drop(r) \/ Released(r)
    \/ Elsewhere \/ Pass \/ Lose

Spec == Init /\ [][Next]_vars

\* guard bounds every handler by request_timeout, DeadlineIo every connection.
Fairness == \A r \in Requests : WF_vars(Drop(r)) /\ WF_vars(Released(r))
FairSpec == Spec /\ Fairness

-----------------------------------------------------------------------------
(* Properties *)

Buffering == {r \in Requests : \/ pc[r] \in {"uploading", "storing", "opening"}
                               \/ At(r, "responding") /\ task[r].kind = "open"}

\* Packet-sized buffers are bounded although responses outlive their handlers:
\* bodies being uploaded or stored and packets being opened or written out
\* never exceed max_in_flight, stalled uploads leave a slot to recipients, and a
\* request owns permits exactly while it runs, however its handler ended.  What
\* the cache connection has yet to write of a dropped command is not counted.
BuffersBounded ==
    /\ Cardinality(Buffering) <= MaxInFlight
    /\ Cardinality({r \in Holders("packets") : task[r].kind = "create"}) < MaxInFlight
    /\ \A r \in Requests : held[r] = {} <=> pc[r] \in {"new", "done"}

\* One request consumes at most one retrieval; a packet is written out only
\* after its retrieval was consumed, and being turned away costs none.
OneRetrievalPerOpening ==
    \A r \in Requests :
        /\ consumed[r] <= 1
        /\ At(r, "responding") /\ task[r].kind = "open" => consumed[r] = 1
        /\ result[r] \in {"busy", "limited", "unavailable"} => consumed[r] = 0

\* A recipient is turned away at the door only when recipients fill their own
\* class, however many creators are being served.
RecipientsNotCrowdedOut ==
    [][\A r \in Requests :
          At(r, "new") /\ result'[r] = "busy" /\ task'[r].kind \in AccessKinds =>
              Cardinality({q \in Requests : /\ pc[q] \in Handling
                                            /\ task[q].kind \in AccessKinds}) >= Controls]_vars

\* A challenge admits one note through this server: no two creations paid with
\* it are both confirmed.
ConfirmedOncePerProof ==
    \A p \in Proofs :
        Cardinality({r \in Requests : /\ task[r].kind = "create" /\ task[r].proof = p
                                      /\ result[r] = "ok"}) <= 1

\* Every request ends and gives its permits back, also when its client stalls.
RequestsEnd == \A r \in Requests : pc[r] \in Handling \cup {"responding"} ~> At(r, "done")
=============================================================================
