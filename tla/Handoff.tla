------------------------------- MODULE Handoff -------------------------------
(***************************************************************************)
(* What erase.to promises of a handoff, with no cache, ledger or server:   *)
(* a stored package can be retrieved at most as often as its creator       *)
(* allowed, never at or after its deadline, never after it was revoked,    *)
(* and every package was paid for by a proof-of-work challenge that pays   *)
(* for nothing else.  NoteLedger implements this specification.            *)
(***************************************************************************)
EXTENDS Integers

CONSTANTS
    Notes,      \* identifiers of packages
    Proofs,     \* challenges; random tokens, so none is ever issued twice
    Ttls,       \* lifetimes, in seconds, a creator may ask for
    Views       \* numbers of retrievals a creator may ask for

VARIABLES
    clock,      \* seconds
    left,       \* retrievals a package still grants; 0: no such package
    got,        \* retrievals made of the package last stored under a name
    deadline,   \* when the package stops being retrievable; 0: no package
    proof       \* what has become of each challenge

vars == <<clock, left, got, deadline, proof>>

ProofStates == {"unissued", "fresh", "void"}

Init ==
    /\ clock = 0
    /\ left = [n \in Notes |-> 0]
    /\ got = [n \in Notes |-> 0]
    /\ deadline = [n \in Notes |-> 0]
    /\ proof = [p \in Proofs |-> "unissued"]

\* The packages in S are gone.
End(S) ==
    /\ left' = [n \in Notes |-> IF n \in S THEN 0 ELSE left[n]]
    /\ deadline' = [n \in Notes |-> IF n \in S THEN 0 ELSE deadline[n]]
    /\ UNCHANGED got

\* A challenge is handed to a creator.
Offer(p) ==
    /\ proof[p] = "unissued"
    /\ proof' = [proof EXCEPT ![p] = "fresh"]
    /\ UNCHANGED <<clock, left, got, deadline>>

\* A package is stored under an unused identifier; it costs one challenge.
Admit(n, p, ttl, views) ==
    /\ left[n] = 0
    /\ proof[p] = "fresh"
    /\ proof' = [proof EXCEPT ![p] = "void"]
    /\ left' = [left EXCEPT ![n] = views]
    /\ got' = [got EXCEPT ![n] = 0]
    /\ deadline' = [deadline EXCEPT ![n] = clock + ttl]
    /\ UNCHANGED clock

\* One retrieval is granted; the last one ends the package.
Retrieve(n) ==
    /\ left[n] > 0
    /\ left' = [left EXCEPT ![n] = @ - 1]
    /\ got' = [got EXCEPT ![n] = @ + 1]
    /\ deadline' = [deadline EXCEPT ![n] = IF left[n] = 1 THEN 0 ELSE @]
    /\ UNCHANGED <<clock, proof>>

\* The creator withdraws a package.
Revoke(n) ==
    /\ left[n] > 0
    /\ End({n})
    /\ UNCHANGED <<clock, proof>>

\* A second passes: what has reached its deadline ends, challenges may lapse.
Pass ==
    /\ clock' = clock + 1
    /\ End({n \in Notes : deadline[n] <= clock'})
    /\ \E P \in SUBSET Proofs :
          proof' = [p \in Proofs |-> IF p \in P /\ proof[p] = "fresh"
                                     THEN "void" ELSE proof[p]]

\* The memory-only cache restarts: every package and challenge is lost.
Lose ==
    /\ End(Notes)
    /\ proof' = [p \in Proofs |-> IF proof[p] = "fresh" THEN "void" ELSE proof[p]]
    /\ UNCHANGED clock

Next ==
    \/ \E p \in Proofs : Offer(p)
    \/ \E n \in Notes, p \in Proofs, ttl \in Ttls, views \in Views :
          Admit(n, p, ttl, views)
    \/ \E n \in Notes : Retrieve(n) \/ Revoke(n)
    \/ Pass
    \/ Lose

Spec == Init /\ [][Next]_vars
=============================================================================
