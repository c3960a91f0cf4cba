----------------------------- MODULE NoteLedger -----------------------------
(***************************************************************************)
(* The keys erase.to keeps in its memory-only cache and the Lua scripts    *)
(* that are their only writers (server/src/lua).  A script runs atomically *)
(* with the clock frozen, so each script is one step; between two of them  *)
(* a second may pass, the cache may drop a key whose native deadline has   *)
(* come, and the cache may restart empty.  Any number of API processes     *)
(* call the scripts: a step does not say which.                            *)
(*                                                                         *)
(* The cache is the record db; a script is described by the cache it       *)
(* leaves behind.  0 stands for an absent key, field or member.            *)
(***************************************************************************)
EXTENDS Integers, FiniteSets, FiniteSetsExt

CONSTANTS
    Notes,          \* note identifiers, chosen by creators
    Proofs,         \* challenges; random tokens, so none is issued twice
    Sizes,          \* #packet + #header of the packages offered
    Overhead,       \* bytes charged per note on top of its size (1024)
    Ttls, Views,    \* lifetimes and retrieval counts a header may carry
    ProofLifetime,  \* config.challenge_seconds
    MaxNotes, MaxBytes, MaxChallenges,  \* config limits
    ReapLimit,      \* expired notes released by one script (128)
    Refusable,      \* the writes of create.lua (1..8) the cache may refuse
    Horizon         \* bound: the seconds a behaviour lasts

ASSUME ParametersAssumption ==
    /\ Sizes \subseteq Nat
    /\ Ttls \subseteq Nat \ {0}
    /\ Views \subseteq Nat \ {0}
    /\ {Overhead, ProofLifetime, ReapLimit} \subseteq Nat \ {0}
    /\ {MaxNotes, MaxBytes, MaxChallenges, Horizon} \subseteq Nat
    /\ Refusable \subseteq 1..8

ASSUME FiniteKeysAssumption == IsFiniteSet(Notes) /\ IsFiniteSet(Proofs)

VARIABLES
    now,    \* TIME, in whole seconds
    db,     \* the cache
    tally,  \* history: the retrievals granted and made since a note's creation
    uses,   \* history: the notes each challenge paid for
    issued  \* history: the challenges handed out

vars == <<now, db, tally, uses, issued>>
history == <<tally, uses, issued>>

NoRecord == [expires |-> 0, remaining |-> 0]

EmptyCache ==
    [note    |-> [n \in Notes |-> NoRecord],  \* note:<id>, a hash
     index   |-> [n \in Notes |-> 0],         \* notes, a zset scored by expiry
     charges |-> [n \in Notes |-> 0],         \* charges, a hash
     total   |-> 0,                           \* bytes
     lease   |-> [p \in Proofs |-> 0],        \* challenge:<id>, its expiry
     pending |-> [p \in Proofs |-> 0],        \* challenges, a zset
     spent   |-> [p \in Proofs |-> 0]]        \* spent:<id>, its native expiry

Stored(c, n) == c.note[n].expires > 0
Charged(c) == {n \in Notes : c.charges[n] > 0}
Pending(c) == {p \in Proofs : c.pending[p] > 0}

\* math.max(0, a - b)
Less(a, b) == IF b \in 0..a THEN a - b ELSE 0

-----------------------------------------------------------------------------
(* common.lua *)

\* release_note, for every note of S: its record, index entry and charge go.
Released(c, S) ==
    LET Without(f) == [n \in Notes |-> IF n \in S THEN 0 ELSE f[n]]
    IN [note    |-> [n \in Notes |-> IF n \in S THEN NoRecord ELSE c.note[n]],
        index   |-> Without(c.index),
        charges |-> Without(c.charges),
        total   |-> Less(c.total, MapThenSumSet(LAMBDA n : c.charges[n], S)),
        lease   |-> c.lease, pending |-> c.pending, spent |-> c.spent]

\* Mutant: only notes whose record is still there are reaped.
Due_Stored(c) == {n \in Notes : Stored(c, n) /\ c.index[n] <= now}

\* ZRANGEBYSCORE -inf..now
Due(c) == {n \in Notes : c.index[n] > 0 /\ c.index[n] <= now}

\* reap_notes: the ReapLimit entries due first (ties in any order).
Batches(c) ==
    {S \in SUBSET Due(c) :
        /\ Cardinality(S) = Min({ReapLimit, Cardinality(Due(c))})
        /\ \A a \in S, b \in Due(c) \ S : c.index[a] <= c.index[b]}

\* ZREMRANGEBYSCORE of the challenge index
Purged(c) ==
    [c EXCEPT !.pending = [p \in Proofs |->
                             IF c.pending[p] <= now THEN 0 ELSE c.pending[p]]]

-----------------------------------------------------------------------------
(* issue.lua *)

\* A new challenge, unless too many are pending.  Either of its two writes
\* may be refused, which leaves no lease.
Issue(p) ==
    /\ p \notin issued
    /\ LET c == Purged(db)
           expires == now + ProofLifetime
           full == Cardinality(Pending(c)) >= MaxChallenges
       IN \/ /\ full \/ Refusable # {}
             /\ db' = c
             /\ UNCHANGED issued
          \/ /\ ~full
             /\ db' = [c EXCEPT !.lease[p] = expires, !.pending[p] = expires]
             /\ issued' = issued \cup {p}
    /\ UNCHANGED <<now, tally, uses>>

-----------------------------------------------------------------------------
(* create.lua, inspect_proof.lua *)

\* Neither proof_reused nor proof_invalid; the test inspect_proof.lua also does.
ProofUsable(p) == db.spent[p] = 0 /\ db.lease[p] > now

\* Mutant: no check for an identifier in use.
Conflicts_Never(c, n) == FALSE

\* id_conflict
Conflicts(c, n) == Stored(c, n) \/ c.charges[n] > 0

\* Mutant: one note too many.
OverCapacity_OffByOne(c, charge) ==
    \/ Cardinality(Charged(c)) > MaxNotes
    \/ c.total + charge > MaxBytes

\* The admission limits.
OverCapacity(c, charge) ==
    \/ Cardinality(Charged(c)) >= MaxNotes
    \/ c.total + charge > MaxBytes

\* The first k writes: HSET note, EXPIREAT note, HSET charges, ZADD notes,
\* SET bytes, SET spent, DEL lease, ZREM challenges.
Written(c, k, n, p, charge, record) ==
    LET Put(i, f, key, value) == IF k >= i THEN [f EXCEPT ![key] = value] ELSE f
    IN [note    |-> Put(1, c.note, n, record),
        charges |-> Put(3, c.charges, n, charge),
        index   |-> Put(4, c.index, n, record.expires),
        total   |-> IF k >= 5 THEN c.total + charge ELSE c.total,
        spent   |-> Put(6, c.spent, p, c.lease[p]),
        lease   |-> Put(7, c.lease, p, 0),
        pending |-> Put(8, c.pending, p, 0)]

\* Mutant: nor are the results of spending the challenge looked at.
FinalWrites_Unchecked == {5, 6, 7, 8}

\* The result of the last write is not looked at.
FinalWrites == IF 8 \in Refusable THEN {7, 8} ELSE {8}

\* Mutants: the compensation forgets the total, the index entry, the marker.
RolledBack_KeepsTotal(c, n, p, previous) ==
    [c EXCEPT !.note[n] = NoRecord, !.index[n] = 0, !.charges[n] = 0, !.spent[p] = 0]
RolledBack_KeepsIndex(c, n, p, previous) ==
    [c EXCEPT !.note[n] = NoRecord, !.charges[n] = 0,
              !.total = previous, !.spent[p] = 0]
RolledBack_KeepsSpent(c, n, p, previous) ==
    [c EXCEPT !.note[n] = NoRecord, !.index[n] = 0, !.charges[n] = 0,
              !.total = previous]

\* rollback: explicit compensation; previous is the total read before writing.
RolledBack(c, n, p, previous) ==
    [note    |-> [c.note EXCEPT ![n] = NoRecord],
     index   |-> [c.index EXCEPT ![n] = 0],
     charges |-> [c.charges EXCEPT ![n] = 0],
     total   |-> previous,
     spent   |-> [c.spent EXCEPT ![p] = 0],
     lease   |-> c.lease, pending |-> c.pending]

\* Whatever the outcome, notes that are due have been reaped.
Create(n, p, size, ttl, views) ==
    /\ ProofUsable(p)
    /\ now + ttl <= Horizon
    /\ \E S \in Batches(db) :
         LET c == Released(db, S)
             charge == size + Overhead
             record == [expires |-> now + ttl, remaining |-> views]
             After(k) == Written(c, k, n, p, charge, record)
             turnedAway == Conflicts(c, n) \/ OverCapacity(c, charge)
         IN \/ /\ turnedAway
               /\ db' = c
               /\ UNCHANGED history
            \/ /\ ~turnedAway
               /\ \E k \in Refusable \ {8} :
                     db' = RolledBack(After(k - 1), n, p, c.total)
               /\ UNCHANGED history
            \/ /\ ~turnedAway
               /\ \E k \in FinalWrites : db' = After(k)
               /\ tally' = [tally EXCEPT ![n] = [granted |-> views, opened |-> 0]]
               /\ uses' = [uses EXCEPT ![p] = @ + 1]
               /\ UNCHANGED issued
    /\ UNCHANGED now

-----------------------------------------------------------------------------
(* access.lua *)

Operations == {"meta", "check_open", "open", "delete"}
Capabilities == {"peek", "read", "revoke"}

Required == [meta |-> "peek", check_open |-> "read",
             open |-> "read", delete |-> "revoke"]

\* Mutant: a note is still served in the second it expires.
Expired_Late(c, n) == c.note[n].expires < now

Expired(c, n) == c.note[n].expires <= now

\* Mutant: the last retrieval does not release the note.
Consumed_Kept(c, n) == [c EXCEPT !.note[n].remaining = @ - 1]

\* One retrieval: the last one releases the note.
Consumed(c, n) ==
    IF c.note[n].remaining = 1 THEN Released(c, {n})
    ELSE [c EXCEPT !.note[n].remaining = @ - 1]

\* An operation by someone holding the capability held.  Answers that leave
\* the cache alone (no record, wrong capability, meta, check_open) are no step.
Access(n, operation, held) ==
    LET remaining == db.note[n].remaining
        authorized == held = Required[operation] /\ ~Expired(db, n)
    IN /\ Stored(db, n)
       /\ \/ /\ Expired(db, n) \/ (authorized /\ remaining < 1)
             /\ db' = Released(db, {n})
             /\ UNCHANGED tally
          \/ /\ operation = "delete" /\ authorized /\ remaining >= 1
             /\ db' = Released(db, {n})
             /\ UNCHANGED tally
          \/ /\ operation = "open" /\ authorized /\ remaining >= 1
             /\ db' = Consumed(db, n)
             /\ tally' = [tally EXCEPT ![n].opened = @ + 1]
       /\ UNCHANGED <<now, uses, issued>>

-----------------------------------------------------------------------------
(* reap.lua, called every second by each API process (store.rs) *)

Reap ==
    /\ \E S \in Batches(db) : db' = Purged(Released(db, S))
    /\ UNCHANGED <<now, history>>

-----------------------------------------------------------------------------
(* The cache itself *)

\* At the second a key expires the cache may or may not have dropped it yet.
NativeExpiry ==
    /\ \/ \E n \in Notes : /\ db.note[n].expires = now /\ Stored(db, n)
                           /\ db' = [db EXCEPT !.note[n] = NoRecord]
       \/ \E p \in Proofs : /\ db.lease[p] = now /\ now > 0
                            /\ db' = [db EXCEPT !.lease[p] = 0]
       \/ \E p \in Proofs : /\ db.spent[p] = now /\ now > 0
                            /\ db' = [db EXCEPT !.spent[p] = 0]
    /\ UNCHANGED <<now, history>>

\* One second later no script sees a key whose deadline has passed; index,
\* charges and total have no deadline of their own.
Tick ==
    LET Lapsed(f, keys) == [k \in keys |-> IF f[k] <= now THEN 0 ELSE f[k]]
    IN /\ now < Horizon
       /\ now' = now + 1
       /\ db' = [db EXCEPT
                   !.note  = [n \in Notes |-> IF db.note[n].expires <= now
                                              THEN NoRecord ELSE db.note[n]],
                   !.lease = Lapsed(db.lease, Proofs),
                   !.spent = Lapsed(db.spent, Proofs)]
       /\ UNCHANGED history

\* save "" and appendonly no: a restarted cache is empty.
Restart ==
    /\ db' = EmptyCache
    /\ UNCHANGED <<now, history>>

-----------------------------------------------------------------------------
Init ==
    /\ now = 0
    /\ db = EmptyCache
    /\ tally = [n \in Notes |-> [granted |-> 0, opened |-> 0]]
    /\ uses = [p \in Proofs |-> 0]
    /\ issued = {}

Next ==
    \/ \E p \in Proofs : Issue(p)
    \/ \E n \in Notes, p \in Proofs, size \in Sizes, ttl \in Ttls, views \in Views :
          Create(n, p, size, ttl, views)
    \/ \E n \in Notes, operation \in Operations, held \in Capabilities :
          Access(n, operation, held)
    \/ Reap
    \/ NativeExpiry
    \/ Tick
    \/ Restart

Spec == Init /\ [][Next]_vars

\* store.rs reaps in a loop that nothing ends, and time passes.
Fairness == WF_vars(Reap) /\ WF_vars(Tick)
FairSpec == Spec /\ Fairness
-----------------------------------------------------------------------------
(* Properties *)

Cache == [note    : [Notes -> [expires : Nat, remaining : Nat]],
          index   : [Notes -> Nat],
          charges : [Notes -> Nat],
          total   : Nat,
          lease   : [Proofs -> Nat],
          pending : [Proofs -> Nat],
          spent   : [Proofs -> Nat]]

\* Every value has its type.
TypeOK ==
    /\ now \in Nat
    /\ db \in Cache
    /\ tally \in [Notes -> [granted : Nat, opened : Nat]]
    /\ uses \in [Proofs -> Nat]
    /\ issued \in SUBSET Proofs

\* The byte counter never drifts from the charges it summarises, although three
\* scripts move it by differences and a failed creation puts it back by hand.
Conservation == db.total = MapThenSumSet(LAMBDA n : db.charges[n], Notes)

Agrees(c, n) ==
    /\ c.charges[n] > 0 <=> c.index[n] > 0
    /\ Stored(c, n) => c.index[n] = c.note[n].expires
    /\ c.charges[n] > 0 /\ ~Stored(c, n) => c.index[n] <= now

\* The five keys written for one note agree: a charge and an index entry exist
\* together, a stored note has both and is indexed under its own expiry, and a
\* charge whose note is gone (dropped natively) is already due for reaping, so
\* no quota is ever leaked to a note nobody can release.
LedgerAgreement == \A n \in Notes : Agrees(db, n)

\* The configured limits bound what is charged, expired notes included, and the
\* challenge index bounds the leases a creator can still use, although it is
\* pruned and written separately from them.
WithinBudget ==
    /\ db.total <= MaxBytes
    /\ Cardinality(Charged(db)) <= MaxNotes
    /\ Cardinality({p \in Proofs : db.lease[p] > now}) <= MaxChallenges

\* Every retrieval is paid for by the stored count: what a note has left and
\* what was opened always add up to what its creator granted.
ViewsAccountedFor ==
    \A n \in Notes :
        /\ tally[n].opened <= tally[n].granted
        /\ Stored(db, n) =>
              /\ db.note[n].remaining >= 1
              /\ db.note[n].remaining + tally[n].opened = tally[n].granted

\* A challenge pays for at most one note, and once it has paid it stays
\* unusable, also after its spent marker has expired.
ProofPaysOnce ==
    \A p \in Proofs : uses[p] <= 1 /\ (uses[p] = 1 => ~ProofUsable(p))

\* A creation that is turned away or fails half-way leaves its proof usable: a
\* usable challenge is lost only by paying for a note, to time or to a restart.
ProofIsLost(p) ==
    ProofUsable(p) /\ ~ProofUsable(p)' =>
        uses'[p] = uses[p] + 1 \/ now' > now \/ db' = EmptyCache

\* A note that has not expired disappears only by revocation, by its last
\* retrieval or by a restart: never by reaping, nor by another creation that
\* fails and compensates.
NoteIsLost(n) ==
    db.note[n].expires > now /\ ~Stored(db', n) =>
        \/ tally'[n] # tally[n] /\ tally'[n].opened = tally'[n].granted
        \/ Access(n, "delete", "revoke")
        \/ db' = EmptyCache

\* No usable challenge and no living note is lost without its cause, whatever
\* write of a creation is refused (create.lua:17-26).
LostForCause ==
    [][(\A p \in Proofs : ProofIsLost(p)) /\ (\A n \in Notes : NoteIsLost(n))]_vars

\* Expiry is mandatory: quota that was charged is given back although nobody
\* ever asks for the note again.
EveryChargeReturns == \A n \in Notes : db.charges[n] > 0 ~> db.charges[n] = 0

\* The scripts implement the promise.  A note counts while its expiry lies
\* ahead, so expiry needs no step of the cache, and reaping, native expiry and
\* failed creations change nothing the promise speaks of.
Available(n) == db.note[n].expires > now

Promise == INSTANCE Handoff WITH
    clock    <- now,
    left     <- [n \in Notes |-> IF Available(n) THEN db.note[n].remaining ELSE 0],
    got      <- [n \in Notes |-> tally[n].opened],
    deadline <- [n \in Notes |-> IF Available(n) THEN db.note[n].expires ELSE 0],
    proof    <- [p \in Proofs |-> IF p \notin issued THEN "unissued"
                                 ELSE IF ProofUsable(p) THEN "fresh" ELSE "void"]

KeepsPromise == Promise!Spec
=============================================================================
