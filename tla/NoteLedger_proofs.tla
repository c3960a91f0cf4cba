------------------------- MODULE NoteLedger_proofs --------------------------
(***************************************************************************)
(* Proofs about the ledger scripts, for every value of the constants.      *)
(*                                                                         *)
(* A script composes operators on the cache (release, write, compensate),  *)
(* so the file first says what each operator does to a well-formed cache   *)
(* and then, action by action, that the inductive invariant is kept.       *)
(***************************************************************************)
EXTENDS NoteLedger, FiniteSetTheorems, TLAPS

\* A cache whose keys agree with one another and with the clock.
Sound(c) ==
    /\ c \in Cache
    /\ \A n \in Notes : Agrees(c, n)
    /\ \A n \in Notes : ~Stored(c, n) => c.note[n] = NoRecord
    /\ c.total <= MaxBytes

\* What the history says about one note's record.
CountsAdd(c, n) ==
    Stored(c, n) => /\ c.note[n].remaining >= 1
                    /\ c.note[n].remaining + tally[n].opened = tally[n].granted

\* Why a challenge pays once: paying removes the lease, and a challenge
\* without a lease never gets one back.
PaidHasNoLease(c, p) ==
    /\ uses[p] <= 1
    /\ uses[p] = 1 => c.lease[p] = 0
    /\ p \notin issued => c.lease[p] = 0 /\ uses[p] = 0

IInv ==
    /\ TypeOK
    /\ Sound(db)
    /\ \A n \in Notes : tally[n].opened <= tally[n].granted /\ CountsAdd(db, n)
    /\ \A p \in Proofs : PaidHasNoLease(db, p)

-----------------------------------------------------------------------------
(* Operators on the cache *)

\* max(0, a - b) is a natural number no larger than a, whatever b is.
LEMMA LessBounded ==
    ASSUME NEW a \in Nat, NEW b
    PROVE  Less(a, b) \in Nat /\ Less(a, b) <= a
BY DEF Less

\* What release_note leaves in each key.
LEMMA ReleasedFields ==
    ASSUME NEW c \in Cache, NEW S \in SUBSET Notes
    PROVE  LET d == Released(c, S)
           IN /\ d \in Cache
              /\ \A n \in Notes :
                    /\ d.note[n] = IF n \in S THEN NoRecord ELSE c.note[n]
                    /\ d.index[n] = IF n \in S THEN 0 ELSE c.index[n]
                    /\ d.charges[n] = IF n \in S THEN 0 ELSE c.charges[n]
              /\ d.total <= c.total
              /\ d.lease = c.lease /\ d.pending = c.pending /\ d.spent = c.spent
<1> DEFINE sum == MapThenSumSet(LAMBDA n : c.charges[n], S)
           d == Released(c, S)
<1>1. /\ d.note = [n \in Notes |-> IF n \in S THEN NoRecord ELSE c.note[n]]
      /\ d.index = [n \in Notes |-> IF n \in S THEN 0 ELSE c.index[n]]
      /\ d.charges = [n \in Notes |-> IF n \in S THEN 0 ELSE c.charges[n]]
      /\ d.total = Less(c.total, sum)
      /\ d.lease = c.lease /\ d.pending = c.pending /\ d.spent = c.spent
  BY DEF Released, Cache
<1>2. Less(c.total, sum) \in Nat /\ Less(c.total, sum) <= c.total
  <2>1. c.total \in Nat
    BY DEF Cache
  <2> QED
    BY <2>1, LessBounded
<1>3. d \in Cache
  <2>1. d = [note |-> d.note, index |-> d.index, charges |-> d.charges,
             total |-> d.total, lease |-> d.lease, pending |-> d.pending,
             spent |-> d.spent]
    BY DEF Released, Cache
  <2>2. /\ d.note \in [Notes -> [expires : Nat, remaining : Nat]]
        /\ d.index \in [Notes -> Nat]
        /\ d.charges \in [Notes -> Nat]
    BY <1>1 DEF Cache, NoRecord
  <2>3. /\ d.total \in Nat
        /\ d.lease \in [Proofs -> Nat]
        /\ d.pending \in [Proofs -> Nat]
        /\ d.spent \in [Proofs -> Nat]
    BY <1>1, <1>2 DEF Cache
  <2> QED
    BY <2>1, <2>2, <2>3 DEF Cache
<1> QED
  BY <1>1, <1>2, <1>3

\* Releasing notes, due or not, keeps the keys in agreement.
LEMMA ReleasedSound ==
    ASSUME NEW c, Sound(c), now \in Nat, NEW S \in SUBSET Notes
    PROVE  Sound(Released(c, S))
<1> DEFINE d == Released(c, S)
<1> USE ParametersAssumption
<1>1. c \in Cache
  BY DEF Sound
<1>2. /\ d \in Cache
      /\ \A n \in Notes :
            /\ d.note[n] = IF n \in S THEN NoRecord ELSE c.note[n]
            /\ d.index[n] = IF n \in S THEN 0 ELSE c.index[n]
            /\ d.charges[n] = IF n \in S THEN 0 ELSE c.charges[n]
      /\ d.total <= c.total
  BY <1>1, ReleasedFields
<1> HIDE DEF d
<1>3. d.total <= MaxBytes
  BY <1>1, <1>2 DEF Sound, Cache
<1>4. ASSUME NEW n \in Notes
      PROVE  Agrees(d, n) /\ (~Stored(d, n) => d.note[n] = NoRecord)
  <2>1. Agrees(c, n) /\ (~Stored(c, n) => c.note[n] = NoRecord)
    BY DEF Sound
  <2>2. CASE n \in S
    BY <1>2, <2>2 DEF Agrees, Stored, NoRecord
  <2>3. CASE n \notin S
    BY <1>2, <2>1, <2>3 DEF Agrees, Stored
  <2> QED
    BY <2>2, <2>3
<1> QED
  BY <1>2, <1>3, <1>4 DEF Sound, d

\* Compensation is exact: whichever of the checked writes of create.lua is
\* refused, the rollback gives back the very cache the writes started from.
THEOREM CompensationExact ==
    ASSUME NEW c, Sound(c), now \in Nat,
           NEW n \in Notes, NEW p \in Proofs, ~Conflicts(c, n), c.spent[p] = 0,
           NEW charge \in Nat, NEW record \in [expires : Nat, remaining : Nat],
           NEW k \in 0..6
    PROVE  RolledBack(Written(c, k, n, p, charge, record), n, p, c.total) = c
<1> DEFINE w == Written(c, k, n, p, charge, record)
           r == RolledBack(w, n, p, c.total)
<1>1. c \in Cache
  BY DEF Sound
<1>2. c.note[n] = NoRecord /\ c.charges[n] = 0 /\ c.index[n] = 0
  <2>1. Agrees(c, n) /\ (~Stored(c, n) => c.note[n] = NoRecord)
    BY DEF Sound
  <2>2. c.charges[n] \in Nat /\ c.index[n] \in Nat
    BY <1>1 DEF Cache
  <2> QED
    BY <2>1, <2>2 DEF Agrees, Conflicts
<1>3. r.note = c.note
  <2>1. c.note \in [Notes -> [expires : Nat, remaining : Nat]]
    BY <1>1 DEF Cache
  <2>2. r.note = [w.note EXCEPT ![n] = NoRecord]
    BY DEF RolledBack
  <2>3. w.note = IF k >= 1 THEN [c.note EXCEPT ![n] = record] ELSE c.note
    BY DEF Written
  <2> QED
    BY <1>2, <2>1, <2>2, <2>3
<1>4. r.index = c.index /\ r.charges = c.charges
  <2>1. c.index \in [Notes -> Nat] /\ c.charges \in [Notes -> Nat]
    BY <1>1 DEF Cache
  <2>2. r.index = [w.index EXCEPT ![n] = 0] /\ r.charges = [w.charges EXCEPT ![n] = 0]
    BY DEF RolledBack
  <2>3. /\ w.charges = IF k >= 3 THEN [c.charges EXCEPT ![n] = charge] ELSE c.charges
        /\ w.index = IF k >= 4 THEN [c.index EXCEPT ![n] = record.expires] ELSE c.index
    BY DEF Written
  <2> QED
    BY <1>2, <2>1, <2>2, <2>3
<1>5. r.spent = c.spent
  <2>1. c.spent \in [Proofs -> Nat]
    BY <1>1 DEF Cache
  <2>2. r.spent = [w.spent EXCEPT ![p] = 0]
    BY DEF RolledBack
  <2>3. w.spent = IF k >= 6 THEN [c.spent EXCEPT ![p] = c.lease[p]] ELSE c.spent
    BY DEF Written
  <2> QED
    BY <2>1, <2>2, <2>3
<1>6. r.total = c.total /\ r.lease = c.lease /\ r.pending = c.pending
  BY DEF RolledBack, Written
<1>7. r = [note |-> r.note, index |-> r.index, charges |-> r.charges,
           total |-> r.total, spent |-> r.spent, lease |-> r.lease,
           pending |-> r.pending]
  BY DEF RolledBack
<1>8. c = [note |-> c.note, index |-> c.index, charges |-> c.charges,
           total |-> c.total, spent |-> c.spent, lease |-> c.lease,
           pending |-> c.pending]
  BY <1>1 DEF Cache
<1> QED
  BY <1>3, <1>4, <1>5, <1>6, <1>7, <1>8

\* A creation that completes writes one agreeing set of keys for its note,
\* and takes away the lease of the challenge that paid for it.
LEMMA WrittenFields ==
    ASSUME NEW c, Sound(c), now \in Nat,
           NEW n \in Notes, NEW p \in Proofs,
           NEW charge \in Nat \ {0}, c.total + charge <= MaxBytes,
           NEW record \in [expires : Nat, remaining : Nat], record.expires > 0,
           NEW k \in {7, 8}
    PROVE  LET d == Written(c, k, n, p, charge, record)
           IN /\ Sound(d)
              /\ d.note = [c.note EXCEPT ![n] = record]
              /\ d.lease = [c.lease EXCEPT ![p] = 0]
<1> DEFINE d == Written(c, k, n, p, charge, record)
<1>1. c \in Cache
  BY DEF Sound
<1>2. /\ d.note = [c.note EXCEPT ![n] = record]
      /\ d.charges = [c.charges EXCEPT ![n] = charge]
      /\ d.index = [c.index EXCEPT ![n] = record.expires]
      /\ d.total = c.total + charge
      /\ d.spent = [c.spent EXCEPT ![p] = c.lease[p]]
      /\ d.lease = [c.lease EXCEPT ![p] = 0]
      /\ d.pending = IF k >= 8 THEN [c.pending EXCEPT ![p] = 0] ELSE c.pending
  BY DEF Written
<1>3. d \in Cache
  <2>1. d = [note |-> d.note, index |-> d.index, charges |-> d.charges,
             total |-> d.total, spent |-> d.spent, lease |-> d.lease,
             pending |-> d.pending]
    BY DEF Written
  <2>2. /\ d.note \in [Notes -> [expires : Nat, remaining : Nat]]
        /\ d.index \in [Notes -> Nat] /\ d.charges \in [Notes -> Nat]
        /\ d.total \in Nat
    BY <1>1, <1>2 DEF Cache
  <2>3. /\ d.lease \in [Proofs -> Nat] /\ d.pending \in [Proofs -> Nat]
        /\ d.spent \in [Proofs -> Nat]
    BY <1>1, <1>2 DEF Cache
  <2> HIDE DEF d
  <2> QED
    BY <2>1, <2>2, <2>3 DEF Cache
<1>4. ASSUME NEW m \in Notes
      PROVE  Agrees(d, m) /\ (~Stored(d, m) => d.note[m] = NoRecord)
  <2>1. /\ d.note[m] = IF m = n THEN record ELSE c.note[m]
        /\ d.charges[m] = IF m = n THEN charge ELSE c.charges[m]
        /\ d.index[m] = IF m = n THEN record.expires ELSE c.index[m]
    BY <1>1, <1>2 DEF Cache
  <2>2. Agrees(c, m) /\ (~Stored(c, m) => c.note[m] = NoRecord)
    BY DEF Sound
  <2> HIDE DEF d
  <2>3. CASE m = n
    BY <2>1, <2>3 DEF Agrees, Stored
  <2>4. CASE m # n
    BY <2>1, <2>2, <2>4 DEF Agrees, Stored
  <2> QED
    BY <2>3, <2>4
<1> QED
  BY <1>2, <1>3, <1>4 DEF Sound

\* Pruning the challenge index touches nothing else.
LEMMA PurgedFields ==
    ASSUME NEW c, Sound(c), now \in Nat
    PROVE  /\ Sound(Purged(c))
           /\ Purged(c).note = c.note /\ Purged(c).lease = c.lease
           /\ Purged(c).spent = c.spent
           /\ Purged(c).pending \in [Proofs -> Nat]
<1> DEFINE d == Purged(c)
<1>1. c \in Cache
  BY DEF Sound
<1>2. /\ d \in Cache
      /\ d.note = c.note /\ d.index = c.index /\ d.charges = c.charges
      /\ d.total = c.total /\ d.lease = c.lease /\ d.spent = c.spent
      /\ d.pending \in [Proofs -> Nat]
  BY <1>1 DEF Purged, Cache
<1> HIDE DEF d
<1>3. Sound(d)
  BY <1>2 DEF Sound, Agrees, Stored
<1> QED
  BY <1>2, <1>3 DEF d

\* The reaper's choice is a set of notes.
LEMMA BatchesAreNotes ==
    ASSUME NEW c, NEW S \in Batches(c) PROVE S \in SUBSET Notes
BY DEF Batches, Due

-----------------------------------------------------------------------------
(* Sums of charges.  The library states induction for an operator, which no  *)
(* prover here can instantiate; a smallest counterexample does instead.      *)

SumOf(f, S) == MapThenSumSet(LAMBDA n : f[n], S)
Pick(s) == CHOOSE x \in s : TRUE
Adds(f, g, S) ==
    g = [s \in SUBSET S |-> IF s = {} THEN 0 ELSE f[Pick(s)] + g[s \ {Pick(s)}]]

\* Induction over finite sets, by a smallest counterexample.
LEMMA SmallestSubset ==
    ASSUME NEW S, IsFiniteSet(S), NEW B \in SUBSET (SUBSET S), B # {}
    PROVE  \E T \in B : \A U \in B : U \subseteq T => U = T
<1>1. IsWellFoundedOn(StrictSubsetOrdering(S), SUBSET S)
  BY FS_StrictSubsetOrderingWellFounded, FS_FiniteSubsetsOfFinite
<1>2. PICK T \in B : \A U \in B : ~ (<<U, T>> \in StrictSubsetOrdering(S))
  BY <1>1, WFMin
<1> QED
  BY <1>2 DEF StrictSubsetOrdering

LEMMA SumIsFold ==
    ASSUME NEW f, NEW S
    PROVE  SumOf(f, S) = (CHOOSE g : Adds(f, g, S))[S]
BY DEF SumOf, MapThenSumSet, MapThenFoldSet, Adds, Pick

LEMMA PickIn == ASSUME NEW s, s # {} PROVE Pick(s) \in s
BY DEF Pick

LEMMA AddsUnique ==
    ASSUME NEW f, NEW g, NEW h, NEW S, NEW T, IsFiniteSet(S),
           Adds(f, g, S), Adds(f, h, T), NEW w, w \subseteq S, w \subseteq T
    PROVE  g[w] = h[w]
<1> DEFINE B == {u \in SUBSET S : u \subseteq T /\ g[u] # h[u]}
<1> SUFFICES ASSUME B # {} PROVE FALSE
  OBVIOUS
<1>0. B \in SUBSET (SUBSET S)
  OBVIOUS
<1>1. PICK u \in B : \A v \in B : v \subseteq u => v = u
  <2> HIDE DEF B
  <2> QED
    BY <1>0, SmallestSubset
<1>2. /\ g[u] = IF u = {} THEN 0 ELSE f[Pick(u)] + g[u \ {Pick(u)}]
      /\ h[u] = IF u = {} THEN 0 ELSE f[Pick(u)] + h[u \ {Pick(u)}]
  <2>1. u \in SUBSET S /\ u \in SUBSET T
    OBVIOUS
  <2> HIDE DEF B
  <2> QED
  BY <2>1 DEF Adds
<1>3. u # {}
  BY <1>2
<1>4. g[u \ {Pick(u)}] = h[u \ {Pick(u)}]
  BY <1>1, <1>3, PickIn
<1> QED
  BY <1>2, <1>4

LEMMA AddsExists ==
    ASSUME NEW f, NEW S, IsFiniteSet(S)
    PROVE  \E g : Adds(f, g, S)
<1> DEFINE B == {T \in SUBSET S : ~ \E g : Adds(f, g, T)}
<1> SUFFICES ASSUME B # {} PROVE FALSE
  OBVIOUS
<1>0. B \in SUBSET (SUBSET S)
  OBVIOUS
<1>1. PICK T \in B : \A U \in B : U \subseteq T => U = T
  <2> HIDE DEF B
  <2> QED
    BY <1>0, SmallestSubset
<1> DEFINE Choice(u) == CHOOSE g : Adds(f, g, u)
           Value(u) == Choice(u)[u]
           g == [s \in SUBSET T |-> IF s = {} THEN 0
                                    ELSE f[Pick(s)] + Value(s \ {Pick(s)})]
<1>2. ASSUME NEW u \in SUBSET T, u # T PROVE Adds(f, Choice(u), u)
  <2>1. \E h : Adds(f, h, u)
    BY <1>1, <1>2
  <2> QED
    BY <2>1
<1>3. ASSUME NEW u \in SUBSET T, u # T PROVE g[u] = Value(u)
  <2> DEFINE w == u \ {Pick(u)}
  <2>1. Choice(u)[u] = IF u = {} THEN 0 ELSE f[Pick(u)] + Choice(u)[w]
    <3> HIDE DEF Choice
    <3> QED
      BY <1>2, <1>3 DEF Adds
  <2>2. CASE u = {}
    BY <2>1, <2>2
  <2>3. CASE u # {}
    <3>1. w \in SUBSET T /\ w # T /\ w \subseteq u
      BY <1>3, <2>3, PickIn
    <3>2. IsFiniteSet(u)
      BY FS_Subset
    <3>3. Adds(f, Choice(u), u) /\ Adds(f, Choice(w), w)
      BY <1>2, <1>3, <3>1
    <3>4. Choice(u)[w] = Choice(w)[w]
      <4> HIDE DEF Choice, w
      <4> QED
      BY <3>1, <3>2, <3>3, AddsUnique
    <3> QED
      BY <2>1, <2>3, <3>4
  <2> QED
    BY <2>2, <2>3
<1>4. Adds(f, g, T)
  <2>1. ASSUME NEW s \in SUBSET T, s # {}
        PROVE  g[s \ {Pick(s)}] = Value(s \ {Pick(s)})
    BY <1>3, <2>1, PickIn
  <2>2. g = [s \in SUBSET T |-> IF s = {} THEN 0
                                ELSE f[Pick(s)] + Value(s \ {Pick(s)})]
    OBVIOUS
  <2> HIDE DEF g, Value
  <2> QED
    BY <2>1, <2>2 DEF Adds
<1> QED
  BY <1>4

LEMMA SumStep ==
    ASSUME NEW f, NEW S, IsFiniteSet(S)
    PROVE  SumOf(f, S) = IF S = {} THEN 0
                         ELSE f[Pick(S)] + SumOf(f, S \ {Pick(S)})
<1> DEFINE g == CHOOSE g : Adds(f, g, S)
           w == S \ {Pick(S)}
           h == CHOOSE h : Adds(f, h, w)
<1>1. IsFiniteSet(w) /\ w \subseteq S
  BY FS_RemoveElement
<1>2. Adds(f, g, S) /\ Adds(f, h, w)
  <2>1. (\E i : Adds(f, i, S)) /\ (\E j : Adds(f, j, w))
    BY <1>1, AddsExists
  <2> HIDE DEF w
  <2> QED
    BY <2>1
<1>3. SumOf(f, S) = g[S] /\ SumOf(f, w) = h[w]
  BY SumIsFold
<1> HIDE DEF g, h
<1>4. g[w] = h[w]
  BY <1>1, <1>2, AddsUnique
<1>5. g[S] = IF S = {} THEN 0 ELSE f[Pick(S)] + g[w]
  BY <1>2 DEF Adds
<1> QED
  BY <1>3, <1>4, <1>5

LEMMA SumType ==
    ASSUME NEW D, NEW f \in [D -> Nat], NEW S \in SUBSET D, IsFiniteSet(S)
    PROVE  SumOf(f, S) \in Nat
<1> DEFINE B == {T \in SUBSET S : SumOf(f, T) \notin Nat}
<1> SUFFICES ASSUME B # {} PROVE FALSE
  OBVIOUS
<1>0. B \in SUBSET (SUBSET S)
  OBVIOUS
<1>1. PICK T \in B : \A U \in B : U \subseteq T => U = T
  <2> HIDE DEF B
  <2> QED
    BY <1>0, SmallestSubset
<1>2. IsFiniteSet(T)
  BY FS_Subset
<1>3. SumOf(f, T) = IF T = {} THEN 0 ELSE f[Pick(T)] + SumOf(f, T \ {Pick(T)})
  BY <1>2, SumStep
<1>4. T # {}
  BY <1>3
<1>5. Pick(T) \in T /\ T \in SUBSET S
  BY <1>4, PickIn
<1>6. SumOf(f, T \ {Pick(T)}) \in Nat
  BY <1>1, <1>5
<1>7. f[Pick(T)] \in Nat
  BY <1>5
<1> QED
  BY <1>3, <1>4, <1>6, <1>7

LEMMA SumSplit ==
    ASSUME NEW D, NEW f \in [D -> Nat], NEW S \in SUBSET D, IsFiniteSet(S),
           NEW x \in S
    PROVE  SumOf(f, S) = f[x] + SumOf(f, S \ {x})
<1> DEFINE B == {T \in SUBSET S :
                   \E y \in T : SumOf(f, T) # f[y] + SumOf(f, T \ {y})}
<1> SUFFICES ASSUME B # {} PROVE FALSE
  OBVIOUS
<1>0. B \in SUBSET (SUBSET S)
  OBVIOUS
<1>1. PICK T \in B : \A U \in B : U \subseteq T => U = T
  <2> HIDE DEF B
  <2> QED
    BY <1>0, SmallestSubset
<1>2. PICK y \in T : SumOf(f, T) # f[y] + SumOf(f, T \ {y})
  OBVIOUS
<1> DEFINE p == Pick(T)
           R == T \ {p, y}
<1>3. p \in T /\ T \in SUBSET S /\ IsFiniteSet(T) /\ IsFiniteSet(R)
      /\ IsFiniteSet(T \ {p}) /\ IsFiniteSet(T \ {y})
  BY PickIn, FS_Subset
<1>4. SumOf(f, T) = f[p] + SumOf(f, T \ {p})
  BY <1>2, <1>3, SumStep
<1>5. y # p
  BY <1>2, <1>4
<1>6. SumOf(f, T \ {p}) = f[y] + SumOf(f, R)
  <2>1. T \ {p} \notin B
    BY <1>1, <1>3
  <2>2. (T \ {p}) \ {y} = R /\ y \in T \ {p}
    BY <1>5
  <2> QED
    BY <1>3, <2>1, <2>2
<1>7. SumOf(f, T \ {y}) = f[p] + SumOf(f, R)
  <2>1. T \ {y} \notin B
    BY <1>1, <1>2
  <2>2. (T \ {y}) \ {p} = R /\ p \in T \ {y}
    BY <1>3, <1>5
  <2> QED
    BY <1>3, <2>1, <2>2
<1>8. f[p] \in Nat /\ f[y] \in Nat /\ SumOf(f, R) \in Nat
  BY <1>3, SumType
<1> HIDE DEF p, R, B
<1> QED
  BY <1>2, <1>4, <1>6, <1>7, <1>8

LEMMA SumSame ==
    ASSUME NEW f, NEW g, NEW S, IsFiniteSet(S), \A x \in S : f[x] = g[x]
    PROVE  SumOf(f, S) = SumOf(g, S)
<1> DEFINE B == {T \in SUBSET S : SumOf(f, T) # SumOf(g, T)}
<1> SUFFICES ASSUME B # {} PROVE FALSE
  OBVIOUS
<1>0. B \in SUBSET (SUBSET S)
  OBVIOUS
<1>1. PICK T \in B : \A U \in B : U \subseteq T => U = T
  <2> HIDE DEF B
  <2> QED
    BY <1>0, SmallestSubset
<1>2. IsFiniteSet(T)
  BY FS_Subset
<1>3. /\ SumOf(f, T) = IF T = {} THEN 0 ELSE f[Pick(T)] + SumOf(f, T \ {Pick(T)})
      /\ SumOf(g, T) = IF T = {} THEN 0 ELSE g[Pick(T)] + SumOf(g, T \ {Pick(T)})
  BY <1>2, SumStep
<1>4. T # {}
  BY <1>3
<1>5. Pick(T) \in T
  BY <1>4, PickIn
<1>6. SumOf(f, T \ {Pick(T)}) = SumOf(g, T \ {Pick(T)})
  BY <1>1, <1>5
<1> QED
  BY <1>3, <1>4, <1>5, <1>6

LEMMA SumUpdate ==
    ASSUME NEW D, IsFiniteSet(D), NEW f \in [D -> Nat], NEW n \in D, NEW v \in Nat
    PROVE  SumOf([f EXCEPT ![n] = v], D) + f[n] = SumOf(f, D) + v
<1> DEFINE g == [f EXCEPT ![n] = v]
           R == D \ {n}
<1>1. g \in [D -> Nat] /\ g[n] = v /\ \A x \in R : f[x] = g[x]
  OBVIOUS
<1>2. IsFiniteSet(R) /\ R \in SUBSET D
  BY FS_RemoveElement
<1> HIDE DEF g
<1>3. SumOf(f, D) = f[n] + SumOf(f, R) /\ SumOf(g, D) = g[n] + SumOf(g, R)
  BY <1>1, SumSplit
<1>4. SumOf(f, R) = SumOf(g, R) /\ SumOf(f, R) \in Nat
  BY <1>1, <1>2, SumSame, SumType
<1>5. f[n] \in Nat
  OBVIOUS
<1>6. SumOf(g, D) + f[n] = SumOf(f, D) + v
  BY <1>1, <1>3, <1>4, <1>5
<1> QED
  BY <1>6 DEF g

LEMMA SumRemoved ==
    ASSUME NEW D, IsFiniteSet(D), NEW f \in [D -> Nat], NEW S \in SUBSET D
    PROVE  LET h == [x \in D |-> IF x \in S THEN 0 ELSE f[x]]
           IN /\ SumOf(f, S) \in Nat /\ SumOf(h, D) \in Nat
              /\ SumOf(f, D) = SumOf(f, S) + SumOf(h, D)
<1> DEFINE Rest(T) == [x \in D |-> IF x \in T THEN 0 ELSE f[x]]
           B == {T \in SUBSET D : SumOf(f, D) # SumOf(f, T) + SumOf(Rest(T), D)}
<1>1. ASSUME NEW T \in SUBSET D
      PROVE  SumOf(f, T) \in Nat /\ SumOf(Rest(T), D) \in Nat /\ Rest(T) \in [D -> Nat]
  <2>1. Rest(T) \in [D -> Nat]
    OBVIOUS
  <2>2. IsFiniteSet(T)
    BY FS_Subset
  <2> HIDE DEF Rest
  <2> QED
    BY <2>1, <2>2, SumType
<1>2. SUFFICES ASSUME B # {} PROVE FALSE
  BY <1>1
<1>3. B \in SUBSET (SUBSET D)
  OBVIOUS
<1>4. PICK T \in B : \A U \in B : U \subseteq T => U = T
  <2> HIDE DEF B
  <2> QED
    BY <1>2, <1>3, SmallestSubset
<1>5. T \in SUBSET D /\ SumOf(f, T) \in Nat /\ SumOf(f, D) \in Nat
  BY <1>1, SumType
<1>6. CASE T = {}
  <2>1. Rest(T) = f
    BY <1>6
  <2>2. SumOf(f, T) = 0
    BY <1>6, FS_EmptySet, SumStep
  <2> QED
    BY <1>5, <2>1, <2>2
<1>7. ASSUME NEW n \in T PROVE FALSE
  <2> DEFINE U == T \ {n}
  <2>1. U \in SUBSET D /\ SumOf(f, D) = SumOf(f, U) + SumOf(Rest(U), D)
    BY <1>4
  <2>2. SumOf(f, T) = f[n] + SumOf(f, U)
    <3>1. IsFiniteSet(T)
      BY <1>5, FS_Subset
    <3> HIDE DEF B
    <3> QED
      BY <1>5, <3>1, SumSplit
  <2>3. Rest(T) = [Rest(U) EXCEPT ![n] = 0] /\ Rest(U)[n] = f[n]
    BY <1>5
  <2>4. SumOf([Rest(U) EXCEPT ![n] = 0], D) + Rest(U)[n] = SumOf(Rest(U), D) + 0
    <3>1. Rest(U) \in [D -> Nat] /\ n \in D
      BY <1>1, <1>5
    <3> HIDE DEF Rest, U, B
    <3> QED
      BY <3>1, SumUpdate
  <2>5. /\ f[n] \in Nat /\ SumOf(f, U) \in Nat /\ SumOf(Rest(U), D) \in Nat
        /\ SumOf(Rest(T), D) \in Nat
    BY <1>1, <1>5, <2>1
  <2>6. SumOf(f, D) = SumOf(f, T) + SumOf(Rest(T), D)
    <3> HIDE DEF Rest, U, B
    <3> QED
      BY <1>5, <2>1, <2>2, <2>3, <2>4, <2>5
  <2> QED
    BY <2>6
<1> QED
  BY <1>6, <1>7

\* No charges, no total.
LEMMA EmptySum ==
    ASSUME NEW D, IsFiniteSet(D) PROVE SumOf([n \in D |-> 0], D) = 0
<1> DEFINE f == [n \in D |-> 0]
           g == [n \in D |-> IF n \in D THEN 0 ELSE f[n]]
<1>1. f \in [D -> Nat] /\ D \in SUBSET D /\ g = f
  OBVIOUS
<1>2. SumOf(f, D) \in Nat /\ SumOf(f, D) = SumOf(f, D) + SumOf(g, D)
  <2> HIDE DEF f
  <2> QED
    BY <1>1, SumRemoved
<1>3. SumOf(g, D) = SumOf(f, D)
  BY <1>1
<1>4. \A a, b \in Nat : a = a + b /\ b = a => a = 0
  OBVIOUS
<1> HIDE DEF f, g
<1>5. SumOf(f, D) = 0
  BY <1>2, <1>3, <1>4
<1> QED
  BY <1>5 DEF f

-----------------------------------------------------------------------------
(* The inductive invariant *)

\* The parts of IInv that speak of a cache, said of the cache c.
Good(c) ==
    /\ Sound(c)
    /\ \A n \in Notes : CountsAdd(c, n)
    /\ \A p \in Proofs : PaidHasNoLease(c, p)

\* Releasing notes and pruning challenges keep the history explained.
LEMMA ReleasedGood ==
    ASSUME NEW c, Good(c), now \in Nat, NEW S \in SUBSET Notes
    PROVE  /\ Good(Released(c, S))
           /\ Released(c, S).lease = c.lease /\ Released(c, S).spent = c.spent
<1> DEFINE d == Released(c, S)
<1>1. Sound(d)
  BY ReleasedSound DEF Good
<1>2. c \in Cache
  BY DEF Good, Sound
<1>3. /\ \A n \in Notes : d.note[n] = IF n \in S THEN NoRecord ELSE c.note[n]
      /\ d.lease = c.lease /\ d.spent = c.spent
  BY <1>2, ReleasedFields
<1> HIDE DEF d
<1>4. ASSUME NEW n \in Notes PROVE CountsAdd(d, n)
  BY <1>3 DEF Good, CountsAdd, Stored, NoRecord
<1>5. ASSUME NEW p \in Proofs PROVE PaidHasNoLease(d, p)
  BY <1>3 DEF Good, PaidHasNoLease
<1> QED
  BY <1>1, <1>3, <1>4, <1>5 DEF Good, d

LEMMA PurgedGood ==
    ASSUME NEW c, Good(c), now \in Nat
    PROVE  Good(Purged(c))
BY PurgedFields DEF Good, CountsAdd, PaidHasNoLease, Stored

\* A step that leaves clock and history alone and a good cache behind.
LEMMA GoodStep ==
    ASSUME IInv, UNCHANGED <<now, history>>, Good(db')
    PROVE  IInv'
<1>1. TypeOK'
  BY DEF IInv, TypeOK, Good, Sound, history
<1>2. Sound(db)'
  BY DEF Good, Sound, Agrees
<1>3. (\A n \in Notes : tally[n].opened <= tally[n].granted /\ CountsAdd(db, n))'
  BY DEF IInv, Good, CountsAdd, history
<1>4. (\A p \in Proofs : PaidHasNoLease(db, p))'
  BY DEF Good, PaidHasNoLease, history
<1> QED
  BY <1>1, <1>2, <1>3, <1>4 DEF IInv

LEMMA IInvGood == IInv => Good(db) /\ now \in Nat /\ db \in Cache
BY DEF IInv, Good, TypeOK

LEMMA InitIInv == Init => IInv
<1> SUFFICES ASSUME Init PROVE IInv
  OBVIOUS
<1> USE ParametersAssumption
<1>1. db \in Cache
  BY DEF Init, EmptyCache, Cache, NoRecord
<1>2. TypeOK
  BY <1>1 DEF Init, TypeOK
<1>3. Sound(db)
  BY <1>1 DEF Init, EmptyCache, Sound, Agrees, Stored, NoRecord
<1>4. \A n \in Notes : tally[n].opened <= tally[n].granted /\ CountsAdd(db, n)
  BY DEF Init, EmptyCache, CountsAdd, Stored, NoRecord
<1>5. \A p \in Proofs : PaidHasNoLease(db, p)
  BY DEF Init, EmptyCache, PaidHasNoLease
<1> QED
  BY <1>2, <1>3, <1>4, <1>5 DEF IInv

LEMMA IssueKeepsIInv ==
    ASSUME IInv, NEW p \in Proofs, Issue(p) PROVE IInv'
<1> USE ParametersAssumption
<1> DEFINE c == Purged(db)
           expires == now + ProofLifetime
<1>1. Good(db) /\ now \in Nat /\ db \in Cache
  BY IInvGood
<1>2. Good(c) /\ c \in Cache
  BY <1>1, PurgedGood DEF Good, Sound
<1>3. CASE db' = c /\ UNCHANGED issued
  BY <1>2, <1>3, GoodStep DEF Issue, history
<1>4. CASE /\ db' = [c EXCEPT !.lease[p] = expires, !.pending[p] = expires]
           /\ issued' = issued \cup {p}
  <2> HIDE DEF c
  <2>1. UNCHANGED <<now, tally, uses>> /\ p \notin issued /\ expires \in Nat
    BY <1>1 DEF Issue
  <2>2. /\ db' \in Cache
        /\ db'.note = c.note /\ db'.index = c.index /\ db'.charges = c.charges
        /\ db'.total = c.total /\ db'.lease = [c.lease EXCEPT ![p] = expires]
    <3> HIDE DEF expires
    <3> QED
      BY <1>2, <1>4, <2>1 DEF Cache
  <2>3. TypeOK'
    BY <2>1, <2>2, <1>4 DEF IInv, TypeOK
  <2>4. Sound(db)'
    BY <1>2, <2>1, <2>2 DEF Good, Sound, Agrees, Stored
  <2>5. (\A n \in Notes : tally[n].opened <= tally[n].granted /\ CountsAdd(db, n))'
    BY <1>2, <2>1, <2>2 DEF Good, IInv, CountsAdd, Stored
  <2>6. ASSUME NEW q \in Proofs PROVE PaidHasNoLease(db, q)'
    <3>1. c.lease \in [Proofs -> Nat]
      BY <1>2 DEF Cache
    <3>2. PaidHasNoLease(c, q)
      BY <1>2 DEF Good
    <3>3. CASE q = p
      BY <1>4, <2>1, <3>2, <3>3 DEF PaidHasNoLease
    <3>4. CASE q # p
      BY <1>4, <2>1, <2>2, <3>1, <3>2, <3>4 DEF PaidHasNoLease
    <3> QED
      BY <3>3, <3>4
  <2> QED
    BY <2>3, <2>4, <2>5, <2>6 DEF IInv
<1> QED
  BY <1>3, <1>4 DEF Issue

\* A creation reaps; beyond that it does nothing, also when a write is refused,
\* or everything.
LEMMA CreateOutcomes ==
    ASSUME IInv, NEW n \in Notes, NEW p \in Proofs, NEW size \in Sizes,
           NEW ttl \in Ttls, NEW views \in Views, Create(n, p, size, ttl, views)
    PROVE  \E S \in Batches(db) :
             LET c == Released(db, S)
                 charge == size + Overhead
                 record == [expires |-> now + ttl, remaining |-> views]
             IN \/ db' = c /\ UNCHANGED <<now, history>>
                \/ /\ ~Conflicts(c, n) /\ ~OverCapacity(c, charge)
                   /\ \E k \in {7, 8} : db' = Written(c, k, n, p, charge, record)
                   /\ tally' = [tally EXCEPT ![n] = [granted |-> views, opened |-> 0]]
                   /\ uses' = [uses EXCEPT ![p] = @ + 1]
                   /\ UNCHANGED <<now, issued>>
<1> USE ParametersAssumption
<1> DEFINE charge == size + Overhead
           record == [expires |-> now + ttl, remaining |-> views]
<1>1. Good(db) /\ now \in Nat /\ db \in Cache
  BY IInvGood
<1>2. PICK S \in Batches(db) :
        LET c == Released(db, S)
            After(k) == Written(c, k, n, p, charge, record)
            turnedAway == Conflicts(c, n) \/ OverCapacity(c, charge)
        IN \/ turnedAway /\ db' = c /\ UNCHANGED history
           \/ /\ ~turnedAway
              /\ \E k \in Refusable \ {8} :
                    db' = RolledBack(After(k - 1), n, p, c.total)
              /\ UNCHANGED history
           \/ /\ ~turnedAway
              /\ \E k \in FinalWrites : db' = After(k)
              /\ tally' = [tally EXCEPT ![n] = [granted |-> views, opened |-> 0]]
              /\ uses' = [uses EXCEPT ![p] = @ + 1]
              /\ UNCHANGED issued
  BY DEF Create
<1> DEFINE c == Released(db, S)
<1>3. Sound(c) /\ c.spent = db.spent
  BY <1>1, BatchesAreNotes, ReleasedGood DEF Good
<1>4. /\ c.spent[p] = 0 /\ now' = now /\ charge \in Nat
      /\ record \in [expires : Nat, remaining : Nat]
  BY <1>1, <1>3 DEF Create, ProofUsable
<1> HIDE DEF c, charge, record
<1>5. CASE db' = c /\ UNCHANGED history
  BY <1>4, <1>5 DEF c
<1>6. CASE /\ ~Conflicts(c, n) /\ UNCHANGED history
           /\ \E k \in Refusable \ {8} :
                 db' = RolledBack(Written(c, k - 1, n, p, charge, record), n, p, c.total)
  <2>1. PICK k \in Refusable \ {8} :
          db' = RolledBack(Written(c, k - 1, n, p, charge, record), n, p, c.total)
    BY <1>6
  <2>2. k - 1 \in 0..6
    OBVIOUS
  <2>3. db' = c
    BY <1>1, <1>3, <1>4, <1>6, <2>1, <2>2, CompensationExact
  <2> QED
    BY <1>4, <1>6, <2>3 DEF c
<1>7. CASE /\ ~Conflicts(c, n) /\ ~OverCapacity(c, charge)
           /\ \E k \in FinalWrites : db' = Written(c, k, n, p, charge, record)
           /\ tally' = [tally EXCEPT ![n] = [granted |-> views, opened |-> 0]]
           /\ uses' = [uses EXCEPT ![p] = @ + 1]
           /\ UNCHANGED issued
  <2>1. \E k \in {7, 8} : db' = Written(c, k, n, p, charge, record)
    BY <1>7 DEF FinalWrites
  <2> QED
    BY <1>4, <1>7, <2>1 DEF c, charge, record
<1> QED
  BY <1>2, <1>5, <1>6, <1>7 DEF c, charge, record

LEMMA CreateKeepsIInv ==
    ASSUME IInv, NEW n \in Notes, NEW p \in Proofs, NEW size \in Sizes,
           NEW ttl \in Ttls, NEW views \in Views, Create(n, p, size, ttl, views)
    PROVE  IInv'
<1> USE ParametersAssumption
<1> DEFINE charge == size + Overhead
           record == [expires |-> now + ttl, remaining |-> views]
<1>1. Good(db) /\ now \in Nat /\ db \in Cache
  BY IInvGood
<1>2. PICK S \in Batches(db) :
        LET c == Released(db, S)
        IN \/ db' = c /\ UNCHANGED <<now, history>>
           \/ /\ ~Conflicts(c, n) /\ ~OverCapacity(c, charge)
              /\ \E k \in {7, 8} : db' = Written(c, k, n, p, charge, record)
              /\ tally' = [tally EXCEPT ![n] = [granted |-> views, opened |-> 0]]
              /\ uses' = [uses EXCEPT ![p] = @ + 1]
              /\ UNCHANGED <<now, issued>>
  BY CreateOutcomes
<1> DEFINE c == Released(db, S)
<1>3. Good(c) /\ c \in Cache /\ c.lease = db.lease /\ c.spent = db.spent
  BY <1>1, BatchesAreNotes, ReleasedGood DEF Good, Sound
<1> HIDE DEF c
<1>4. /\ db.lease[p] > now /\ db.spent[p] = 0 /\ now' = now
      /\ charge \in Nat \ {0} /\ record.expires > now /\ views \in Nat \ {0}
      /\ record \in [expires : Nat, remaining : Nat]
  BY <1>1 DEF Create, ProofUsable
<1>5. CASE db' = c /\ UNCHANGED <<now, history>>
  BY <1>3, <1>4, <1>5, GoodStep
<1>6. CASE /\ ~Conflicts(c, n) /\ ~OverCapacity(c, charge)
           /\ \E k \in {7, 8} : db' = Written(c, k, n, p, charge, record)
           /\ tally' = [tally EXCEPT ![n] = [granted |-> views, opened |-> 0]]
           /\ uses' = [uses EXCEPT ![p] = @ + 1]
           /\ UNCHANGED <<now, issued>>
  <2>1. PICK k \in {7, 8} : db' = Written(c, k, n, p, charge, record)
    BY <1>6
  <2>2. c.total + charge <= MaxBytes
    <3>1. c.total \in Nat
      BY <1>3 DEF Cache
    <3> QED
      BY <1>4, <1>6, <3>1 DEF OverCapacity
  <2>3. record.remaining = views /\ record.expires > 0
    BY <1>1, <1>4
  <2> HIDE DEF charge, record
  <2>4. /\ Sound(db')
        /\ db'.note = [c.note EXCEPT ![n] = record]
        /\ db'.lease = [c.lease EXCEPT ![p] = 0]
    BY <1>1, <1>3, <1>4, <2>1, <2>2, <2>3, WrittenFields DEF Good
  <2>5. TypeOK'
    BY <1>4, <1>6, <2>4 DEF IInv, TypeOK, Sound
  <2>6. Sound(db)'
    BY <1>4, <2>4 DEF Sound, Agrees
  <2>7. ASSUME NEW m \in Notes
        PROVE  tally'[m].opened <= tally'[m].granted /\ CountsAdd(db, m)'
    <3>1. CountsAdd(c, m) /\ tally[m].opened <= tally[m].granted
      BY <1>3 DEF Good, IInv
    <3>2. tally'[m] = IF m = n THEN [granted |-> views, opened |-> 0] ELSE tally[m]
      BY <1>6 DEF IInv, TypeOK
    <3>3. db'.note[m] = IF m = n THEN record ELSE c.note[m]
      BY <1>3, <2>4 DEF Cache
    <3>4. CASE m = n
      BY <1>4, <2>3, <3>2, <3>3, <3>4 DEF CountsAdd
    <3>5. CASE m # n
      BY <3>1, <3>2, <3>3, <3>5 DEF CountsAdd, Stored
    <3> QED
      BY <3>4, <3>5
  <2>8. ASSUME NEW q \in Proofs PROVE PaidHasNoLease(db, q)'
    <3>1. PaidHasNoLease(c, q) /\ PaidHasNoLease(c, p)
      BY <1>3 DEF Good
    <3>2. uses[p] = 0 /\ p \in issued
      <4>1. uses[p] \in Nat
        BY DEF IInv, TypeOK
      <4> QED
        BY <1>1, <1>3, <1>4, <3>1, <4>1 DEF PaidHasNoLease
    <3>3. uses'[q] = IF q = p THEN uses[p] + 1 ELSE uses[q]
      BY <1>6 DEF IInv, TypeOK
    <3>4. db'.lease[q] = IF q = p THEN 0 ELSE c.lease[q]
      BY <1>3, <2>4 DEF Cache
    <3> QED
      BY <1>6, <3>1, <3>2, <3>3, <3>4 DEF PaidHasNoLease
  <2> QED
    BY <2>5, <2>6, <2>7, <2>8 DEF IInv
<1> QED
  BY <1>2, <1>5, <1>6 DEF c

LEMMA AccessKeepsIInv ==
    ASSUME IInv, NEW n \in Notes, NEW operation \in Operations,
           NEW held \in Capabilities, Access(n, operation, held)
    PROVE  IInv'
<1>1. Good(db) /\ now \in Nat /\ db \in Cache
  BY IInvGood
<1>2. Stored(db, n) /\ UNCHANGED <<now, uses, issued>>
  BY DEF Access
<1>3. CASE db' = Released(db, {n}) /\ UNCHANGED tally
  BY <1>1, <1>2, <1>3, ReleasedGood, GoodStep DEF history
<1>4. CASE db' = Consumed(db, n) /\ tally' = [tally EXCEPT ![n].opened = @ + 1]
  <2> DEFINE left == db.note[n].remaining
  <2>1. /\ left \in Nat \ {0}
        /\ left + tally[n].opened = tally[n].granted
        /\ db.note \in [Notes -> [expires : Nat, remaining : Nat]]
    BY <1>1, <1>2 DEF Good, CountsAdd, Cache
  <2>2. /\ tally \in [Notes -> [granted : Nat, opened : Nat]]
        /\ \A m \in Notes : tally[m].opened <= tally[m].granted
    BY DEF IInv, TypeOK
  <2>3. /\ tally' \in [Notes -> [granted : Nat, opened : Nat]]
        /\ \A m \in Notes \ {n} : tally'[m] = tally[m]
        /\ tally'[n].granted = tally[n].granted
        /\ tally'[n].opened = tally[n].opened + 1
    BY <1>4, <2>2
  <2>4. \A m \in Notes : tally'[m].opened <= tally'[m].granted
    <3>1. tally[n].opened \in Nat /\ tally[n].granted \in Nat
      BY <2>2
    <3> HIDE DEF left
    <3>2. tally'[n].opened <= tally'[n].granted
      BY <2>1, <2>3, <3>1
    <3>3. \A m \in Notes \ {n} : tally'[m].opened <= tally'[m].granted
      BY <2>2, <2>3
    <3> QED
      BY <3>2, <3>3
  <2>5. /\ Sound(db') /\ db'.lease = db.lease
        /\ \A m \in Notes \ {n} : db'.note[m] = db.note[m]
        /\ Stored(db', n) => /\ left > 1
                            /\ db'.note[n].remaining = left - 1
    <3>1. CASE left = 1
      <4>1. db' = Released(db, {n})
        BY <1>4, <3>1 DEF Consumed
      <4>2. /\ \A m \in Notes :
                  db'.note[m] = IF m \in {n} THEN NoRecord ELSE db.note[m]
            /\ db'.lease = db.lease
        BY <1>1, <4>1, ReleasedFields
      <4> QED
        BY <1>1, <4>1, <4>2, ReleasedSound DEF Good, Stored, NoRecord
    <3>2. CASE left # 1
      <4>1. db' = [db EXCEPT !.note[n].remaining = left - 1]
        BY <1>4, <3>2 DEF Consumed
      <4>2. left - 1 \in Nat /\ left > 1
        BY <2>1, <3>2
      <4> HIDE DEF left
      <4>3. /\ db' \in Cache
            /\ db'.note = [db.note EXCEPT ![n].remaining = left - 1]
            /\ db'.index = db.index /\ db'.charges = db.charges
            /\ db'.total = db.total /\ db'.lease = db.lease
        BY <1>1, <4>1, <4>2 DEF Cache
      <4>4. \A m \in Notes \ {n} : db'.note[m] = db.note[m]
        BY <2>1, <4>3
      <4>5. /\ db'.note[n].expires = db.note[n].expires
            /\ db'.note[n].remaining = left - 1
        BY <2>1, <4>3
      <4>6. ASSUME NEW m \in Notes
            PROVE  Agrees(db', m) /\ (~Stored(db', m) => db'.note[m] = NoRecord)
        <5>1. Agrees(db, m) /\ (~Stored(db, m) => db.note[m] = NoRecord)
          BY <1>1 DEF Good, Sound
        <5>2. db'.note[m].expires = db.note[m].expires
          BY <4>4, <4>5
        <5> QED
          BY <1>2, <4>3, <4>4, <5>1, <5>2 DEF Agrees, Stored
      <4>7. db'.total <= MaxBytes
        BY <1>1, <4>3 DEF Good, Sound
      <4> QED
        BY <4>2, <4>3, <4>4, <4>5, <4>6, <4>7 DEF Sound
    <3> QED
      BY <3>1, <3>2
  <2>6. Sound(db)' /\ TypeOK'
    BY <1>2, <2>3, <2>5 DEF IInv, TypeOK, Sound, Agrees
  <2>7. ASSUME NEW m \in Notes PROVE CountsAdd(db, m)'
    <3>1. CASE m = n
      <4>1. tally[n].opened \in Nat /\ tally[n].granted \in Nat
        BY <2>2
      <4> HIDE DEF left
      <4>2. ASSUME left > 1
            PROVE  /\ left - 1 >= 1
                   /\ (left - 1) + tally'[n].opened = tally'[n].granted
        <5>1. \A l, o, g \in Int : l > 1 /\ l + o = g =>
                 l - 1 >= 1 /\ (l - 1) + (o + 1) = g
          OBVIOUS
        <5>2. /\ left \in Int /\ tally[n].opened \in Int /\ tally[n].granted \in Int
              /\ left > 1 /\ left + tally[n].opened = tally[n].granted
          BY <2>1, <4>1, <4>2
        <5>3. left - 1 >= 1 /\ (left - 1) + (tally[n].opened + 1) = tally[n].granted
          BY <5>1, <5>2
        <5>4. tally'[n].opened = tally[n].opened + 1 /\ tally'[n].granted = tally[n].granted
          BY <2>3
        <5> QED
          BY <5>3, <5>4
      <4> QED
        BY <2>5, <3>1, <4>2 DEF CountsAdd
    <3>2. CASE m # n
      BY <1>1, <2>3, <2>5, <3>2 DEF Good, CountsAdd, Stored
    <3> QED
      BY <3>1, <3>2
  <2>8. (\A p \in Proofs : PaidHasNoLease(db, p))'
    BY <1>1, <1>2, <2>5 DEF Good, PaidHasNoLease
  <2> QED
    BY <2>4, <2>6, <2>7, <2>8 DEF IInv
<1> QED
  BY <1>3, <1>4 DEF Access

LEMMA ReapKeepsIInv == ASSUME IInv, Reap PROVE IInv'
<1>1. PICK S \in Batches(db) : db' = Purged(Released(db, S))
  BY DEF Reap
<1>2. Good(db')
  BY <1>1, IInvGood, BatchesAreNotes, ReleasedGood, PurgedGood
<1> QED
  BY <1>2, GoodStep DEF Reap

LEMMA RestartKeepsIInv == ASSUME IInv, Restart PROVE IInv'
<1> USE ParametersAssumption
<1>1. EmptyCache \in Cache
  BY DEF EmptyCache, Cache, NoRecord
<1>2. Sound(EmptyCache)
  BY <1>1, IInvGood DEF EmptyCache, Sound, Agrees, Stored, NoRecord
<1>3. \A n \in Notes : CountsAdd(EmptyCache, n)
  BY DEF EmptyCache, CountsAdd, Stored, NoRecord
<1>4. \A p \in Proofs : PaidHasNoLease(EmptyCache, p)
  BY DEF IInv, EmptyCache, PaidHasNoLease
<1> QED
  BY <1>2, <1>3, <1>4, GoodStep DEF Restart, Good

\* The cache may drop any keys of notes and challenges whose time has come.
LEMMA LapseKeepsIInv ==
    ASSUME IInv, UNCHANGED history, now' \in Nat, now <= now',
           db' \in Cache, db'.index = db.index, db'.charges = db.charges,
           db'.total = db.total,
           \A n \in Notes : \/ db'.note[n] = db.note[n]
                            \/ db'.note[n] = NoRecord /\ db.note[n].expires <= now,
           \A p \in Proofs : db'.lease[p] \in {0, db.lease[p]}
    PROVE  IInv'
<1>1. Good(db) /\ now \in Nat /\ db \in Cache
  BY IInvGood
<1>2. TypeOK'
  BY DEF IInv, TypeOK, history
<1>3. ASSUME NEW n \in Notes
      PROVE  Agrees(db, n)' /\ (~Stored(db', n) => db'.note[n] = NoRecord)
  <2>1. Agrees(db, n) /\ (~Stored(db, n) => db.note[n] = NoRecord)
    BY <1>1 DEF Good, Sound
  <2>2. /\ db.index[n] \in Nat /\ db.note[n].expires \in Nat
        /\ db.charges[n] \in Nat
    BY <1>1 DEF Cache
  <2>3. CASE db'.note[n] = db.note[n]
    BY <1>1, <2>1, <2>2, <2>3 DEF Agrees, Stored
  <2>4. CASE db'.note[n] = NoRecord /\ db.note[n].expires <= now
    BY <1>1, <2>1, <2>2, <2>4 DEF Agrees, Stored, NoRecord
  <2> QED
    BY <2>3, <2>4
<1>4. Sound(db)'
  BY <1>1, <1>3 DEF Good, Sound
<1>5. ASSUME NEW n \in Notes
      PROVE  tally'[n].opened <= tally'[n].granted /\ CountsAdd(db, n)'
  BY <1>1 DEF Good, IInv, CountsAdd, Stored, NoRecord, history
<1>6. ASSUME NEW p \in Proofs PROVE PaidHasNoLease(db, p)'
  BY <1>1 DEF Good, PaidHasNoLease, history
<1> QED
  BY <1>2, <1>4, <1>5, <1>6 DEF IInv

LEMMA NativeExpiryKeepsIInv == ASSUME IInv, NativeExpiry PROVE IInv'
<1>1. Good(db) /\ now \in Nat /\ db \in Cache
  BY IInvGood
<1>2. now' = now /\ UNCHANGED history
  BY DEF NativeExpiry
<1>3. ASSUME NEW n \in Notes, db.note[n].expires = now,
             db' = [db EXCEPT !.note[n] = NoRecord]
      PROVE  IInv'
  <2>1. /\ db' \in Cache /\ db'.note = [db.note EXCEPT ![n] = NoRecord]
        /\ db'.index = db.index /\ db'.charges = db.charges
        /\ db'.total = db.total /\ db'.lease = db.lease
    <3>1. NoRecord \in [expires : Nat, remaining : Nat]
      BY DEF NoRecord
    <3> QED
      BY <1>1, <1>3, <3>1 DEF Cache
  <2>2. \A m \in Notes : db'.note[m] = IF m = n THEN NoRecord ELSE db.note[m]
    BY <1>1, <2>1 DEF Cache
  <2> QED
    BY <1>1, <1>2, <1>3, <2>1, <2>2, LapseKeepsIInv
<1>4. ASSUME NEW p \in Proofs, db' = [db EXCEPT !.lease[p] = 0]
      PROVE  IInv'
  <2>1. /\ db' \in Cache /\ db'.note = db.note
        /\ db'.index = db.index /\ db'.charges = db.charges
        /\ db'.total = db.total /\ db'.lease = [db.lease EXCEPT ![p] = 0]
    BY <1>1, <1>4 DEF Cache
  <2>2. \A q \in Proofs : db'.lease[q] \in {0, db.lease[q]}
    BY <1>1, <2>1 DEF Cache
  <2> QED
    BY <1>1, <1>2, <2>1, <2>2, LapseKeepsIInv
<1>5. ASSUME NEW p \in Proofs, db' = [db EXCEPT !.spent[p] = 0]
      PROVE  IInv'
  <2>1. /\ db' \in Cache /\ db'.note = db.note
        /\ db'.index = db.index /\ db'.charges = db.charges
        /\ db'.total = db.total /\ db'.lease = db.lease
    BY <1>1, <1>5 DEF Cache
  <2> QED
    BY <1>1, <1>2, <2>1, LapseKeepsIInv
<1> QED
  BY <1>3, <1>4, <1>5 DEF NativeExpiry

LEMMA TickKeepsIInv == ASSUME IInv, Tick PROVE IInv'
<1> DEFINE Kept == [n \in Notes |-> IF db.note[n].expires <= now
                                    THEN NoRecord ELSE db.note[n]]
           Lapsed(f) == [p \in Proofs |-> IF f[p] <= now THEN 0 ELSE f[p]]
<1>1. Good(db) /\ now \in Nat /\ db \in Cache
  BY IInvGood
<1>2. /\ db' = [db EXCEPT !.note = Kept, !.lease = Lapsed(db.lease),
                          !.spent = Lapsed(db.spent)]
      /\ now' = now + 1 /\ UNCHANGED history
  BY DEF Tick
<1>3. /\ Kept \in [Notes -> [expires : Nat, remaining : Nat]]
      /\ Lapsed(db.lease) \in [Proofs -> Nat] /\ Lapsed(db.spent) \in [Proofs -> Nat]
  BY <1>1 DEF Cache, NoRecord
<1>4. \A p \in Proofs : Lapsed(db.lease)[p] \in {0, db.lease[p]}
  OBVIOUS
<1>5. \A n \in Notes : \/ Kept[n] = db.note[n]
                       \/ Kept[n] = NoRecord /\ db.note[n].expires <= now
  OBVIOUS
<1> HIDE DEF Kept, Lapsed
<1>6. /\ db' \in Cache /\ db'.note = Kept /\ db'.lease = Lapsed(db.lease)
      /\ db'.index = db.index /\ db'.charges = db.charges /\ db'.total = db.total
  BY <1>1, <1>2, <1>3 DEF Cache
<1> QED
  BY <1>1, <1>2, <1>4, <1>5, <1>6, LapseKeepsIInv

LEMMA NextKeepsIInv == IInv /\ [Next]_vars => IInv'
<1> SUFFICES ASSUME IInv, [Next]_vars PROVE IInv'
  OBVIOUS
<1>1. ASSUME NEW p \in Proofs, Issue(p) PROVE IInv'
  BY <1>1, IssueKeepsIInv
<1>2. ASSUME NEW n \in Notes, NEW p \in Proofs, NEW size \in Sizes,
             NEW ttl \in Ttls, NEW views \in Views, Create(n, p, size, ttl, views)
      PROVE  IInv'
  BY <1>2, CreateKeepsIInv
<1>3. ASSUME NEW n \in Notes, NEW operation \in Operations,
             NEW held \in Capabilities, Access(n, operation, held)
      PROVE  IInv'
  BY <1>3, AccessKeepsIInv
<1>4. CASE Reap
  BY <1>4, ReapKeepsIInv
<1>5. CASE NativeExpiry
  BY <1>5, NativeExpiryKeepsIInv
<1>6. CASE Tick
  BY <1>6, TickKeepsIInv
<1>7. CASE Restart
  BY <1>7, RestartKeepsIInv
<1>8. CASE UNCHANGED vars
  <2>1. UNCHANGED <<now, history>> /\ Good(db')
    BY <1>8, IInvGood DEF vars, history
  <2> QED
    BY <2>1, GoodStep
<1> QED
  BY <1>1, <1>2, <1>3, <1>4, <1>5, <1>6, <1>7, <1>8 DEF Next

\* For any sizes, limits and writes that are refused: the keys the scripts leave
\* describe the same notes, and the history of each adds up (lua/*.lua).
THEOREM InductiveInvariant == Spec => []IInv
<1>1. Init => IInv
  BY InitIInv
<1>2. IInv /\ [Next]_vars => IInv'
  BY NextKeepsIInv
<1> QED
  BY <1>1, <1>2, PTL DEF Spec

-----------------------------------------------------------------------------
(* Counters and limits *)

\* The counters of a cache: its total is the sum of the charges, both limits
\* hold, and a lease that is still ahead is in the challenge index.
Tight(c) ==
    /\ c.total = SumOf(c.charges, Notes)
    /\ Cardinality(Charged(c)) <= MaxNotes
    /\ Cardinality(Pending(c)) <= MaxChallenges
    /\ \A p \in Proofs : c.lease[p] > now => c.pending[p] = c.lease[p]

\* No lease survives beside a spent marker, and neither exists unissued.
Marked(c) ==
    \A p \in Proofs : /\ c.spent[p] > 0 => c.lease[p] = 0
                      /\ p \notin issued => c.spent[p] = 0

Counts(c) == Tight(c) /\ Marked(c)

LEMMA SubsetCounts ==
    ASSUME NEW D, IsFiniteSet(D), NEW T \in SUBSET D, NEW S \in SUBSET T,
           NEW m \in Nat, Cardinality(T) <= m
    PROVE  Cardinality(S) <= m
<1>1. IsFiniteSet(T)
  BY FS_Subset
<1>2. IsFiniteSet(S) /\ Cardinality(S) <= Cardinality(T)
  BY <1>1, FS_Subset
<1>3. Cardinality(S) \in Nat /\ Cardinality(T) \in Nat
  BY <1>1, <1>2, FS_CardinalityType
<1> QED
  BY <1>2, <1>3

\* A key added to a set that is not full.
LEMMA AddCounts ==
    ASSUME NEW D, IsFiniteSet(D), NEW T \in SUBSET D, NEW x \in D,
           NEW S \in SUBSET (T \cup {x}), NEW m \in Nat, ~(Cardinality(T) >= m)
    PROVE  Cardinality(S) <= m
<1>1. IsFiniteSet(T)
  BY FS_Subset
<1>2. Cardinality(T) \in Nat
  BY <1>1, FS_CardinalityType
<1>3. T \cup {x} \in SUBSET D
  OBVIOUS
<1>4. Cardinality(T \cup {x}) = IF x \in T THEN Cardinality(T) ELSE Cardinality(T) + 1
  BY <1>1, FS_AddElement
<1>5. Cardinality(T \cup {x}) <= m
  BY <1>2, <1>4
<1> QED
  BY <1>3, <1>5, SubsetCounts

LEMMA ReleasedCounts ==
    ASSUME NEW c \in Cache, Counts(c), NEW S \in SUBSET Notes
    PROVE  Counts(Released(c, S))
<1> USE ParametersAssumption, FiniteKeysAssumption
<1> DEFINE d == Released(c, S)
           kept == [n \in Notes |-> IF n \in S THEN 0 ELSE c.charges[n]]
<1>1. /\ d.charges = kept /\ d.total = Less(c.total, SumOf(c.charges, S))
      /\ d.lease = c.lease /\ d.pending = c.pending /\ d.spent = c.spent
  BY DEF Released, SumOf
<1>2. c.charges \in [Notes -> Nat]
  BY DEF Cache
<1>3. /\ SumOf(c.charges, S) \in Nat /\ SumOf(kept, Notes) \in Nat
      /\ c.total = SumOf(c.charges, S) + SumOf(kept, Notes)
  BY <1>2, SumRemoved DEF Counts, Tight
<1>4. Charged(d) \in SUBSET Charged(c) /\ Charged(c) \in SUBSET Notes
  BY <1>1, <1>2 DEF Charged
<1> HIDE DEF d, kept
<1>5. d.total = SumOf(d.charges, Notes)
  BY <1>1, <1>3 DEF Less
<1>6. Cardinality(Charged(d)) <= MaxNotes
  BY <1>4, SubsetCounts DEF Counts, Tight
<1> QED
  BY <1>1, <1>5, <1>6 DEF Counts, Tight, Marked, Pending, d

LEMMA PurgedCounts ==
    ASSUME NEW c \in Cache, Counts(c), now \in Nat
    PROVE  Counts(Purged(c))
<1> USE ParametersAssumption, FiniteKeysAssumption
<1> DEFINE d == Purged(c)
<1>1. /\ d.charges = c.charges /\ d.total = c.total
      /\ d.lease = c.lease /\ d.spent = c.spent
      /\ \A p \in Proofs : d.pending[p] = IF c.pending[p] <= now THEN 0 ELSE c.pending[p]
  BY DEF Purged, Cache
<1>2. Pending(d) \in SUBSET Pending(c) /\ Pending(c) \in SUBSET Proofs
  BY <1>1 DEF Pending
<1> HIDE DEF d
<1>3. Cardinality(Pending(d)) <= MaxChallenges
  BY <1>2, SubsetCounts DEF Counts, Tight
<1>4. ASSUME NEW p \in Proofs, d.lease[p] > now PROVE d.pending[p] = d.lease[p]
  <2>1. c.pending[p] = c.lease[p] /\ c.lease[p] \in Nat
    BY <1>1, <1>4 DEF Counts, Tight, Cache
  <2> QED
    BY <1>1, <1>4, <2>1
<1> QED
  BY <1>1, <1>3, <1>4 DEF Counts, Tight, Marked, Charged, d

LEMMA WrittenCounts ==
    ASSUME NEW c \in Cache, Counts(c), now \in Nat,
           NEW n \in Notes, NEW p \in Proofs, c.charges[n] = 0, p \in issued,
           NEW charge \in Nat, ~OverCapacity(c, charge),
           NEW record, NEW k \in {7, 8}
    PROVE  Counts(Written(c, k, n, p, charge, record))
<1> USE ParametersAssumption, FiniteKeysAssumption
<1> DEFINE d == Written(c, k, n, p, charge, record)
<1>1. /\ d.charges = [c.charges EXCEPT ![n] = charge]
      /\ d.total = c.total + charge
      /\ d.spent = [c.spent EXCEPT ![p] = c.lease[p]]
      /\ d.lease = [c.lease EXCEPT ![p] = 0]
      /\ d.pending = IF k >= 8 THEN [c.pending EXCEPT ![p] = 0] ELSE c.pending
  BY DEF Written
<1>2. /\ c.charges \in [Notes -> Nat] /\ c.lease \in [Proofs -> Nat]
      /\ c.spent \in [Proofs -> Nat] /\ c.pending \in [Proofs -> Nat]
      /\ c.total \in Nat
  BY DEF Cache
<1> HIDE DEF d
<1>3. d.total = SumOf(d.charges, Notes)
  <2>1. SumOf(d.charges, Notes) + c.charges[n] = SumOf(c.charges, Notes) + charge
    BY <1>1, <1>2, SumUpdate
  <2>2. d.charges \in [Notes -> Nat]
    BY <1>1, <1>2
  <2>3. SumOf(d.charges, Notes) \in Nat
    BY <2>2, SumType
  <2> QED
    BY <1>1, <1>2, <2>1, <2>3 DEF Counts, Tight
<1>4. Cardinality(Charged(d)) <= MaxNotes
  <2>1. Charged(c) \in SUBSET Notes /\ Charged(d) \in SUBSET (Charged(c) \cup {n})
    BY <1>1, <1>2 DEF Charged
  <2> QED
    BY <2>1, AddCounts DEF OverCapacity
<1>5. Cardinality(Pending(d)) <= MaxChallenges
  <2>1. Pending(d) \in SUBSET Pending(c) /\ Pending(c) \in SUBSET Proofs
    BY <1>1, <1>2 DEF Pending
  <2> QED
    BY <2>1, SubsetCounts DEF Counts, Tight
<1>6. ASSUME NEW q \in Proofs
      PROVE  /\ d.lease[q] > now => d.pending[q] = d.lease[q]
             /\ d.spent[q] > 0 => d.lease[q] = 0
             /\ q \notin issued => d.spent[q] = 0
  <2>1. /\ c.lease[q] > now => c.pending[q] = c.lease[q]
        /\ c.spent[q] > 0 => c.lease[q] = 0
        /\ q \notin issued => c.spent[q] = 0
    BY DEF Counts, Tight, Marked
  <2>2. CASE q = p
    BY <1>1, <1>2, <2>2
  <2>3. CASE q # p
    BY <1>1, <1>2, <2>1, <2>3
  <2> QED
    BY <2>2, <2>3
<1> QED
  BY <1>3, <1>4, <1>5, <1>6 DEF Counts, Tight, Marked, d

\* The cache may drop keys whose time has come, and time may pass.
LEMMA LapseCounts ==
    ASSUME IInv, Counts(db), UNCHANGED history, now' \in Nat, now <= now',
           db' \in Cache, db'.charges = db.charges, db'.total = db.total,
           db'.pending = db.pending,
           \A p \in Proofs : /\ db'.lease[p] \in {0, db.lease[p]}
                             /\ db'.spent[p] \in {0, db.spent[p]}
    PROVE  Counts(db)'
<1>1. now \in Nat /\ db \in Cache
  BY IInvGood
<1>2. ASSUME NEW p \in Proofs
      PROVE  /\ db'.lease[p] > now' => db'.pending[p] = db'.lease[p]
             /\ db'.spent[p] > 0 => db'.lease[p] = 0
             /\ p \notin issued' => db'.spent[p] = 0
  <2>1. db.lease[p] \in Nat /\ db.spent[p] \in Nat
    BY <1>1 DEF Cache
  <2>2. /\ db.lease[p] > now => db.pending[p] = db.lease[p]
        /\ db.spent[p] > 0 => db.lease[p] = 0
        /\ p \notin issued => db.spent[p] = 0
    BY DEF Counts, Tight, Marked
  <2>3. issued' = issued
    BY DEF history
  <2> QED
    BY <1>1, <2>1, <2>2, <2>3
<1> QED
  BY <1>2 DEF Counts, Tight, Marked, Charged, Pending

LEMMA InitCounts == Init => Counts(db)
<1> SUFFICES ASSUME Init PROVE Counts(db)
  OBVIOUS
<1> USE ParametersAssumption, FiniteKeysAssumption
<1>1. /\ Charged(db) = {} /\ Pending(db) = {}
      /\ \A p \in Proofs : db.lease[p] = 0 /\ db.spent[p] = 0
      /\ db.charges = [n \in Notes |-> 0] /\ db.total = 0 /\ now = 0
  BY DEF Init, EmptyCache, Charged, Pending
<1> QED
  BY <1>1, EmptySum, FS_EmptySet DEF Counts, Tight, Marked

LEMMA IssueKeepsCounts ==
    ASSUME IInv, Counts(db), NEW p \in Proofs, Issue(p) PROVE Counts(db)'
<1> USE ParametersAssumption, FiniteKeysAssumption
<1> DEFINE c == Purged(db)
           expires == now + ProofLifetime
<1>1. Good(db) /\ now \in Nat /\ db \in Cache
  BY IInvGood
<1>2. Counts(c) /\ c \in Cache
  BY <1>1, PurgedCounts, PurgedGood DEF Good, Sound
<1>3. UNCHANGED <<now, tally, uses>> /\ p \notin issued
  BY DEF Issue
<1>4. CASE db' = c /\ UNCHANGED issued
  BY <1>2, <1>3, <1>4 DEF Counts, Tight, Marked, Charged, Pending
<1>5. CASE /\ ~(Cardinality(Pending(c)) >= MaxChallenges)
           /\ db' = [c EXCEPT !.lease[p] = expires, !.pending[p] = expires]
           /\ issued' = issued \cup {p}
  <2>0. expires \in Nat
    BY <1>1
  <2> HIDE DEF c, expires
  <2>1. /\ db'.charges = c.charges /\ db'.total = c.total /\ db'.spent = c.spent
        /\ db'.lease = [c.lease EXCEPT ![p] = expires]
        /\ db'.pending = [c.pending EXCEPT ![p] = expires]
    BY <1>2, <1>5 DEF Cache
  <2>2. c.lease \in [Proofs -> Nat] /\ c.pending \in [Proofs -> Nat]
    BY <1>2 DEF Cache
  <2>3. Cardinality(Pending(db')) <= MaxChallenges
    <3>1. Pending(c) \in SUBSET Proofs /\ Pending(db') \in SUBSET (Pending(c) \cup {p})
      BY <2>1, <2>2 DEF Pending
    <3> QED
      BY <1>5, <3>1, AddCounts
  <2>4. ASSUME NEW q \in Proofs
        PROVE  /\ db'.lease[q] > now => db'.pending[q] = db'.lease[q]
               /\ db'.spent[q] > 0 => db'.lease[q] = 0
               /\ q \notin issued' => db'.spent[q] = 0
    <3>1. /\ c.lease[q] > now => c.pending[q] = c.lease[q]
          /\ c.spent[q] > 0 => c.lease[q] = 0
          /\ q \notin issued => c.spent[q] = 0
      BY <1>2 DEF Counts, Tight, Marked
    <3>2. CASE q = p
      BY <1>3, <2>1, <2>2, <3>1, <3>2
    <3>3. CASE q # p
      BY <1>5, <2>1, <2>2, <3>1, <3>3
    <3> QED
      BY <3>2, <3>3
  <2> QED
    BY <1>2, <1>3, <2>1, <2>3, <2>4 DEF Counts, Tight, Marked, Charged, Pending
<1> QED
  BY <1>4, <1>5 DEF Issue

LEMMA CreateKeepsCounts ==
    ASSUME IInv, Counts(db), NEW n \in Notes, NEW p \in Proofs, NEW size \in Sizes,
           NEW ttl \in Ttls, NEW views \in Views, Create(n, p, size, ttl, views)
    PROVE  Counts(db)'
<1> USE ParametersAssumption
<1> DEFINE charge == size + Overhead
           record == [expires |-> now + ttl, remaining |-> views]
<1>1. now \in Nat /\ db \in Cache /\ charge \in Nat
  BY IInvGood
<1>2. PICK S \in Batches(db) :
        LET c == Released(db, S)
        IN \/ db' = c /\ UNCHANGED <<now, history>>
           \/ /\ ~Conflicts(c, n) /\ ~OverCapacity(c, charge)
              /\ \E k \in {7, 8} : db' = Written(c, k, n, p, charge, record)
              /\ UNCHANGED <<now, issued>>
  BY CreateOutcomes
<1> DEFINE c == Released(db, S)
<1>3. Counts(c) /\ c \in Cache
  BY <1>1, BatchesAreNotes, ReleasedCounts, ReleasedFields
<1> HIDE DEF c, charge, record
<1>4. p \in issued
  BY <1>1 DEF IInv, PaidHasNoLease, Create, ProofUsable
<1>5. CASE db' = c /\ UNCHANGED <<now, history>>
  BY <1>3, <1>5 DEF Counts, Tight, Marked, Charged, Pending, history
<1>6. CASE /\ ~Conflicts(c, n) /\ ~OverCapacity(c, charge)
           /\ \E k \in {7, 8} : db' = Written(c, k, n, p, charge, record)
           /\ UNCHANGED <<now, issued>>
  <2>1. PICK k \in {7, 8} : db' = Written(c, k, n, p, charge, record)
    BY <1>6
  <2>2. c.charges[n] = 0
    BY <1>3, <1>6 DEF Conflicts, Cache
  <2>3. Counts(db')
    BY <1>1, <1>3, <1>4, <1>6, <2>1, <2>2, WrittenCounts
  <2> QED
    BY <1>6, <2>3 DEF Counts, Tight, Marked, Charged, Pending
<1> QED
  BY <1>2, <1>5, <1>6 DEF c

LEMMA AccessKeepsCounts ==
    ASSUME IInv, Counts(db), NEW n \in Notes, NEW operation \in Operations,
           NEW held \in Capabilities, Access(n, operation, held)
    PROVE  Counts(db)'
<1>1. now \in Nat /\ db \in Cache /\ UNCHANGED <<now, issued>>
  BY IInvGood DEF Access
<1>2. \/ db' = Released(db, {n})
      \/ db' = [db EXCEPT !.note[n].remaining = @ - 1]
  BY DEF Access, Consumed
<1>3. CASE db' = Released(db, {n})
  <2>1. Counts(db')
    BY <1>1, <1>3, ReleasedCounts
  <2> QED
    BY <1>1, <2>1 DEF Counts, Tight, Marked, Charged, Pending
<1>4. CASE db' = [db EXCEPT !.note[n].remaining = @ - 1]
  <2>1. /\ db'.charges = db.charges /\ db'.total = db.total /\ db'.lease = db.lease
        /\ db'.pending = db.pending /\ db'.spent = db.spent
    BY <1>1, <1>4 DEF Cache
  <2> QED
    BY <1>1, <2>1 DEF Counts, Tight, Marked, Charged, Pending
<1> QED
  BY <1>2, <1>3, <1>4

LEMMA ReapKeepsCounts == ASSUME IInv, Counts(db), Reap PROVE Counts(db)'
<1>1. now \in Nat /\ db \in Cache
  BY IInvGood
<1>2. PICK S \in Batches(db) : db' = Purged(Released(db, S))
  BY DEF Reap
<1>3. S \in SUBSET Notes
  BY BatchesAreNotes
<1>4. Counts(Released(db, S)) /\ Released(db, S) \in Cache
  BY <1>1, <1>3, ReleasedCounts, ReleasedFields
<1>5. Counts(db')
  BY <1>1, <1>2, <1>4, PurgedCounts
<1> QED
  BY <1>5 DEF Counts, Tight, Marked, Charged, Pending, Reap, history

LEMMA RestartKeepsCounts == ASSUME IInv, Counts(db), Restart PROVE Counts(db)'
<1> USE ParametersAssumption, FiniteKeysAssumption
<1>1. /\ Charged(db') = {} /\ Pending(db') = {}
      /\ \A p \in Proofs : db'.lease[p] = 0 /\ db'.spent[p] = 0
      /\ db'.charges = [n \in Notes |-> 0] /\ db'.total = 0 /\ now' = now
  BY DEF Restart, EmptyCache, Charged, Pending
<1>2. now \in Nat
  BY IInvGood
<1>3. Counts(db')
  BY <1>1, <1>2, EmptySum, FS_EmptySet DEF Counts, Tight, Marked
<1> QED
  BY <1>1, <1>3 DEF Counts, Tight, Marked, Charged, Pending

LEMMA NativeExpiryKeepsCounts ==
    ASSUME IInv, Counts(db), NativeExpiry PROVE Counts(db)'
<1>1. IInv' /\ now \in Nat /\ db \in Cache /\ now' = now /\ UNCHANGED history
  BY IInvGood, NativeExpiryKeepsIInv DEF NativeExpiry
<1>2. db' \in Cache
  BY <1>1 DEF IInv, TypeOK, Cache
<1>3. /\ db'.charges = db.charges /\ db'.total = db.total /\ db'.pending = db.pending
      /\ \A p \in Proofs : /\ db'.lease[p] \in {0, db.lease[p]}
                           /\ db'.spent[p] \in {0, db.spent[p]}
  BY <1>1 DEF NativeExpiry, Cache
<1> QED
  BY <1>1, <1>2, <1>3, LapseCounts

LEMMA TickKeepsCounts == ASSUME IInv, Counts(db), Tick PROVE Counts(db)'
<1>1. IInv' /\ now \in Nat /\ db \in Cache /\ now' = now + 1 /\ UNCHANGED history
  BY IInvGood, TickKeepsIInv DEF Tick
<1>2. db' \in Cache
  BY <1>1 DEF IInv, TypeOK, Cache
<1>3. /\ db'.charges = db.charges /\ db'.total = db.total /\ db'.pending = db.pending
      /\ \A p \in Proofs : /\ db'.lease[p] \in {0, db.lease[p]}
                           /\ db'.spent[p] \in {0, db.spent[p]}
  BY <1>1 DEF Tick, Cache
<1> QED
  BY <1>1, <1>2, <1>3, LapseCounts

LEMMA NextKeepsCounts == IInv /\ Counts(db) /\ [Next]_vars => Counts(db)'
<1> SUFFICES ASSUME IInv, Counts(db), [Next]_vars PROVE Counts(db)'
  OBVIOUS
<1>1. ASSUME NEW p \in Proofs, Issue(p) PROVE Counts(db)'
  BY <1>1, IssueKeepsCounts
<1>2. ASSUME NEW n \in Notes, NEW p \in Proofs, NEW size \in Sizes,
             NEW ttl \in Ttls, NEW views \in Views, Create(n, p, size, ttl, views)
      PROVE  Counts(db)'
  BY <1>2, CreateKeepsCounts
<1>3. ASSUME NEW n \in Notes, NEW operation \in Operations,
             NEW held \in Capabilities, Access(n, operation, held)
      PROVE  Counts(db)'
  BY <1>3, AccessKeepsCounts
<1>4. CASE Reap
  BY <1>4, ReapKeepsCounts
<1>5. CASE NativeExpiry
  BY <1>5, NativeExpiryKeepsCounts
<1>6. CASE Tick
  BY <1>6, TickKeepsCounts
<1>7. CASE Restart
  BY <1>7, RestartKeepsCounts
<1>8. CASE UNCHANGED vars
  BY <1>8 DEF vars, Counts, Tight, Marked, Charged, Pending
<1> QED
  BY <1>1, <1>2, <1>3, <1>4, <1>5, <1>6, <1>7, <1>8 DEF Next

LEMMA CountsInvariant == Spec => []Counts(db)
<1>1. Init => Counts(db)
  BY InitCounts
<1>2. IInv /\ Counts(db) /\ [Next]_vars => Counts(db)'
  BY NextKeepsCounts
<1> QED
  BY <1>1, <1>2, InductiveInvariant, PTL DEF Spec

-----------------------------------------------------------------------------
(* The promise of Handoff *)

\* A cache c that serves note n as the cache db does.
SameNote(c, n) == c.note[n] = db.note[n] \/ ~(c.note[n].expires > now \/ Available(n))
SameProof(c, p) ==
    c.spent[p] = 0 /\ c.lease[p] > now <=> db.spent[p] = 0 /\ db.lease[p] > now
\* ... and every note and challenge.
Serves(c) == /\ \A n \in Notes : SameNote(c, n)
             /\ \A p \in Proofs : SameProof(c, p)

\* Reaping touches only notes whose time has come.
LEMMA ReapedServes ==
    ASSUME IInv, NEW S \in Batches(db)
    PROVE  /\ Serves(Released(db, S)) /\ Serves(Purged(Released(db, S)))
           /\ \A n \in Notes : Available(n) => n \notin S
<1> DEFINE c == Released(db, S)
<1>1. Good(db) /\ now \in Nat /\ db \in Cache /\ S \in SUBSET Notes
  BY IInvGood, BatchesAreNotes
<1>2. /\ \A n \in Notes : c.note[n] = IF n \in S THEN NoRecord ELSE db.note[n]
      /\ c.lease = db.lease /\ c.spent = db.spent
  BY <1>1, ReleasedFields
<1>3. /\ Purged(c).note = c.note /\ Purged(c).lease = c.lease
      /\ Purged(c).spent = c.spent
  BY DEF Purged, Released
<1>4. ASSUME NEW n \in S PROVE ~Available(n)
  <2>1. Agrees(db, n) /\ db.index[n] <= now
    BY <1>1 DEF Good, Sound, Batches, Due
  <2>2. db.note[n].expires \in Nat /\ db.index[n] \in Nat
    BY <1>1 DEF Cache
  <2> QED
    BY <1>1, <2>1, <2>2 DEF Agrees, Stored, Available
<1> HIDE DEF c
<1>5. ASSUME NEW n \in Notes PROVE SameNote(c, n)
  BY <1>1, <1>2, <1>4 DEF SameNote, NoRecord
<1>6. \A p \in Proofs : SameProof(c, p)
  BY <1>2 DEF SameProof
<1>7. Serves(c) /\ Serves(Purged(c))
  BY <1>3, <1>5, <1>6 DEF Serves, SameNote, SameProof
<1> QED
  BY <1>1, <1>4, <1>7 DEF c

\* What the service is seen to hold, as Handoff speaks of it.
Left == [n \in Notes |-> IF Available(n) THEN db.note[n].remaining ELSE 0]
Got == [n \in Notes |-> tally[n].opened]
Deadline == [n \in Notes |-> IF Available(n) THEN db.note[n].expires ELSE 0]
Fate == [p \in Proofs |-> IF p \notin issued THEN "unissued"
                          ELSE IF ProofUsable(p) THEN "fresh" ELSE "void"]
Seen == <<now, Left, Got, Deadline, Fate>>

\* The properties of a step that LostForCause is about.
LosesForCause ==
    (\A p \in Proofs : ProofIsLost(p)) /\ (\A n \in Notes : NoteIsLost(n))

\* A step that serves everything as before is invisible, and loses nothing.
LEMMA ServingIsSilent ==
    ASSUME IInv, UNCHANGED <<now, history>>, Serves(db')
    PROVE  UNCHANGED Seen /\ LosesForCause
<1>1. now \in Nat /\ db \in Cache
  BY IInvGood
<1>2. ASSUME NEW p \in Proofs PROVE ProofUsable(p)' <=> ProofUsable(p)
  BY DEF Serves, SameProof, ProofUsable
<1>3. ASSUME NEW n \in Notes
      PROVE  /\ Available(n)' <=> Available(n)
             /\ Available(n) => db'.note[n] = db.note[n]
  BY DEF Serves, SameNote, Available
<1>4. UNCHANGED Seen
  <2>1. Left' = Left /\ Deadline' = Deadline
    BY <1>3 DEF Left, Deadline
  <2>2. Got' = Got /\ Fate' = Fate
    BY <1>2 DEF Got, Fate, history
  <2> QED
    BY <2>1, <2>2 DEF Seen
<1>5. \A p \in Proofs : ProofIsLost(p)
  BY <1>2 DEF ProofIsLost
<1>6. ASSUME NEW n \in Notes PROVE NoteIsLost(n)
  <2>1. db.note[n].expires \in Nat
    BY <1>1 DEF Cache
  <2> QED
    BY <1>1, <1>3, <2>1 DEF NoteIsLost, Available, Stored
<1> QED
  BY <1>4, <1>5, <1>6 DEF LosesForCause

LEMMA IssueIsOffer ==
    ASSUME IInv, Counts(db), NEW p \in Proofs, Issue(p)
    PROVE  (Promise!Offer(p) \/ UNCHANGED Seen) /\ LosesForCause
<1> USE ParametersAssumption
<1> DEFINE c == Purged(db)
           expires == now + ProofLifetime
<1>1. /\ now \in Nat /\ db \in Cache /\ p \notin issued
      /\ UNCHANGED <<now, tally, uses>> /\ expires \in Nat /\ expires > now
  BY IInvGood DEF Issue
<1>2. c.note = db.note /\ c.lease = db.lease /\ c.spent = db.spent
  BY DEF Purged
<1>3. CASE db' = c /\ UNCHANGED issued
  <2>1. Serves(db')
    BY <1>2, <1>3 DEF Serves, SameNote, SameProof
  <2> QED
    BY <1>1, <1>3, <2>1, ServingIsSilent DEF history
<1>4. CASE /\ db' = [c EXCEPT !.lease[p] = expires, !.pending[p] = expires]
           /\ issued' = issued \cup {p}
  <2> HIDE DEF expires
  <2>1. /\ db'.note = db.note /\ db'.spent = db.spent
        /\ db'.lease = [db.lease EXCEPT ![p] = expires]
    BY <1>1, <1>2, <1>4 DEF Purged, Cache
  <2> HIDE DEF c
  <2>2. db.lease \in [Proofs -> Nat] /\ db.lease[p] = 0 /\ db.spent[p] = 0
    BY <1>1 DEF Cache, IInv, PaidHasNoLease, Counts, Marked
  <2>3. ASSUME NEW q \in Proofs
        PROVE  IF q = p THEN ~ProofUsable(q) /\ ProofUsable(q)'
               ELSE ProofUsable(q)' <=> ProofUsable(q)
    BY <1>1, <2>1, <2>2 DEF ProofUsable
  <2>4. Left' = Left /\ Deadline' = Deadline /\ Got' = Got
    BY <1>1, <2>1 DEF Left, Deadline, Got, Available
  <2>5. Fate[p] = "unissued" /\ Fate' = [Fate EXCEPT ![p] = "fresh"]
    BY <1>1, <1>4, <2>3 DEF Fate
  <2>6. Promise!Offer(p)
    BY <1>1, <2>4, <2>5 DEF Promise!Offer, Left, Got, Deadline, Fate
  <2>7. \A q \in Proofs : ProofIsLost(q)
    BY <2>3 DEF ProofIsLost
  <2>8. ASSUME NEW n \in Notes PROVE NoteIsLost(n)
    BY <1>1, <2>1 DEF NoteIsLost, Stored, Cache
  <2> QED
    BY <2>6, <2>7, <2>8 DEF LosesForCause
<1> QED
  BY <1>3, <1>4 DEF Issue

LEMMA CreateIsAdmit ==
    ASSUME IInv, Counts(db), NEW n \in Notes, NEW p \in Proofs, NEW size \in Sizes,
           NEW ttl \in Ttls, NEW views \in Views, Create(n, p, size, ttl, views)
    PROVE  (Promise!Admit(n, p, ttl, views) \/ UNCHANGED Seen) /\ LosesForCause
<1> USE ParametersAssumption
<1> DEFINE charge == size + Overhead
           record == [expires |-> now + ttl, remaining |-> views]
<1>1. /\ now \in Nat /\ db \in Cache /\ ProofUsable(p) /\ now' = now
      /\ record.expires = now + ttl /\ record.remaining = views /\ now + ttl > now
  BY IInvGood DEF Create
<1>2. PICK S \in Batches(db) :
        LET c == Released(db, S)
        IN \/ db' = c /\ UNCHANGED <<now, history>>
           \/ /\ ~Conflicts(c, n) /\ ~OverCapacity(c, charge)
              /\ \E k \in {7, 8} : db' = Written(c, k, n, p, charge, record)
              /\ tally' = [tally EXCEPT ![n] = [granted |-> views, opened |-> 0]]
              /\ uses' = [uses EXCEPT ![p] = @ + 1]
              /\ UNCHANGED <<now, issued>>
  BY CreateOutcomes
<1> DEFINE c == Released(db, S)
<1>3. Serves(c) /\ \A m \in Notes : Available(m) => m \notin S
  BY ReapedServes
<1>4. /\ c \in Cache /\ c.lease = db.lease /\ c.spent = db.spent
      /\ \A m \in Notes : c.note[m] = IF m \in S THEN NoRecord ELSE db.note[m]
  BY <1>1, BatchesAreNotes, ReleasedFields
<1> HIDE DEF c, charge, record
<1>5. CASE db' = c /\ UNCHANGED <<now, history>>
  BY <1>3, <1>5, ServingIsSilent
<1>6. CASE /\ ~Conflicts(c, n) /\ ~OverCapacity(c, charge)
           /\ \E k \in {7, 8} : db' = Written(c, k, n, p, charge, record)
           /\ tally' = [tally EXCEPT ![n] = [granted |-> views, opened |-> 0]]
           /\ uses' = [uses EXCEPT ![p] = @ + 1]
           /\ UNCHANGED <<now, issued>>
  <2>1. /\ db'.note = [c.note EXCEPT ![n] = record]
        /\ db'.lease = [c.lease EXCEPT ![p] = 0]
        /\ db'.spent = [c.spent EXCEPT ![p] = c.lease[p]]
    BY <1>6 DEF Written
  <2>2. ASSUME NEW m \in Notes
        PROVE  IF m = n THEN /\ ~Available(m) /\ Available(m)' /\ db'.note[m] = record
                        ELSE /\ Available(m)' <=> Available(m)
                             /\ Available(m) => db'.note[m] = db.note[m]
    <3>1. db'.note[m] = IF m = n THEN record ELSE c.note[m]
      BY <1>4, <2>1 DEF Cache
    <3>2. CASE m = n
      <4>1. ~Stored(c, n) /\ SameNote(c, n)
        BY <1>3, <1>6 DEF Conflicts, Serves
      <4>2. db.note[n].expires \in Nat /\ c.note[n].expires \in Nat
        BY <1>1, <1>4 DEF Cache
      <4>3. ~Available(n)
        BY <1>1, <4>1, <4>2 DEF Stored, SameNote, Available
      <4>4. Available(m)'
        BY <1>1, <3>1, <3>2 DEF Available
      <4> QED
        BY <3>1, <3>2, <4>3, <4>4
    <3>3. CASE m # n
      <4>1. db'.note[m] = c.note[m]
        BY <3>1, <3>3
      <4>2. SameNote(c, m)
        BY <1>3 DEF Serves
      <4> QED
        BY <1>1, <3>3, <4>1, <4>2 DEF SameNote, Available
    <3> QED
      BY <3>2, <3>3
  <2>3. ASSUME NEW q \in Proofs
        PROVE  IF q = p THEN ~ProofUsable(q)'
               ELSE ProofUsable(q)' <=> ProofUsable(q)
    BY <1>1, <1>4, <2>1 DEF ProofUsable, Cache
  <2>4. Left[n] = 0 /\ Left' = [Left EXCEPT ![n] = views]
    BY <1>1, <2>2 DEF Left
  <2>5. Deadline' = [Deadline EXCEPT ![n] = now + ttl]
    BY <1>1, <2>2 DEF Deadline
  <2>6. Got' = [Got EXCEPT ![n] = 0]
    <3>1. tally \in [Notes -> [granted : Nat, opened : Nat]]
      BY DEF IInv, TypeOK
    <3> QED
      BY <1>6, <3>1 DEF Got
  <2>7. Fate[p] = "fresh" /\ Fate' = [Fate EXCEPT ![p] = "void"]
    <3>1. p \in issued
      BY <1>1 DEF IInv, PaidHasNoLease, ProofUsable
    <3> QED
      BY <1>1, <1>6, <2>3, <3>1 DEF Fate
  <2>8. Promise!Admit(n, p, ttl, views)
    BY <1>1, <2>4, <2>5, <2>6, <2>7 DEF Promise!Admit, Left, Got, Deadline, Fate
  <2>9. ASSUME NEW q \in Proofs PROVE ProofIsLost(q)
    <3>1. uses \in [Proofs -> Nat]
      BY DEF IInv, TypeOK
    <3> QED
      BY <1>6, <2>3, <3>1 DEF ProofIsLost
  <2>10. ASSUME NEW m \in Notes PROVE NoteIsLost(m)
    <3>1. db.note[m].expires > now => db'.note[m].expires > 0
      <4>1. db.note[m].expires \in Nat /\ now + ttl \in Nat
        BY <1>1 DEF Cache
      <4> QED
        BY <1>1, <2>2, <4>1 DEF Available
    <3> QED
      BY <3>1 DEF NoteIsLost, Stored
  <2> QED
    BY <2>8, <2>9, <2>10 DEF LosesForCause
<1> QED
  BY <1>2, <1>5, <1>6 DEF c

\* A step that changes the one note n, and no clock, challenge or other note.
LEMMA OneNoteChanges ==
    ASSUME IInv, NEW n \in Notes, UNCHANGED <<now, issued>>,
           \A m \in Notes \ {n} : db'.note[m] = db.note[m] /\ tally'[m] = tally[m],
           db'.lease = db.lease, db'.spent = db.spent
    PROVE  /\ UNCHANGED <<now, Fate>>
           /\ \A m \in Notes \ {n} : /\ Left'[m] = Left[m] /\ Got'[m] = Got[m]
                                     /\ Deadline'[m] = Deadline[m]
           /\ \A p \in Proofs : ProofIsLost(p)
           /\ \A m \in Notes \ {n} : NoteIsLost(m)
<1>1. now \in Nat /\ db \in Cache
  BY IInvGood
<1>2. \A p \in Proofs : ProofUsable(p)' <=> ProofUsable(p)
  BY DEF ProofUsable
<1>3. UNCHANGED <<now, Fate>> /\ \A p \in Proofs : ProofIsLost(p)
  BY <1>2 DEF Fate, ProofIsLost
<1>4. \A m \in Notes \ {n} : /\ Left'[m] = Left[m] /\ Got'[m] = Got[m]
                             /\ Deadline'[m] = Deadline[m]
  BY DEF Left, Got, Deadline, Available
<1>5. ASSUME NEW m \in Notes \ {n} PROVE NoteIsLost(m)
  <2>1. db.note[m].expires \in Nat
    BY <1>1 DEF Cache
  <2> QED
    BY <1>1, <2>1 DEF NoteIsLost, Stored
<1> QED
  BY <1>3, <1>4, <1>5

LEMMA AccessIsRetrievalOrRevocation ==
    ASSUME IInv, NEW n \in Notes, NEW operation \in Operations,
           NEW held \in Capabilities, Access(n, operation, held)
    PROVE  /\ Promise!Retrieve(n) \/ Promise!Revoke(n) \/ UNCHANGED Seen
           /\ LosesForCause
<1> DEFINE left == db.note[n].remaining
           authorized == held = Required[operation] /\ ~Expired(db, n)
<1>1. /\ now \in Nat /\ db \in Cache /\ UNCHANGED <<now, uses, issued>>
      /\ Stored(db, n) /\ left \in Nat \ {0} /\ db.note[n].expires \in Nat
      /\ left + tally[n].opened = tally[n].granted
  BY IInvGood DEF Access, Good, CountsAdd, Cache
<1>2. tally \in [Notes -> [granted : Nat, opened : Nat]]
  BY DEF IInv, TypeOK
<1>3. CASE Expired(db, n) /\ db' = Released(db, {n}) /\ UNCHANGED tally
  <2>1. /\ \A m \in Notes : db'.note[m] = IF m = n THEN NoRecord ELSE db.note[m]
        /\ db'.lease = db.lease /\ db'.spent = db.spent
    BY <1>1, <1>3, ReleasedFields
  <2>2. ASSUME NEW m \in Notes PROVE SameNote(db', m)
    <3>1. CASE m = n
      <4>1. db'.note[m].expires = 0 /\ db.note[m].expires <= now
        BY <1>3, <2>1, <3>1 DEF Expired, NoRecord
      <4> QED
        BY <1>1, <3>1, <4>1 DEF SameNote, Available
    <3>2. CASE m # n
      BY <2>1, <3>2 DEF SameNote
    <3> QED
      BY <3>1, <3>2
  <2>3. \A p \in Proofs : SameProof(db', p)
    BY <2>1 DEF SameProof
  <2> QED
    BY <1>1, <1>3, <2>2, <2>3, ServingIsSilent DEF Serves, history
<1>4. CASE operation = "delete" /\ authorized /\ db' = Released(db, {n}) /\ UNCHANGED tally
  <2>1. /\ \A m \in Notes : db'.note[m] = IF m = n THEN NoRecord ELSE db.note[m]
        /\ db'.lease = db.lease /\ db'.spent = db.spent
    BY <1>1, <1>4, ReleasedFields
  <2>2. Available(n) /\ ~Available(n)'
    BY <1>1, <1>4, <2>1 DEF Expired, Available, NoRecord
  <2>3. /\ UNCHANGED <<now, Fate>>
        /\ \A m \in Notes \ {n} : /\ Left'[m] = Left[m] /\ Got'[m] = Got[m]
                                  /\ Deadline'[m] = Deadline[m]
        /\ \A p \in Proofs : ProofIsLost(p)
        /\ \A m \in Notes \ {n} : NoteIsLost(m)
    BY <1>1, <1>4, <2>1, OneNoteChanges
  <2>4. /\ Left[n] > 0
        /\ Left' = [m \in Notes |-> IF m \in {n} THEN 0 ELSE Left[m]]
        /\ Deadline' = [m \in Notes |-> IF m \in {n} THEN 0 ELSE Deadline[m]]
    BY <1>1, <2>2, <2>3 DEF Left, Deadline
  <2>5. Got' = Got
    BY <1>4 DEF Got
  <2>6. Promise!Revoke(n)
    BY <2>3, <2>4, <2>5 DEF Promise!Revoke, Promise!End, Left, Got, Deadline, Fate
  <2>7. Access(n, "delete", "revoke")
    BY <1>4 DEF Required
  <2> QED
    BY <2>3, <2>6, <2>7 DEF NoteIsLost, LosesForCause
<1>5. CASE /\ authorized /\ db' = Consumed(db, n)
           /\ tally' = [tally EXCEPT ![n].opened = @ + 1]
  <2>1. /\ db'.lease = db.lease /\ db'.spent = db.spent
        /\ \A m \in Notes \ {n} : db'.note[m] = db.note[m]
        /\ left = 1 => db'.note[n] = NoRecord
        /\ left # 1 => /\ db'.note[n].expires = db.note[n].expires
                       /\ db'.note[n].remaining = left - 1
    <3>1. CASE left = 1
      <4>1. db' = Released(db, {n})
        BY <1>5, <3>1 DEF Consumed
      <4> QED
        BY <1>1, <3>1, <4>1, ReleasedFields
    <3>2. CASE left # 1
      BY <1>1, <1>5, <3>2 DEF Consumed, Cache
    <3> QED
      BY <3>1, <3>2
  <2>2. /\ Available(n)
        /\ left = 1 => ~Available(n)'
        /\ left # 1 => Available(n)'
    BY <1>1, <1>5, <2>1 DEF Expired, Available, NoRecord
  <2>3. /\ \A m \in Notes \ {n} : tally'[m] = tally[m]
        /\ tally'[n].opened = tally[n].opened + 1
        /\ tally'[n].granted = tally[n].granted
    BY <1>2, <1>5
  <2>4. /\ UNCHANGED <<now, Fate>>
        /\ \A m \in Notes \ {n} : /\ Left'[m] = Left[m] /\ Got'[m] = Got[m]
                                  /\ Deadline'[m] = Deadline[m]
        /\ \A p \in Proofs : ProofIsLost(p)
        /\ \A m \in Notes \ {n} : NoteIsLost(m)
    BY <1>1, <2>1, <2>3, OneNoteChanges
  <2>5. Left[n] = left /\ Left'[n] = left - 1
    BY <1>1, <2>1, <2>2 DEF Left
  <2>6. Left[n] > 0 /\ Left' = [Left EXCEPT ![n] = @ - 1]
    <3>1. Left = [m \in Notes |-> Left[m]] /\ Left' = [m \in Notes |-> Left'[m]]
      BY DEF Left
    <3> HIDE DEF left
    <3> QED
      BY <1>1, <2>4, <2>5, <3>1
  <2>7. Got' = [Got EXCEPT ![n] = @ + 1]
    BY <2>3, <2>4 DEF Got
  <2>8. Deadline' = [Deadline EXCEPT ![n] = IF Left[n] = 1 THEN 0 ELSE @]
    <3>1. Deadline'[n] = IF Left[n] = 1 THEN 0 ELSE Deadline[n]
      BY <2>1, <2>2, <2>5 DEF Deadline
    <3>2. Deadline = [m \in Notes |-> Deadline[m]] /\ Deadline' = [m \in Notes |-> Deadline'[m]]
      BY DEF Deadline
    <3> QED
      BY <2>4, <3>1, <3>2
  <2>9. Promise!Retrieve(n)
    BY <2>4, <2>6, <2>7, <2>8 DEF Promise!Retrieve, Left, Got, Deadline, Fate
  <2>10. NoteIsLost(n)
    <3>1. tally[n].opened \in Nat /\ tally[n].granted \in Nat
      BY <1>2
    <3>2. left # 1 => Stored(db', n)
      BY <1>1, <2>1 DEF Stored
    <3>3. left = 1 => tally'[n] # tally[n] /\ tally'[n].opened = tally'[n].granted
      BY <1>1, <2>3, <3>1
    <3> QED
      BY <3>2, <3>3 DEF NoteIsLost
  <2> QED
    BY <2>4, <2>9, <2>10 DEF LosesForCause
<1> QED
  BY <1>1, <1>3, <1>4, <1>5 DEF Access

LEMMA ReapIsSilent == ASSUME IInv, Reap PROVE UNCHANGED Seen /\ LosesForCause
BY ReapedServes, ServingIsSilent DEF Reap

LEMMA NativeExpiryIsSilent ==
    ASSUME IInv, Counts(db), NativeExpiry PROVE UNCHANGED Seen /\ LosesForCause
<1>1. now \in Nat /\ db \in Cache /\ UNCHANGED <<now, history>>
  BY IInvGood DEF NativeExpiry
<1>2. ASSUME NEW n \in Notes, db.note[n].expires = now,
             db' = [db EXCEPT !.note[n] = NoRecord]
      PROVE  Serves(db')
  BY <1>1, <1>2 DEF Serves, SameNote, SameProof, Available, NoRecord, Cache
<1>3. ASSUME NEW p \in Proofs, db.lease[p] = now, db' = [db EXCEPT !.lease[p] = 0]
      PROVE  Serves(db')
  BY <1>1, <1>3 DEF Serves, SameNote, SameProof, Cache
<1>4. ASSUME NEW p \in Proofs, db.spent[p] = now, now > 0,
             db' = [db EXCEPT !.spent[p] = 0]
      PROVE  Serves(db')
  <2>1. db.lease[p] = 0
    BY <1>1, <1>4 DEF Counts, Marked
  <2> QED
    BY <1>1, <1>4, <2>1 DEF Serves, SameNote, SameProof, Cache
<1> QED
  BY <1>1, <1>2, <1>3, <1>4, ServingIsSilent DEF NativeExpiry

LEMMA TickIsPass ==
    ASSUME IInv, Counts(db), Tick PROVE Promise!Pass /\ LosesForCause
<1>1. now \in Nat /\ db \in Cache /\ now' = now + 1 /\ UNCHANGED history
  BY IInvGood DEF Tick
<1>2. /\ \A n \in Notes : db'.note[n] = IF db.note[n].expires <= now THEN NoRecord
                                        ELSE db.note[n]
      /\ \A p \in Proofs :
            /\ db'.lease[p] = IF db.lease[p] <= now THEN 0 ELSE db.lease[p]
            /\ db'.spent[p] = IF db.spent[p] <= now THEN 0 ELSE db.spent[p]
  BY <1>1 DEF Tick, Cache
<1>3. ASSUME NEW n \in Notes
      PROVE  /\ Left'[n] = IF Deadline[n] <= now' THEN 0 ELSE Left[n]
             /\ Deadline'[n] = IF Deadline[n] <= now' THEN 0 ELSE Deadline[n]
             /\ NoteIsLost(n)
  <2>1. db.note[n].expires \in Nat
    BY <1>1 DEF Cache
  <2>2. Available(n)' <=> db.note[n].expires > now'
    BY <1>1, <1>2, <2>1 DEF Available, NoRecord
  <2>3. db.note[n].expires > now => db'.note[n] = db.note[n]
    BY <1>1, <1>2, <2>1
  <2>4. Deadline[n] <= now' <=> ~Available(n)'
    BY <1>1, <2>1, <2>2 DEF Deadline, Available
  <2>5. Available(n)' => Available(n) /\ db'.note[n] = db.note[n]
    BY <1>1, <2>1, <2>2, <2>3 DEF Available
  <2>6. NoteIsLost(n)
    BY <1>1, <2>1, <2>3 DEF NoteIsLost, Stored
  <2> QED
    BY <2>4, <2>5, <2>6 DEF Left, Deadline
<1>4. ASSUME NEW p \in Proofs
      PROVE  (ProofUsable(p)' => ProofUsable(p)) /\ ProofIsLost(p)
  <2>1. /\ db.lease[p] \in Nat /\ db.spent[p] \in Nat
        /\ db.spent[p] > 0 => db.lease[p] = 0
    BY <1>1 DEF Cache, Counts, Marked
  <2> QED
    BY <1>1, <1>2, <2>1 DEF ProofUsable, ProofIsLost
<1> DEFINE Ended == {n \in Notes : Deadline[n] <= now'}
           Gone == {p \in Proofs : ~ProofUsable(p)'}
<1>5. /\ Left' = [n \in Notes |-> IF n \in Ended THEN 0 ELSE Left[n]]
      /\ Deadline' = [n \in Notes |-> IF n \in Ended THEN 0 ELSE Deadline[n]]
  <2>1. Left' = [n \in Notes |-> Left'[n]] /\ Deadline' = [n \in Notes |-> Deadline'[n]]
    BY DEF Left, Deadline
  <2>2. \A n \in Notes : /\ Left'[n] = IF n \in Ended THEN 0 ELSE Left[n]
                         /\ Deadline'[n] = IF n \in Ended THEN 0 ELSE Deadline[n]
    BY <1>3
  <2> HIDE DEF Ended
  <2> QED
    BY <2>1, <2>2
<1>6. Got' = Got
  BY <1>1 DEF Got, history
<1>7. Fate' = [p \in Proofs |-> IF p \in Gone /\ Fate[p] = "fresh" THEN "void" ELSE Fate[p]]
  BY <1>1, <1>4 DEF Fate, history
<1>8. Promise!Pass
  <2>1. Gone \in SUBSET Proofs
    OBVIOUS
  <2> HIDE DEF Gone
  <2> QED
    BY <1>1, <1>5, <1>6, <1>7, <2>1
    DEF Promise!Pass, Promise!End, Left, Got, Deadline, Fate
<1> QED
  BY <1>3, <1>4, <1>8 DEF LosesForCause

LEMMA RestartIsLose ==
    ASSUME IInv, Restart PROVE Promise!Lose /\ LosesForCause
<1>1. now \in Nat /\ db' = EmptyCache /\ UNCHANGED <<now, history>>
  BY IInvGood DEF Restart
<1>2. /\ \A n \in Notes : ~Available(n)'
      /\ \A p \in Proofs : ~ProofUsable(p)'
  BY <1>1 DEF EmptyCache, NoRecord, Available, ProofUsable
<1>3. /\ Left' = [n \in Notes |-> IF n \in Notes THEN 0 ELSE Left[n]]
      /\ Deadline' = [n \in Notes |-> IF n \in Notes THEN 0 ELSE Deadline[n]]
      /\ Got' = Got
      /\ Fate' = [p \in Proofs |-> IF Fate[p] = "fresh" THEN "void" ELSE Fate[p]]
  BY <1>1, <1>2 DEF Left, Deadline, Got, Fate, history
<1>4. Promise!Lose
  BY <1>1, <1>3 DEF Promise!Lose, Promise!End, Left, Got, Deadline, Fate
<1> QED
  BY <1>1, <1>4 DEF LosesForCause, ProofIsLost, NoteIsLost

\* Every step of the scripts is a step of the promise, or one it does not see,
\* and loses nothing without a cause.
LEMMA StepIsPromised ==
    ASSUME IInv, Counts(db), [Next]_vars
    PROVE  (Promise!Next \/ UNCHANGED Seen) /\ (LosesForCause \/ UNCHANGED vars)
<1>1. ASSUME NEW p \in Proofs, Issue(p)
      PROVE  (Promise!Offer(p) \/ UNCHANGED Seen) /\ LosesForCause
  BY <1>1, IssueIsOffer
<1>2. ASSUME NEW n \in Notes, NEW p \in Proofs, NEW size \in Sizes,
             NEW ttl \in Ttls, NEW views \in Views, Create(n, p, size, ttl, views)
      PROVE  (Promise!Admit(n, p, ttl, views) \/ UNCHANGED Seen) /\ LosesForCause
  BY <1>2, CreateIsAdmit
<1>3. ASSUME NEW n \in Notes, NEW operation \in Operations,
             NEW held \in Capabilities, Access(n, operation, held)
      PROVE  /\ Promise!Retrieve(n) \/ Promise!Revoke(n) \/ UNCHANGED Seen
             /\ LosesForCause
  BY <1>3, AccessIsRetrievalOrRevocation
<1>4. CASE Reap
  BY <1>4, ReapIsSilent
<1>5. CASE NativeExpiry
  BY <1>5, NativeExpiryIsSilent
<1>6. CASE Tick
  BY <1>6, TickIsPass DEF Promise!Next
<1>7. CASE Restart
  BY <1>7, RestartIsLose DEF Promise!Next
<1>8. CASE UNCHANGED vars
  BY <1>8 DEF vars, Seen, Left, Got, Deadline, Fate, Available, ProofUsable
<1> QED
  BY <1>1, <1>2, <1>3, <1>4, <1>5, <1>6, <1>7, <1>8 DEF Next, Promise!Next

-----------------------------------------------------------------------------
(* Results *)

\* Every reachable cache and history is well typed.
THEOREM TypeCorrect == Spec => []TypeOK
<1>1. IInv => TypeOK
  BY DEF IInv
<1> QED
  BY <1>1, InductiveInvariant, PTL

\* Record, index and charge of a note always agree, so no script, failed
\* creation or native expiry can leak quota (common.lua, create.lua, access.lua).
THEOREM LedgerAlwaysAgrees == Spec => []LedgerAgreement
<1>1. IInv => LedgerAgreement
  BY DEF IInv, Sound, LedgerAgreement
<1> QED
  BY <1>1, InductiveInvariant, PTL

\* A note is never retrieved more often than granted, whatever the order in
\* which openings, revocations, expiry, reaping and re-creation happen.
THEOREM ViewsAlwaysAccountedFor == Spec => []ViewsAccountedFor
<1>1. IInv => ViewsAccountedFor
  BY DEF IInv, ViewsAccountedFor, CountsAdd
<1> QED
  BY <1>1, InductiveInvariant, PTL

\* A challenge never pays for a second note.
THEOREM ProofAlwaysPaysOnce == Spec => []ProofPaysOnce
<1>1. IInv => ProofPaysOnce
  BY DEF IInv, TypeOK, Cache, ProofPaysOnce, PaidHasNoLease, ProofUsable
<1> QED
  BY <1>1, InductiveInvariant, PTL

\* The byte counter never drifts from the sum of the charges, for any number
\* of notes, although three scripts move it by differences.
THEOREM TotalAlwaysConserved == Spec => []Conservation
<1>1. Counts(db) => Conservation
  BY DEF Counts, Tight, Conservation, SumOf
<1> QED
  BY <1>1, CountsInvariant, PTL

\* Whatever expires, is reaped late or fails half-way, what is charged and what
\* is leased stays within the configured limits.
THEOREM BudgetAlwaysKept == Spec => []WithinBudget
<1>1. ASSUME IInv, Counts(db) PROVE WithinBudget
  <2> USE ParametersAssumption, FiniteKeysAssumption
  <2>1. now \in Nat /\ db \in Cache
    BY <1>1, IInvGood
  <2> DEFINE live == {p \in Proofs : db.lease[p] > now}
  <2>2. live \in SUBSET Pending(db) /\ Pending(db) \in SUBSET Proofs
    BY <1>1, <2>1 DEF Counts, Tight, Pending, Cache
  <2> HIDE DEF live
  <2>3. Cardinality(live) <= MaxChallenges
    BY <1>1, <2>2, SubsetCounts DEF Counts, Tight
  <2>4. db.total <= MaxBytes /\ Cardinality(Charged(db)) <= MaxNotes
    BY <1>1 DEF IInv, Sound, Counts, Tight
  <2> QED
    BY <2>3, <2>4 DEF WithinBudget, live
<1> QED
  BY <1>1, InductiveInvariant, CountsInvariant, PTL

\* No usable challenge and no living note is lost without its cause, for every
\* number of them and whichever write of a creation is refused.
THEOREM LossAlwaysForCause == Spec => LostForCause
<1>1. ASSUME IInv, Counts(db), [Next]_vars
      PROVE  [(\A p \in Proofs : ProofIsLost(p)) /\ (\A n \in Notes : NoteIsLost(n))]_vars
  BY <1>1, StepIsPromised DEF LosesForCause
<1> QED
  BY <1>1, InductiveInvariant, CountsInvariant, PTL DEF Spec, LostForCause

\* The scripts implement the promise: seen from outside, every behaviour of the
\* ledger is a behaviour of Handoff.
THEOREM PromiseAlwaysKept == Spec => KeepsPromise
<1>1. Init => Promise!Init
  BY DEF Init, EmptyCache, NoRecord, Available, Promise!Init
<1>2. ASSUME IInv, Counts(db), [Next]_vars PROVE [Promise!Next]_(Promise!vars)
  BY <1>2, StepIsPromised DEF Seen, Left, Got, Deadline, Fate, Promise!vars
<1> QED
  BY <1>1, <1>2, InductiveInvariant, CountsInvariant, PTL DEF Spec, KeepsPromise, Promise!Spec
=============================================================================
