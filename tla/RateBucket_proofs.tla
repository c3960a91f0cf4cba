-------------------------- MODULE RateBucket_proofs --------------------------
(***************************************************************************)
(* The token bucket keeps its bound at every rate.  The bound itself is    *)
(* not inductive: what a window may still admit is what the bucket holds,  *)
(* so the invariant adds the level to the count.  A level never rises      *)
(* faster than the clock, also when the record expires, because a bucket   *)
(* fills in half the lifetime of its record.                               *)
(***************************************************************************)
EXTENDS RateBucket, TLAPS

\* Admissions counted and admissions still to be had are paid by the burst and
\* by what accrued in the window.
Paid == counted * Token + Level <= Burst + HalfRate * (forward - since)

\* A stored bucket was written at the last admission, by a clock that may have
\* been set back.
Dated == exists => at <= last

IInv == TypeOK /\ Dated /\ Paid

\* Products the solver is told about.
LEMMA Scale ==
    ASSUME NEW r \in Nat, NEW a \in Int, NEW b \in Int, a <= b
    PROVE  r * a <= r * b /\ r * a \in Int /\ r * b \in Int
BY SMT

LEMMA Distribute ==
    ASSUME NEW r \in Nat, NEW a \in Int, NEW b \in Int
    PROVE  r * (a + b) = r * a + r * b /\ r * (a - b) = r * a - r * b
BY SMT

\* The burst is a constant of at least one token.
LEMMA BurstFacts == Burst \in Nat /\ Token <= Burst /\ Token = 2000 /\ Burst' = Burst
BY RateAssumption DEF Burst, Token

\* A bucket's level is never negative and never above its burst.
LEMMA LevelBounded == TypeOK => Level \in 0..Burst
<1> SUFFICES ASSUME TypeOK PROVE Level \in 0..Burst
  OBVIOUS
<1> DEFINE A == Most(0, now - at) * HalfRate
<1>1. A \in Nat
  <2>1. now - at \in Int
    BY DEF TypeOK, now
  <2>2. Most(0, now - at) \in Nat
    BY <2>1 DEF Most
  <2>. QED
    BY <2>2, RateAssumption
<1>2. Burst \in Nat /\ tokens \in 0..Burst
  BY RateAssumption DEF TypeOK, Burst, Token
<1>. HIDE DEF A
<1>3. Least(Burst, tokens + A) \in 0..Burst
  BY <1>1, <1>2 DEF Least
<1>. QED
  BY <1>2, <1>3 DEF Level, A

\* While the clock advances by d, the level rises by what accrues in d at most,
\* whether or not the record expires meanwhile.
LEMMA AdvancedLevel ==
    ASSUME TypeOK, NEW d \in Nat, forward' = forward + d,
           UNCHANGED <<bucket, back>>
    PROVE  Level' <= Level + HalfRate * d
<1> DEFINE a == Most(0, now - at)
           b == Most(0, now + d - at)
           A == a * HalfRate
           B == b * HalfRate
           D == HalfRate * d
<1>1. now \in Int /\ at \in Int /\ now' = now + d /\ UNCHANGED <<exists, tokens, at>>
  BY DEF TypeOK, now, bucket
<1>2. a \in Nat /\ b \in Nat /\ b <= a + d
  BY <1>1 DEF Most
<1>3. A \in Nat /\ B \in Nat /\ D \in Nat /\ B <= A + D
  <2>1. HalfRate * b <= HalfRate * (a + d) /\ HalfRate * (a + d) = HalfRate * a + HalfRate * d
    BY <1>2, Scale, Distribute, RateAssumption
  <2>2. HalfRate * a = A /\ HalfRate * b = B /\ A \in Nat /\ B \in Nat /\ D \in Nat
    BY <1>2, RateAssumption
  <2>. QED
    BY <2>1, <2>2
<1>4. Burst \in Nat /\ tokens \in 0..Burst
  BY RateAssumption DEF TypeOK, Burst, Token
<1>5. Level = IF Live THEN Least(Burst, tokens + A) ELSE Burst
  BY DEF Level
<1>6. Level' = IF Live' THEN Least(Burst, tokens + B) ELSE Burst
  BY <1>1 DEF Level, Burst
<1>7. CASE ~Live
  <2>1. ~Live'
    BY <1>1, <1>7 DEF Live, Lifetime
  <2>. HIDE DEF A, B, D
  <2>. QED
    BY <2>1, <1>7, <1>3, <1>4, <1>5, <1>6 DEF D
<1>8. CASE Live /\ Live'
  <2>. HIDE DEF A, B, D
  <2>1. Level' <= Level + D
    BY <1>8, <1>3, <1>4, <1>5, <1>6 DEF Least
  <2>. QED
    BY <2>1 DEF D
<1>9. CASE Live /\ ~Live'
  <2>1. b >= Lifetime /\ Burst <= B
    <3>1. now + d >= at + Lifetime
      BY <1>1, <1>9 DEF Live, Lifetime
    <3>2. b >= Lifetime
      BY <3>1, <1>1 DEF Most, Lifetime
    <3>3. HalfRate * Token <= HalfRate * b
      BY <3>2, <1>2, Scale, RateAssumption DEF Lifetime, Token
    <3>. QED
      BY <3>2, <3>3, <1>2, RateAssumption DEF Burst
  <2>. HIDE DEF A, B, D
  <2>2. Burst <= Least(Burst, tokens + A) + D
    BY <2>1, <1>3, <1>4 DEF Least
  <2>. QED
    BY <2>2, <1>9, <1>5, <1>6 DEF D
<1>. QED
  BY <1>7, <1>8, <1>9

\* Setting the clock back never raises the level.
LEMMA SetBackLevel ==
    ASSUME TypeOK, NEW d \in Nat, back' = back + d, UNCHANGED <<bucket, forward>>
    PROVE  Level' <= Level
<1> DEFINE a == Most(0, now - at)
           b == Most(0, now - d - at)
           A == a * HalfRate
           B == b * HalfRate
<1>1. now \in Int /\ at \in Int /\ now' = now - d /\ UNCHANGED <<exists, tokens, at>>
  BY DEF TypeOK, now, bucket
<1>2. a \in Nat /\ b \in Nat /\ b <= a
  BY <1>1 DEF Most
<1>3. A \in Nat /\ B \in Nat /\ B <= A
  BY <1>2, Scale, RateAssumption
<1>4. Burst \in Nat /\ tokens \in 0..Burst
  BY RateAssumption DEF TypeOK, Burst, Token
<1>5. Level = IF Live THEN Least(Burst, tokens + A) ELSE Burst
  BY DEF Level
<1>6. Level' = IF Live' THEN Least(Burst, tokens + B) ELSE Burst
  BY <1>1 DEF Level, Burst
<1>7. Live => Live'
  BY <1>1 DEF Live, Lifetime
<1>. HIDE DEF A, B
<1>. QED
  BY <1>3, <1>4, <1>5, <1>6, <1>7 DEF Least

\* An admission takes one token out of the level.
LEMMA AdmittedLevel ==
    ASSUME TypeOK, Admit
    PROVE  Level' = Level - Token /\ tokens' \in 0..Burst
<1>1. Level \in 0..Burst /\ Burst \in Nat
  BY LevelBounded, RateAssumption DEF Burst, Token
<1>2. tokens' = Level - Token /\ tokens' \in 0..Burst
  BY <1>1 DEF Admit, Token
<1>3. now \in Int /\ now' = now /\ at' = now /\ exists' = TRUE
  BY DEF Admit, TypeOK, now
<1>4. Live' /\ Most(0, now' - at') * HalfRate = 0
  BY <1>3, RateAssumption DEF Live, Lifetime, Most
<1>5. Level' = Least(Burst, tokens')
  BY <1>2, <1>4, RateAssumption DEF Level, Burst, Token
<1>. QED
  BY <1>1, <1>2, <1>5 DEF Least

LEMMA InitIInv == Init => IInv
<1> SUFFICES ASSUME Init PROVE IInv
  OBVIOUS
<1>1. TypeOK
  <2>1. 0 \in 0..Burst
    BY BurstFacts
  <2>2. exists \in BOOLEAN
    BY Zenon DEF Init
  <2>3. TypeOK
    BY <2>1, <2>2, SMT DEF Init, TypeOK
  <2>. QED
    BY <2>3
<1>2. Dated
  BY DEF Init, Dated
<1>3. Paid
  <2>1. Level = Burst /\ Burst \in Nat
    BY RateAssumption DEF Init, Level, Live, Burst, Token
  <2>2. HalfRate * (forward - since) = 0 /\ counted * Token = 0
    BY RateAssumption DEF Init, Token
  <2>. QED
    BY <2>1, <2>2 DEF Paid
<1>. QED
  BY <1>1, <1>2, <1>3 DEF IInv

LEMMA NextKeepsIInv == IInv /\ [Next]_vars => IInv'
<1> SUFFICES ASSUME IInv, [Next]_vars PROVE IInv'
  OBVIOUS
<1> USE DEF IInv
<1> DEFINE W == HalfRate * (forward - since)
<1>0. /\ Level \in 0..Burst /\ Burst \in Nat /\ counted * Token \in Nat
      /\ W \in Nat /\ HalfRate \in Nat
  BY LevelBounded, RateAssumption DEF TypeOK, Burst, Token
<1>1. CASE Admit
  <2>1. Level' = Level - Token /\ tokens' \in 0..Burst
    BY <1>1, AdmittedLevel
  <2>2. counted' * Token = counted * Token + Token /\ W' = W
    BY <1>1 DEF Admit, TypeOK, Token
  <2>3. TypeOK'
    BY <1>1, <2>1 DEF Admit, TypeOK, Burst, now
  <2>4. Dated'
    BY <1>1 DEF Admit, Dated, TypeOK, now
  <2>. HIDE DEF W
  <2>5. counted' * Token + Level' <= Burst + W'
    BY <2>1, <2>2, <1>0 DEF Paid, W, Token
  <2>. QED
    BY <2>3, <2>4, <2>5 DEF Paid, W, Burst
<1>2. CASE Refuse \/ UNCHANGED vars
  <2>1. UNCHANGED vars
    BY <1>2 DEF Refuse
  <2>. QED
    BY <2>1 DEF vars, TypeOK, Dated, Paid, Level, Live, now, Burst
<1>3. CASE Purge
  <2>1. Level' = Level
    BY <1>3 DEF Purge, Level, Live, Burst
  <2>2. TypeOK' /\ Dated'
    <3>1. 0 \in 0..Burst'
      BY BurstFacts
    <3>2. exists' \in BOOLEAN
      BY <1>3, Zenon DEF Purge
    <3>3. TypeOK'
      BY <1>3, <3>1, <3>2 DEF Purge, TypeOK
    <3>. QED
      BY <1>3, <3>3 DEF Purge, Dated
  <2>3. Paid'
    BY <1>3, <2>1, BurstFacts DEF Purge, Paid
  <2>. QED
    BY <2>2, <2>3
<1>4. CASE Advance
  <2>1. PICK d \in Steps : forward' = forward + d
    BY <1>4 DEF Advance
  <2>2. d \in Nat /\ Level' <= Level + HalfRate * d
    BY <1>4, <2>1, AdvancedLevel, RateAssumption DEF Advance
  <2>3. TypeOK' /\ Dated'
    BY <1>4, <2>1, <2>2 DEF Advance, TypeOK, Dated, bucket, Burst
  <2>4. W' = W + HalfRate * d /\ counted' = counted
    <3>1. forward' - since' = (forward - since) + d
      BY <1>4, <2>1, <2>2 DEF Advance, TypeOK
    <3>. QED
      BY <1>4, <3>1, <2>2, Distribute, <1>0 DEF Advance, TypeOK
  <2>5. Level' \in 0..Burst
    <3>1. (TypeOK => Level \in 0..Burst)'
      BY LevelBounded, PTL
    <3>. QED
      BY <3>1, <2>3, BurstFacts
  <2>. DEFINE D == HalfRate * d
  <2>6. D \in Nat
    BY <2>2, <1>0
  <2>. HIDE DEF W, D
  <2>7. counted' * Token + Level' <= Burst + W'
    BY <2>2, <2>4, <2>5, <2>6, <1>0 DEF Paid, W, D
  <2>. QED
    BY <2>3, <2>7, BurstFacts DEF Paid, W
<1>5. CASE SetBack
  <2>1. PICK d \in Setbacks : back' = back + d
    BY <1>5 DEF SetBack
  <2>2. d \in Nat /\ Level' <= Level
    BY <1>5, <2>1, SetBackLevel, RateAssumption DEF SetBack
  <2>3. TypeOK' /\ Dated'
    BY <1>5, <2>1, <2>2 DEF SetBack, TypeOK, Dated, bucket, Burst
  <2>4. Level' \in 0..Burst
    <3>1. (TypeOK => Level \in 0..Burst)'
      BY LevelBounded, PTL
    <3>. QED
      BY <3>1, <2>3, BurstFacts
  <2>5. W' = W /\ counted' * Token = counted * Token
    BY <1>5 DEF SetBack
  <2>. HIDE DEF W
  <2>6. counted' * Token + Level' <= Burst + W'
    BY <2>2, <2>4, <2>5, <1>0 DEF Paid, W
  <2>. QED
    BY <2>3, <2>6, BurstFacts DEF Paid, W
<1>6. CASE Watch
  <2>1. Level' = Level /\ counted' * Token = 0 /\ W' = 0
    BY <1>6, <1>0 DEF Watch, bucket, Level, Live, now, Burst, TypeOK, Token
  <2>2. TypeOK' /\ Dated'
    BY <1>6 DEF Watch, bucket, TypeOK, Dated, Burst
  <2>. QED
    BY <2>1, <2>2, <1>0 DEF Paid, Burst
<1>. QED
  BY <1>1, <1>2, <1>3, <1>4, <1>5, <1>6 DEF Next

\* The strengthened invariant holds of every behaviour.
THEOREM InductiveInvariant == Spec => []IInv
<1>1. Init => IInv
  BY InitIInv
<1>2. IInv /\ [Next]_vars => IInv'
  BY NextKeepsIInv
<1>. QED
  BY <1>1, <1>2, PTL DEF Spec

\* The bucket is never overdrawn or overfull, at any rate.
THEOREM BucketTypeCorrect == Spec => []TypeOK
<1>1. IInv => TypeOK
  BY DEF IInv
<1>. QED
  BY <1>1, InductiveInvariant, PTL

\* In every window, at every rate and however the clock moves, the admissions
\* of rate.lua stay within the burst and the accrual.
THEOREM WindowAlwaysBounded == Spec => []WindowBound
<1>1. IInv => WindowBound
  <2> SUFFICES ASSUME IInv PROVE WindowBound
    OBVIOUS
  <2> DEFINE W == HalfRate * (forward - since)
             C == counted * Token
  <2>1. Level \in 0..Burst /\ C + Level <= Burst + W
    BY LevelBounded DEF IInv, Paid
  <2>2. C \in Nat /\ W \in Int /\ Burst \in Nat
    BY BurstFacts, RateAssumption DEF IInv, TypeOK
  <2>. HIDE DEF W, C
  <2>3. C <= Burst + W
    BY <2>1, <2>2
  <2>. QED
    BY <2>3 DEF WindowBound, W, C
<1>. QED
  BY <1>1, InductiveInvariant, PTL

\* rate.lua refuses only within a token's time of an admission, at every rate.
THEOREM RefusalAlwaysForCause == Spec => []RefusedForCause
<1>1. IInv => RefusedForCause
  <2> SUFFICES ASSUME IInv, Level < Token
               PROVE  exists /\ HalfRate * (forward - last - back) < Token
    BY DEF RefusedForCause
  <2> DEFINE a == Most(0, now - at)
             A == a * HalfRate
             Q == HalfRate * (forward - last - back)
  <2>1. Live /\ exists
    BY BurstFacts DEF Level, Live
  <2>2. now - at \in Int /\ forward - last - back \in Int /\ forward - last - back <= now - at
    BY <2>1 DEF IInv, TypeOK, Dated, now
  <2>3. a \in Nat /\ now - at <= a
    BY <2>2 DEF Most
  <2>4. Q <= A /\ Q \in Int /\ A \in Nat
    <3>1. forward - last - back <= a
      BY <2>2, <2>3
    <3>. QED
      BY <3>1, <2>2, <2>3, Scale, RateAssumption
  <2>5. tokens \in 0..Burst /\ Level = Least(Burst, tokens + A)
    BY <2>1 DEF IInv, TypeOK, Level
  <2>. HIDE DEF A, Q
  <2>6. Q < Token
    BY <2>4, <2>5, BurstFacts DEF Least
  <2>. QED
    BY <2>1, <2>6 DEF Q
<1>. QED
  BY <1>1, InductiveInvariant, PTL
=============================================================================
