------------------------------ MODULE RateBucket ------------------------------
(***************************************************************************)
(* One token bucket (server/src/lua/rate.lua), as the challenge, create,   *)
(* public and access classes use it.  The script reads the wall clock of   *)
(* the cache, which may be set back; the record of the bucket expires four *)
(* seconds after its last write.                                           *)
(*                                                                         *)
(* A rate may end in a half (request_rate / 2), so the unit of this model  *)
(* is the two-thousandth of a token: HalfRate of them accrue every         *)
(* millisecond.  Rounding in tostring is left out.                         *)
(***************************************************************************)
EXTENDS Integers

CONSTANTS
    HalfRate,   \* twice the tokens per second
    Steps,      \* milliseconds by which the clock may advance at once
    Setbacks,   \* milliseconds by which the clock may be set back at once
    Horizon,    \* bound: how far the clock advances in all
    MaxBack     \* bound: how far it is set back in all

ASSUME RateAssumption ==
    /\ HalfRate \in Nat \ {0}
    /\ Steps \subseteq Nat /\ Setbacks \subseteq Nat
    /\ Horizon \in Nat /\ MaxBack \in Nat

VARIABLES
    exists,   \* the record of the bucket is stored
    tokens,   \* its fields
    at,
    forward,  \* how far the clock has advanced since the start
    back,     \* how far it has been set back since the start
    last,     \* history: value of forward at the last admission
    since,    \* history: value of forward when the window of interest began
    counted   \* history: requests admitted in that window

vars == <<exists, tokens, at, forward, back, last, since, counted>>
bucket == <<exists, tokens, at>>

Token == 2000
Burst == HalfRate * Token
Lifetime == 4000

now == forward - back

\* Mutant: the record expires before the bucket can be full again.
Live_Short == exists /\ now < at + 1000

\* The record has not reached its PEXPIRE.
Live == exists /\ now < at + Lifetime

Least(a, b) == IF a < b THEN a ELSE b
Most(a, b) == IF a < b THEN b ELSE a

\* What the script computes before it decides.
Level == IF Live THEN Least(Burst, tokens + Most(0, now - at) * HalfRate) ELSE Burst

Init ==
    /\ exists = FALSE /\ tokens = 0 /\ at = 0
    /\ forward = 0 /\ back = 0
    /\ last = 0 /\ since = 0 /\ counted = 0

Admit ==
    /\ Level >= Token
    /\ exists' = TRUE
    /\ tokens' = Level - Token
    /\ at' = now
    /\ last' = forward
    /\ counted' = counted + 1
    /\ UNCHANGED <<forward, back, since>>

\* Mutant: a refusal restarts the clock of the bucket.
Refuse_TouchesAt ==
    /\ Level < Token
    /\ at' = now
    /\ UNCHANGED <<exists, tokens, forward, back, last, since, counted>>

\* return 0: nothing is written.
Refuse ==
    /\ Level < Token
    /\ UNCHANGED vars

\* The cache drops the expired record, sooner or later.
Purge ==
    /\ exists /\ ~Live
    /\ exists' = FALSE /\ tokens' = 0 /\ at' = 0
    /\ UNCHANGED <<forward, back, last, since, counted>>

Advance ==
    /\ \E d \in Steps : forward + d <= Horizon /\ forward' = forward + d
    /\ UNCHANGED <<bucket, back, last, since, counted>>

SetBack ==
    /\ \E d \in Setbacks : back + d <= MaxBack /\ back' = back + d
    /\ UNCHANGED <<bucket, forward, last, since, counted>>

\* Every moment begins a window the bound is about.
Watch ==
    /\ since' = forward /\ counted' = 0
    /\ UNCHANGED <<bucket, forward, back, last>>

Next == Admit \/ Refuse \/ Purge \/ Advance \/ SetBack \/ Watch

Spec == Init /\ [][Next]_vars

-----------------------------------------------------------------------------
(* Properties *)

\* Every value has its type; a stored bucket is neither overdrawn nor overfull.
TypeOK ==
    /\ exists \in BOOLEAN
    /\ tokens \in 0..Burst
    /\ at \in Int
    /\ forward \in Nat /\ back \in Nat
    /\ last \in 0..forward /\ since \in 0..forward
    /\ counted \in Nat

\* In no window are more requests admitted than the burst and what the clock
\* accrued in it: idle time, the expiry of the record and a clock that is set
\* back never add a token.
WindowBound == counted * Token <= Burst + HalfRate * (forward - since)

\* A request is refused only if one was admitted less than a token's time ago,
\* not counting time the clock was set back: refused requests cost nothing.
RefusedForCause ==
    Level < Token => exists /\ HalfRate * (forward - last - back) < Token
=============================================================================
