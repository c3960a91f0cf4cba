--------------------------- MODULE CacheLink_proofs ---------------------------
(***************************************************************************)
(* The safety of the shared connection for any number of commands,         *)
(* restarts and dropped futures.  Nothing here is inductive alone: what    *)
(* the cache has run is known only together with what is still on the wire *)
(* and where each command is.                                              *)
(***************************************************************************)
EXTENDS CacheLink, TLAPS

\* A command not yet sent left no trace; one on the wire has not run; one that
\* ran did so once, and one that succeeded ran.
OnceOf(c) ==
    /\ pc[c] \in {"new", "locking", "connecting", "verifying", "sending"} =>
          c \notin inflight /\ c \notin answered /\ runs[c] = 0
    /\ c \in inflight => c \notin answered /\ runs[c] = 0
    /\ c \in answered => runs[c] = 1
    /\ runs[c] \in {0, 1}
    /\ pc[c] = "ok" => runs[c] = 1

Once == \A c \in Commands : OnceOf(c)

\* A socket that is open, or a command written to one, belongs to a safe cache.
SafeWire == RequireSafe /\ (open # {} \/ inflight # {}) => safe

\* A command about to withdraw its connection failed on it.
FailedOnMine == \A c \in Commands : pc[c] = "failing" => mine[c] \in failed

IInv == TypeOK /\ LockHolderConnects /\ Once /\ SafeWire /\ FailedOnMine

LEMMA InitIInv == Init => IInv
<1> SUFFICES ASSUME Init PROVE IInv
  OBVIOUS
<1>1. TypeOK
  BY LinkAssumption DEF Init, TypeOK, Running, Finished
<1>2. LockHolderConnects
  BY NoOneAssumption DEF Init, LockHolderConnects
<1>3. Once /\ SafeWire /\ FailedOnMine
  BY DEF Init, Once, OnceOf, SafeWire, FailedOnMine
<1>. QED
  BY <1>1, <1>2, <1>3 DEF IInv

LEMMA NextKeepsType == TypeOK /\ [Next]_vars => TypeOK'
<1> SUFFICES ASSUME TypeOK, [Next]_vars PROVE TypeOK'
  OBVIOUS
<1> USE LinkAssumption DEF TypeOK, link, wire, Move, Running, Finished
<1>1. ASSUME NEW c \in Commands,
             Call(c) \/ Reuse(c) \/ TakeLock(c) \/ LockTimeout(c) \/ Connected(c)
      PROVE  TypeOK'
  BY <1>1 DEF Call, Reuse, TakeLock, LockTimeout, Connected
<1>2. ASSUME NEW c \in Commands, Publish(c)
      PROVE  TypeOK'
  BY <1>2 DEF Publish, Connects
<1>3. ASSUME NEW c \in Commands, GiveUp(c) \/ Drop(c)
      PROVE  TypeOK'
  BY <1>3 DEF GiveUp, Drop
<1>4. ASSUME NEW c \in Commands, Send(c) \/ Answer(c) \/ Fail(c)
      PROVE  TypeOK'
  BY <1>4 DEF Send, Answer, Fail
<1>5. ASSUME NEW c \in Commands, Settle(c)
      PROVE  TypeOK'
  BY <1>5 DEF Settle, Withdrawn
<1>6. ASSUME NEW c \in Commands, Run(c)
      PROVE  TypeOK'
  BY <1>6 DEF Run
<1>7. CASE Restart
  BY <1>7 DEF Restart
<1>8. CASE UNCHANGED vars
  BY <1>8 DEF vars
<1>. QED
  BY <1>1, <1>2, <1>3, <1>4, <1>5, <1>6, <1>7, <1>8 DEF Next, Step

LEMMA NextKeepsLock == TypeOK /\ LockHolderConnects /\ [Next]_vars => LockHolderConnects'
<1> SUFFICES ASSUME TypeOK, LockHolderConnects, [Next]_vars PROVE LockHolderConnects'
  OBVIOUS
<1> USE NoOneAssumption DEF LockHolderConnects, TypeOK, link, wire, Move
<1>1. ASSUME NEW c \in Commands,
             Call(c) \/ Reuse(c) \/ TakeLock(c) \/ LockTimeout(c) \/ Connected(c)
      PROVE  LockHolderConnects'
  BY <1>1 DEF Call, Reuse, TakeLock, LockTimeout, Connected
<1>2. ASSUME NEW c \in Commands, Publish(c)
      PROVE  LockHolderConnects'
  BY <1>2 DEF Publish, Connects
<1>3. ASSUME NEW c \in Commands, GiveUp(c) \/ Drop(c)
      PROVE  LockHolderConnects'
  BY <1>3 DEF GiveUp, Drop
<1>4. ASSUME NEW c \in Commands, Send(c) \/ Answer(c) \/ Fail(c) \/ Settle(c)
      PROVE  LockHolderConnects'
  BY <1>4 DEF Send, Answer, Fail, Settle
<1>5. CASE Restart \/ (\E c \in Commands : Run(c)) \/ UNCHANGED vars
  BY <1>5 DEF Restart, Run, vars
<1>. QED
  BY <1>1, <1>2, <1>3, <1>4, <1>5 DEF Next, Step

LEMMA NextKeepsOnce == TypeOK /\ Once /\ [Next]_vars => Once'
<1> SUFFICES ASSUME TypeOK, Once, [Next]_vars, NEW d \in Commands PROVE OnceOf(d)'
  BY DEF Once
<1>0. OnceOf(d)
  BY DEF Once
<1> USE <1>0 DEF OnceOf, TypeOK, link, wire, Move
<1>1. ASSUME NEW c \in Commands,
             \/ Call(c) \/ Reuse(c) \/ TakeLock(c) \/ LockTimeout(c) \/ Connected(c)
             \/ GiveUp(c) \/ Fail(c) \/ Settle(c)
      PROVE  OnceOf(d)'
  BY <1>1 DEF Call, Reuse, TakeLock, LockTimeout, Connected, GiveUp, Fail, Settle
<1>2. ASSUME NEW c \in Commands, Publish(c)
      PROVE  OnceOf(d)'
  BY <1>2 DEF Publish, Connects
<1>3. ASSUME NEW c \in Commands, Drop(c)
      PROVE  OnceOf(d)'
  BY <1>3 DEF Drop, Running
<1>4. ASSUME NEW c \in Commands, Send(c) \/ Answer(c)
      PROVE  OnceOf(d)'
  BY <1>4 DEF Send, Answer
<1>5. ASSUME NEW c \in Commands, Run(c)
      PROVE  OnceOf(d)'
  BY <1>5 DEF Run
<1>6. CASE Restart \/ UNCHANGED vars
  BY <1>6 DEF Restart, vars
<1>. QED
  BY <1>1, <1>2, <1>3, <1>4, <1>5, <1>6 DEF Next, Step

LEMMA NextKeepsSafeWire == TypeOK /\ SafeWire /\ [Next]_vars => SafeWire'
<1> SUFFICES ASSUME TypeOK, SafeWire, [Next]_vars PROVE SafeWire'
  OBVIOUS
<1> USE DEF SafeWire, TypeOK, link, wire
<1>1. ASSUME NEW c \in Commands, Step(c) \/ Call(c) \/ Drop(c) \/ Run(c)
      PROVE  SafeWire'
  BY <1>1 DEF Step, Call, Reuse, TakeLock, LockTimeout, Connected, Publish, Acceptable,
              GiveUp, Send, Answer, Fail, Settle, Drop, Run
<1>2. CASE Restart \/ UNCHANGED vars
  BY <1>2 DEF Restart, vars
<1>. QED
  BY <1>1, <1>2 DEF Next

LEMMA NextKeepsFailed == TypeOK /\ FailedOnMine /\ [Next]_vars => FailedOnMine'
<1> SUFFICES ASSUME TypeOK, FailedOnMine, [Next]_vars, NEW d \in Commands,
                    pc'[d] = "failing"
             PROVE  mine'[d] \in failed'
  BY DEF FailedOnMine
<1> USE DEF FailedOnMine, TypeOK, link, wire, Move
<1>1. ASSUME NEW c \in Commands, Step(c) \/ Call(c) \/ Drop(c) \/ Run(c)
      PROVE  mine'[d] \in failed'
  BY <1>1 DEF Step, Call, Reuse, TakeLock, LockTimeout, Connected, Publish, Connects,
              GiveUp, Send, Answer, Fail, Settle, Drop, Run
<1>2. CASE Restart \/ UNCHANGED vars
  BY <1>2 DEF Restart, vars
<1>. QED
  BY <1>1, <1>2 DEF Next

\* The strengthened invariant holds of every behaviour.
THEOREM InductiveInvariant == Spec => []IInv
<1>1. Init => IInv
  BY InitIInv
<1>2. IInv /\ [Next]_vars => IInv'
  BY NextKeepsType, NextKeepsLock, NextKeepsOnce, NextKeepsSafeWire, NextKeepsFailed DEF IInv
<1>. QED
  BY <1>1, <1>2, PTL DEF Spec

\* Every reachable state of the shared connection is well typed.
THEOREM LinkTypeCorrect == Spec => []TypeOK
<1>1. IInv => TypeOK
  BY DEF IInv
<1>. QED
  BY <1>1, InductiveInvariant, PTL

\* Cache::command never makes the cache run a command twice, and reports
\* success only for one that ran, for any number of commands and failures.
THEOREM CommandsRunAtMostOnce == Spec => []RunsAtMostOnce
<1>1. IInv => RunsAtMostOnce
  <2> SUFFICES ASSUME IInv, NEW c \in Commands
               PROVE  runs[c] <= 1 /\ (pc[c] = "ok" => runs[c] = 1)
    BY DEF RunsAtMostOnce
  <2>1. runs[c] \in {0, 1} /\ (pc[c] = "ok" => runs[c] = 1)
    BY DEF IInv, Once, OnceOf
  <2>. QED
    BY <2>1
<1>. QED
  BY <1>1, InductiveInvariant, PTL

\* The mutex of Cache is held over an await exactly by the command connecting.
THEOREM LockAlwaysHeldByConnecting == Spec => []LockHolderConnects
<1>1. IInv => LockHolderConnects
  BY DEF IInv
<1>. QED
  BY <1>1, InductiveInvariant, PTL

\* No handler's command reaches a cache restarted with an unsafe configuration.
THEOREM UnsafeCacheNeverRuns == Spec => OnlySafeCacheRuns
<1>1. IInv /\ [Next]_vars =>
         [RequireSafe => \A c \in Commands : runs'[c] > runs[c] => safe]_vars
  <2> SUFFICES ASSUME IInv, Next, RequireSafe, NEW d \in Commands, runs'[d] > runs[d]
               PROVE  safe
    OBVIOUS
  <2>1. runs[d] \in Nat
    BY DEF IInv, TypeOK
  <2>2. \E c \in Commands : Run(c)
    <3>1. SUFFICES ASSUME \A c \in Commands : ~Run(c) PROVE runs' = runs
      BY <2>1
    <3>. QED
      BY <3>1 DEF Next, Step, Call, Reuse, TakeLock, LockTimeout, Connected, Publish,
                  GiveUp, Send, Answer, Fail, Settle, Drop, Restart, wire, link
  <2>. QED
    BY <2>2 DEF Run, IInv, SafeWire
<1>. QED
  BY <1>1, InductiveInvariant, PTL DEF Spec, OnlySafeCacheRuns

\* A late failure never withdraws the connection that replaced the failed one.
THEOREM WithdrawalAlwaysForCause == Spec => WithdrawnForCause
<1>1. IInv /\ [Next]_vars => [slot # 0 /\ slot' = 0 => slot \in failed]_vars
  <2> SUFFICES ASSUME IInv, Next, slot # 0, slot' = 0 PROVE slot \in failed
    OBVIOUS
  <2>1. ASSUME NEW c \in Commands, Settle(c)
        PROVE  slot \in failed
    BY <2>1 DEF Settle, Withdrawn, Move, IInv, FailedOnMine
  <2>2. ASSUME NEW c \in Commands, Publish(c)
        PROVE  slot \in failed
    BY <2>2 DEF Publish, IInv, TypeOK
  <2>. QED
    BY <2>1, <2>2 DEF Next, Step, Call, Reuse, TakeLock, LockTimeout, Connected, GiveUp,
                      Send, Answer, Fail, Drop, Run, Restart, link
<1>. QED
  BY <1>1, InductiveInvariant, PTL DEF Spec, WithdrawnForCause
=============================================================================
