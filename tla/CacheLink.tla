------------------------------ MODULE CacheLink ------------------------------
(***************************************************************************)
(* The connection an API process shares between its requests               *)
(* (server/src/cache.rs).  Each command takes the mutex to get a clone of  *)
(* the published connection, or connects and publishes a new one; it then  *)
(* sends once, and when that fails or takes too long it withdraws the      *)
(* connection, unless a newer one has been published meanwhile.            *)
(*                                                                         *)
(* Between any two awaits the cache may restart, with another              *)
(* configuration, and the guard of the API server may drop the future.  A  *)
(* command whose deadline passed, or whose future was dropped, may still   *)
(* be run by the cache.  A connection is named by its generation.          *)
(***************************************************************************)
EXTENDS Naturals

CONSTANTS
    Commands,     \* calls of Cache::command, each made once
    RequireSafe,  \* config.require_safe_cache
    MaxRestarts   \* bound: restarts of the cache

ASSUME LinkAssumption == RequireSafe \in BOOLEAN /\ MaxRestarts \in Nat

NoOne == "none"
ASSUME NoOneAssumption == NoOne \notin Commands

VARIABLES
    slot,       \* the published generation; 0: none
    lock,       \* the command holding the mutex over an await
    generation, \* next_generation
    pc,         \* where each command is
    mine,       \* the generation a command uses
    fresh,      \* commands holding an open connection not yet published
    open,       \* generations whose socket is open
    inflight,   \* commands written to a socket and not yet run
    answered,   \* commands whose answer is on its way
    safe,       \* the running cache keeps nothing and evicts nothing
    restarts,
    runs,       \* history: how often the cache ran each command
    failed      \* history: generations on which a command failed

vars == <<slot, lock, generation, pc, mine, fresh, open, inflight, answered,
          safe, restarts, runs, failed>>
link == <<slot, lock, generation>>
wire == <<open, inflight, answered, safe, restarts, runs>>

Running == {"locking", "connecting", "verifying", "sending", "waiting", "failing"}
Finished == {"ok", "error", "dropped"}

Init ==
    /\ slot = 0 /\ lock = NoOne /\ generation = 1
    /\ pc = [c \in Commands |-> "new"]
    /\ mine = [c \in Commands |-> 0]
    /\ fresh = {} /\ open = {} /\ inflight = {} /\ answered = {}
    /\ safe \in BOOLEAN
    /\ restarts = 0
    /\ runs = [c \in Commands |-> 0]
    /\ failed = {}

Move(c, from, to) == pc[c] = from /\ pc' = [pc EXCEPT ![c] = to]

-----------------------------------------------------------------------------
(* acquire *)

Call(c) ==
    /\ Move(c, "new", "locking")
    /\ UNCHANGED <<link, mine, fresh, wire, failed>>

\* A connection is published: its clone is taken without an await.
Reuse(c) ==
    /\ Move(c, "locking", "sending")
    /\ lock = NoOne /\ slot # 0
    /\ mine' = [mine EXCEPT ![c] = slot]
    /\ UNCHANGED <<link, fresh, wire, failed>>

\* None is: the mutex is kept while connecting.
TakeLock(c) ==
    /\ Move(c, "locking", "connecting")
    /\ lock = NoOne /\ slot = 0
    /\ lock' = c
    /\ UNCHANGED <<slot, generation, mine, fresh, wire, failed>>

LockTimeout(c) ==
    /\ Move(c, "locking", "error")
    /\ lock # NoOne
    /\ UNCHANGED <<link, mine, fresh, wire, failed>>

\* The handshake is done; only a required safe configuration takes another await.
Connected(c) ==
    /\ RequireSafe
    /\ Move(c, "connecting", "verifying")
    /\ fresh' = fresh \cup {c}
    /\ UNCHANGED <<link, mine, wire, failed>>

\* Mutant: only the first connection is verified.
Acceptable_AtStart == RequireSafe /\ generation = 1 => safe

\* verify_configuration reads the configuration of the running cache.
Acceptable == RequireSafe => safe

Connects(c) == Move(c, IF RequireSafe THEN "verifying" ELSE "connecting", "sending")

\* The connection, still open, gets the next generation and is published.
Publish(c) ==
    /\ Connects(c)
    /\ RequireSafe => c \in fresh
    /\ Acceptable
    /\ slot' = generation
    /\ mine' = [mine EXCEPT ![c] = generation]
    /\ open' = open \cup {generation}
    /\ generation' = generation + 1
    /\ lock' = NoOne
    /\ fresh' = fresh \ {c}
    /\ UNCHANGED <<inflight, answered, safe, restarts, runs, failed>>

\* Mutant: no deadline on connecting; a cache that does not answer blocks it.
GiveUp_Never(c) ==
    /\ Move(c, "verifying", "error")
    /\ lock' = NoOne
    /\ fresh' = fresh \ {c}
    /\ UNCHANGED <<slot, generation, mine, wire, failed>>

\* Refused, unsafe or too slow: the guard of the mutex is dropped.
GiveUp(c) ==
    /\ Move(c, "connecting", "error") \/ Move(c, "verifying", "error")
    /\ lock' = NoOne
    /\ fresh' = fresh \ {c}
    /\ UNCHANGED <<slot, generation, mine, wire, failed>>

-----------------------------------------------------------------------------
(* command *)

Send(c) ==
    /\ Move(c, "sending", "waiting")
    /\ inflight' = IF mine[c] \in open THEN inflight \cup {c} ELSE inflight
    /\ UNCHANGED <<link, mine, fresh, open, answered, safe, restarts, runs, failed>>

Answer(c) ==
    /\ Move(c, "waiting", "ok")
    /\ c \in answered
    /\ answered' = answered \ {c}
    /\ UNCHANGED <<link, mine, fresh, open, inflight, safe, restarts, runs, failed>>

\* The deadline passed or the socket broke: nothing says whether it ran.
Fail(c) ==
    /\ Move(c, "waiting", "failing")
    /\ failed' = failed \cup {mine[c]}
    /\ UNCHANGED <<link, mine, fresh, wire>>

\* Mutant: whatever is published is withdrawn.
Withdrawn_Any(c) == 0

\* What remains published after the failure of c.
Withdrawn(c) == IF slot = mine[c] THEN 0 ELSE slot

\* Mutant: an ambiguous failure is retried on the next connection.
Settle_Retry(c) ==
    /\ Move(c, "failing", "locking")
    /\ lock = NoOne
    /\ slot' = Withdrawn(c)
    /\ UNCHANGED <<lock, generation, mine, fresh, wire, failed>>

Settle(c) ==
    /\ Move(c, "failing", "error")
    /\ lock = NoOne
    /\ slot' = Withdrawn(c)
    /\ UNCHANGED <<lock, generation, mine, fresh, wire, failed>>

\* Mutant: a lock released by hand stays locked when the future is dropped.
Drop_Locked(c) ==
    /\ pc[c] \in Running
    /\ pc' = [pc EXCEPT ![c] = "dropped"]
    /\ fresh' = fresh \ {c}
    /\ UNCHANGED <<slot, lock, generation, mine, wire, failed>>

\* The future is dropped at an await: the mutex is released, nothing else is.
Drop(c) ==
    /\ pc[c] \in Running
    /\ pc' = [pc EXCEPT ![c] = "dropped"]
    /\ lock' = IF lock = c THEN NoOne ELSE lock
    /\ fresh' = fresh \ {c}
    /\ UNCHANGED <<slot, generation, mine, wire, failed>>

-----------------------------------------------------------------------------
(* The cache *)

Run(c) ==
    /\ c \in inflight
    /\ inflight' = inflight \ {c}
    /\ answered' = answered \cup {c}
    /\ runs' = [runs EXCEPT ![c] = @ + 1]
    /\ UNCHANGED <<link, pc, mine, fresh, open, safe, restarts, failed>>

Restart ==
    /\ restarts < MaxRestarts
    /\ restarts' = restarts + 1
    /\ safe' \in BOOLEAN
    /\ open' = {} /\ fresh' = {} /\ inflight' = {} /\ answered' = {}
    /\ UNCHANGED <<link, pc, mine, runs, failed>>

-----------------------------------------------------------------------------
\* What a command does by itself, sooner or later, because every await of it
\* has a deadline or waits for a mutex whose holder has one.
Step(c) ==
    \/ Reuse(c) \/ TakeLock(c) \/ LockTimeout(c)
    \/ Connected(c) \/ Publish(c) \/ GiveUp(c)
    \/ Send(c) \/ Answer(c) \/ Fail(c) \/ Settle(c)

Next ==
    \/ \E c \in Commands : Call(c) \/ Step(c) \/ Drop(c) \/ Run(c)
    \/ Restart

Spec == Init /\ [][Next]_vars

Fairness ==
    \A c \in Commands :
        /\ WF_vars(Reuse(c) \/ TakeLock(c) \/ LockTimeout(c))
        /\ WF_vars(GiveUp(c))
        /\ WF_vars(Send(c))
        /\ WF_vars(Fail(c))
        /\ WF_vars(Settle(c))
FairSpec == Spec /\ Fairness

-----------------------------------------------------------------------------
(* Properties *)

\* Every value has its type.
TypeOK ==
    /\ slot \in Nat /\ generation \in Nat /\ slot < generation
    /\ lock \in Commands \cup {NoOne}
    /\ pc \in [Commands -> {"new"} \cup Running \cup Finished]
    /\ mine \in [Commands -> Nat]
    /\ fresh \subseteq Commands /\ inflight \subseteq Commands
    /\ answered \subseteq Commands
    /\ open \subseteq Nat /\ failed \subseteq Nat
    /\ safe \in BOOLEAN /\ restarts \in 0..MaxRestarts
    /\ runs \in [Commands -> Nat]

\* Never resend: the cache runs a command at most once, however it failed, and
\* exactly once when the caller was told it succeeded.
RunsAtMostOnce ==
    \A c \in Commands : runs[c] <= 1 /\ (pc[c] = "ok" => runs[c] = 1)

\* The mutex is held over an await only by a command that is connecting, so no
\* dropped or finished command leaves it locked.
LockHolderConnects ==
    \A c \in Commands : lock = c <=> pc[c] \in {"connecting", "verifying"}

\* No command is ever run by a cache that was restarted with persistence or
\* eviction while the safe configuration is required.
OnlySafeCacheRuns ==
    [][RequireSafe => \A c \in Commands : runs'[c] > runs[c] => safe]_vars

\* A published connection is withdrawn only after a command failed on that very
\* connection: a late failure on an old one leaves its replacement in place.
WithdrawnForCause ==
    [][slot # 0 /\ slot' = 0 => slot \in failed]_vars

\* Every call comes back, with an answer or an error.
CallsReturn == \A c \in Commands : pc[c] = "locking" ~> pc[c] \in Finished
=============================================================================
