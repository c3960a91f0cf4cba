------------------------------- MODULE Composer -------------------------------
(***************************************************************************)
(* The page that creates packages: the Composer (web/src/lib/controllers.  *)
(* ts), the port to its crypto worker (web/src/lib/worker.ts) and what     *)
(* web/src/pages/Create.svelte lets the user do.  An asynchronous method   *)
(* is a call: one action up to its first await, then one action for each   *)
(* answer.  The worker is terminated and the requests are aborted when     *)
(* the page is cleared, but the server may act on what was already sent,   *)
(* and the answer of a call may be queued before its signal is aborted.    *)
(***************************************************************************)
EXTENDS Integers, FiniteSets

CONSTANTS
    Calls,     \* bound: calls that wait for something at the same time
    Packages,  \* bound: packages sealed in a behaviour
    Limit      \* ticks of inactivity before the page is cleared

None == "none"
ASSUME ComposerAssumption == Limit \in Nat \ {0} /\ None \notin Calls \cup Packages

VARIABLES
    page,      \* ComposerState, with the session and the calls of the page
    server,    \* what the server knows of each package
    revoking   \* packages whose DELETE has been sent

vars == <<page, server, revoking>>

(* What an operation of the worker or of the network waits for. *)
Creating == {"seal", "challenge", "proof", "upload"}
Operating == Creating \cup {"revoke"}
Free == [at |-> "free", pkg |-> None]
EverStored == {"stored", "lost", "revoked"}

(* Text, files and passphrase of the draft, by what submit() makes of      *)
(* them: nothing at all, nothing to send yet (a passphrase, blanks, files  *)
(* while the text mode is chosen), a package, or more than the limits.     *)
Drafts == {"empty", "partial", "fits", "over"}

HasData(p) == p.draft # "empty" \/ p.link # None \/ p.busy

Named(p) == ({p.calls[c].pkg : c \in Calls} \cup {p.link, p.receipt}) \ {None}

(* reset.  abandoned is history: the packages of the sessions cleared.     *)
Reset(p) == [p EXCEPT
    !.stage = "compose", !.draft = "empty", !.busy = FALSE, !.link = None,
    !.receipt = None, !.receiptShown = FALSE, !.copied = FALSE, !.error = FALSE,
    !.worker = None, !.abandoned = @ \cup Named(p)]

Session == INSTANCE WebSession

-------------------------------------------------------------------------------
(* Calls *)

Begin(p, c, at, pkg) ==
    Session!Ticket([p EXCEPT !.calls[c] = [at |-> at, pkg |-> pkg]], c)
Finish(p, c) == [p EXCEPT !.calls[c] = Free, !.tickets = @ \ {c}]
Idle(c) == page.calls[c].at = "free"
Awaiting(c, at) == page.calls[c].at = at

(* CryptoWorker.run: the worker takes one command at a time; a command     *)
(* that finds it running is answered worker_busy.                          *)
Ask(p, c) == [p EXCEPT !.worker = IF @ = None THEN c ELSE @]

(* The rest of a method after an await: nothing, unless its ticket is      *)
(* valid.                                                                  *)
Continue(c, Step(_)) ==
    page' = IF Session!Valid(page, c)
            THEN Step(page)
            ELSE Finish(Session!Settled(page, c), c)

-------------------------------------------------------------------------------
(* init *)

Blank ==
    [left |-> Session!Off, timer |-> FALSE, tickets |-> {}, hidden |-> FALSE,
     stage |-> "compose", draft |-> "empty", busy |-> FALSE, configured |-> FALSE,
     link |-> None, receipt |-> None, receiptShown |-> FALSE, copied |-> FALSE,
     error |-> FALSE, worker |-> None, calls |-> [c \in Calls |-> Free],
     abandoned |-> {}]

Init ==
    /\ \E c \in Calls : page = Begin(Blank, c, "config", None)
    /\ server = [k \in Packages |-> "unused"]
    /\ revoking = {}

(* The button "Retry connection". *)
Retry(c) ==
    /\ Idle(c) /\ page.error /\ ~page.configured
    /\ page' = Begin([Session!Expire(page) EXCEPT !.error = FALSE], c, "config", None)
    /\ UNCHANGED <<server, revoking>>

Configured(c) ==
    /\ Awaiting(c, "config")
    /\ Continue(c, LAMBDA p : Finish([p EXCEPT !.configured = TRUE], c))
    /\ UNCHANGED <<server, revoking>>

ConfigFailed(c) ==
    /\ Awaiting(c, "config")
    /\ Continue(c, LAMBDA p :
           Finish([p EXCEPT !.configured = FALSE, !.error = TRUE], c))
    /\ UNCHANGED <<server, revoking>>

-------------------------------------------------------------------------------
(* The draft *)

FormShown == ~page.receiptShown /\ ~page.hidden

Type(d) ==
    /\ FormShown /\ ~page.busy
    /\ page' = Session!Activity([page EXCEPT !.draft = d, !.stage = "compose"])
    /\ UNCHANGED <<server, revoking>>

(* addFiles, by a dialog or a drop: neither is an event the session        *)
(* listens to.  fits says whether the selection is within the limits.      *)
AddFiles(fits) ==
    /\ FormShown /\ ~page.busy
    /\ fits => page.draft # "over"
    /\ page' = IF Session!Due(page) THEN Session!Clear(page)
               ELSE IF ~fits THEN [page EXCEPT !.error = TRUE]
               ELSE Session!Touch([page EXCEPT
                        !.draft = "fits", !.stage = "compose", !.error = FALSE])
    /\ UNCHANGED <<server, revoking>>

(* removeFile, and the buttons of the two modes, which also call edit():   *)
(* neither touches the session.                                            *)
Amend(d) ==
    /\ FormShown /\ ~page.busy /\ page.draft # "empty"
    /\ \E stage \in {page.stage, "compose"} :
           page' = [page EXCEPT !.draft = d, !.stage = stage]
    /\ UNCHANGED <<server, revoking>>

-------------------------------------------------------------------------------
(* submit.  accepted: retrieval limit, expiry and passphrase are valid.    *)

Started(p, c) ==
    Ask(Begin(Session!Touch([p EXCEPT !.busy = TRUE, !.stage = "encrypt",
                                      !.error = FALSE, !.copied = FALSE]),
              c, "seal", None), c)

Submittable(p) == p.configured /\ p.draft = "fits" /\ ~p.busy

Submit(c, accepted) ==
    /\ Idle(c) /\ FormShown /\ Submittable(page)
    /\ page' = IF Session!Due(page) THEN Session!Clear(page)
               ELSE IF ~accepted THEN [page EXCEPT !.error = TRUE]
               ELSE Started(page, c)
    /\ UNCHANGED <<server, revoking>>

Sealed(c, k) ==
    /\ Awaiting(c, "seal") /\ page.worker = c /\ server[k] = "unused"
    /\ Continue(c, LAMBDA p : [p EXCEPT
           !.worker = None, !.stage = "proof",
           !.calls[c] = [at |-> "challenge", pkg |-> k]])
    /\ server' = [server EXCEPT ![k] = "sealed"]
    /\ UNCHANGED revoking

Challenged(c) ==
    /\ Awaiting(c, "challenge")
    /\ Continue(c, LAMBDA p : Ask([p EXCEPT !.calls[c].at = "proof"], c))
    /\ UNCHANGED <<server, revoking>>

Proved(c) ==
    /\ Awaiting(c, "proof") /\ page.worker = c
    /\ Continue(c, LAMBDA p : [p EXCEPT
           !.worker = None, !.stage = "upload", !.calls[c].at = "upload"])
    /\ server' = IF Session!Valid(page, c)
                 THEN [server EXCEPT ![page.calls[c].pkg] = "sent"] ELSE server
    /\ UNCHANGED revoking

(* The page with the link of the package, after the receipt. *)
Shared(p, k) == [p EXCEPT
    !.link = k, !.receipt = k, !.receiptShown = TRUE, !.draft = "empty",
    !.stage = "share", !.busy = FALSE, !.worker = None]

Created_Unguarded(c) ==
    /\ Awaiting(c, "upload") /\ server[page.calls[c].pkg] \in EverStored
    /\ page' = Finish(Shared(page, page.calls[c].pkg), c)
    /\ UNCHANGED <<server, revoking>>
Created(c) ==
    /\ Awaiting(c, "upload") /\ server[page.calls[c].pkg] \in EverStored
    /\ Continue(c, LAMBDA p : Finish(Shared(p, p.calls[c].pkg), c))
    /\ UNCHANGED <<server, revoking>>

(* An await of submit() fails: an error answer of the worker or the        *)
(* server, a worker that died, a network failure, a request that timed     *)
(* out, a receipt for another package, or the abort of a cleared page.     *)
CreationFailed_StaysBusy(p, c) == Finish([p EXCEPT
    !.stage = IF p.link # None THEN "share" ELSE "compose",
    !.error = TRUE, !.worker = None], c)
CreationFailed(p, c) == Finish([p EXCEPT
    !.stage = IF p.link # None THEN "share" ELSE "compose",
    !.error = TRUE, !.worker = None, !.busy = FALSE], c)

SubmitFails(c) ==
    /\ page.calls[c].at \in Creating
    /\ Continue(c, LAMBDA p : CreationFailed(p, c))
    /\ UNCHANGED <<server, revoking>>

-------------------------------------------------------------------------------
(* copyLink and revoke.  late: see Slipped.                                *)

CopyLink(c, late) ==
    /\ Idle(c) /\ page.link # None /\ ~page.hidden
    /\ page' = IF Session!Due(page) THEN Session!Clear(page)
               ELSE Begin(Session!Slipped(page, late), c, "copy", None)
    /\ UNCHANGED <<server, revoking>>

(* Either outcome of the clipboard is reported in the same field. *)
Copied(c) ==
    /\ Awaiting(c, "copy")
    /\ Continue(c, LAMBDA p : Finish([p EXCEPT !.copied = TRUE], c))
    /\ UNCHANGED <<server, revoking>>

(* A page cleared between expire() and ticket() has no receipt; reading it *)
(* throws inside the try block.                                            *)
RevokeThrows(p) == [p EXCEPT !.stage = "share", !.error = TRUE]

Revoke(c, late) ==
    /\ Idle(c) /\ page.receipt # None /\ ~page.busy /\ ~page.hidden
    /\ LET p == Session!Slipped(page, late)
       IN  \/ /\ Session!Due(page)
              /\ page' = Session!Clear(page) /\ UNCHANGED revoking
           \/ /\ ~Session!Due(page) /\ p.receipt = None
              /\ page' = RevokeThrows(p) /\ UNCHANGED revoking
           \/ /\ ~Session!Due(page) /\ p.receipt # None
              /\ page' = Begin([p EXCEPT !.busy = TRUE, !.stage = "revoke"],
                               c, "revoke", p.receipt)
              /\ revoking' = revoking \cup {p.receipt}
    /\ UNCHANGED server

Withdrawn(p, c) == Finish([p EXCEPT
    !.receipt = None, !.stage = "revoked", !.link = None, !.copied = FALSE,
    !.busy = FALSE], c)

Revoked(c) ==
    /\ Awaiting(c, "revoke") /\ server[page.calls[c].pkg] = "revoked"
    /\ Continue(c, LAMBDA p : Withdrawn(p, c))
    /\ UNCHANGED <<server, revoking>>

RevokeFails(c) ==
    /\ Awaiting(c, "revoke")
    /\ Continue(c, LAMBDA p :
           Finish([p EXCEPT !.stage = "share", !.error = TRUE, !.busy = FALSE], c))
    /\ UNCHANGED <<server, revoking>>

-------------------------------------------------------------------------------
(* The session: clear buttons, pagehide and pageshow, other activity and   *)
(* "Keep session active", visibility, the timer, and time.                 *)

Leave == page' = Session!Clear(page) /\ UNCHANGED <<server, revoking>>

Act ==
    /\ ~page.hidden
    /\ page' = Session!Activity(page)
    /\ UNCHANGED <<server, revoking>>

Visibility ==
    /\ page' = IF page.hidden THEN Session!Show(page) ELSE Session!Hide(page, FALSE)
    /\ UNCHANGED <<server, revoking>>

TimerFires ==
    /\ page.timer
    /\ page' = Session!Check(page)
    /\ UNCHANGED <<server, revoking>>

Tick == page' = Session!Elapse(page) /\ UNCHANGED <<server, revoking>>

-------------------------------------------------------------------------------
(* The server *)

ServerMoves(k) ==
    /\ \/ server[k] = "sent" /\ server' = [server EXCEPT ![k] = "stored"]
       \/ server[k] = "stored" /\ server' = [server EXCEPT ![k] = "lost"]
       \/ /\ server[k] = "stored" /\ k \in revoking
          /\ server' = [server EXCEPT ![k] = "revoked"]
    /\ UNCHANGED <<page, revoking>>

-------------------------------------------------------------------------------
UserActs ==
    \/ \E d \in Drafts : Type(d)
    \/ \E fits \in BOOLEAN : AddFiles(fits)
    \/ \E c \in Calls, accepted \in BOOLEAN : Submit(c, accepted)
    \/ Act

Answers(c) ==
    \/ Configured(c) \/ ConfigFailed(c)
    \/ \E k \in Packages : Sealed(c, k)
    \/ Challenged(c) \/ Proved(c) \/ Created(c) \/ SubmitFails(c)
    \/ Revoked(c) \/ RevokeFails(c)

Next ==
    \/ UserActs
    \/ \E d \in Drafts : Amend(d)
    \/ \E c \in Calls : Retry(c) \/ Answers(c) \/ Copied(c)
    \/ \E c \in Calls, late \in BOOLEAN : CopyLink(c, late) \/ Revoke(c, late)
    \/ Leave \/ Visibility \/ TimerFires \/ Tick
    \/ \E k \in Packages : ServerMoves(k)

Spec == Init /\ [][Next]_vars

(* Time passes and the browser runs a due timer; a request ends, because   *)
(* api.ts aborts it after 330 seconds, and so does a command of the        *)
(* worker.  Nothing is assumed of the user, the clipboard or the server.   *)
Fairness ==
    /\ WF_vars(Tick) /\ WF_vars(TimerFires)
    /\ \A c \in Calls : WF_vars(Answers(c))

FairSpec == Spec /\ Fairness

-------------------------------------------------------------------------------
(* Properties *)

Operation == {c \in page.tickets : page.calls[c].at \in Operating}

(* The busy flag says that exactly one operation of this session is under  *)
(* way: two never run side by side, and none leaves the page busy behind   *)
(* it, however it ends (controllers.ts:170, 243, 259, 279).  The worker    *)
(* runs a command exactly when that operation waits for one: it never      *)
(* works for a cleared session, and no command finds it occupied by an     *)
(* older one (worker.ts:74-76, crypto.worker.ts:26-29).                    *)
BusyMeansOneOperation ==
    /\ Cardinality(Operation) = IF page.busy THEN 1 ELSE 0
    /\ \A c \in Calls :
           page.worker = c <=>
               c \in page.tickets /\ page.calls[c].at \in {"seal", "proof"}

(* A link on the page is one the server confirmed, its revocation control  *)
(* is for the same package, the draft is gone, and no package of a cleared *)
(* session ever comes back; a page that says revoked has been told so by   *)
(* the server (controllers.ts:220-233, 265-280, session.ts:68-70).         *)
LinkIsTheSessions ==
    /\ page.link = page.receipt
    /\ page.link # None =>
           /\ server[page.link] \in EverStored
           /\ page.draft = "empty"
           /\ page.link \notin page.abandoned
    /\ page.stage = "revoked" => \E k \in revoking : server[k] = "revoked"

(* Unless the user keeps acting, the page ends up keeping nothing, even    *)
(* when no answer ever comes in time (session.ts:82-104).                  *)
InactivePageForgets ==
    []<>~HasData(page) \/ []<><<UserActs>>_vars

(* A page that does not know the service's limits is asking for them, or   *)
(* shows the error beside which "Retry connection" is offered              *)
(* (web/src/pages/Create.svelte:355-361).                                  *)
ConfigurationIsReachable ==
    \/ page.configured \/ page.error
    \/ \E c \in page.tickets : page.calls[c].at = "config"
===============================================================================
