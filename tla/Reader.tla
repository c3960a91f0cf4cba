-------------------------------- MODULE Reader --------------------------------
(***************************************************************************)
(* The page that opens a package: the Reader (web/src/lib/controllers.ts), *)
(* what web/src/pages/View.svelte lets the user do, and the crypto worker  *)
(* with the secrets it keeps between commands (web/src/lib/crypto.worker.  *)
(* ts).  An asynchronous method is a call: one action up to its first      *)
(* await, then one action for each answer.                                 *)
(***************************************************************************)
EXTENDS Integers, FiniteSets

CONSTANTS
    Calls,      \* bound: calls that wait for something at the same time
    Links,      \* complete links, each to a package of its own
    Protected,  \* links whose package has a passphrase as well
    Views,      \* retrievals of each package
    Urls,       \* bound: object URLs at the same time
    Limit       \* ticks of inactivity before the page is cleared

None == "none"
ASSUME ReaderAssumption ==
    /\ Limit \in Nat \ {0} /\ Views \in Nat \ {0}
    /\ Protected \subseteq Links
    /\ None \notin Calls \cup Links

VARIABLES
    page,    \* ReaderState, private fields, session, calls and worker
    server   \* retrievals left of each package; 0: unavailable

vars == <<page, server>>

Loading == {"load", "meta", "inspect"}
Opening == {"prepare", "open", "decrypt"}
Commands == {"load", "inspect", "prepare", "decrypt"}
Free == [at |-> "free", link |-> None, remaining |-> 0, served |-> FALSE]

(* A worker that was never started, or that has been terminated. *)
NoWorker == [call |-> None, link |-> None, header |-> None, key |-> None]

HasData(p) ==
    p.link # None \/ p.passphrase # None \/ p.content # None \/ p.busy \/ p.phase = "loading"

(* reset.  wanted and asked are history: they outlive the session.         *)
Reset(p) == [p EXCEPT
    !.worker = NoWorker, !.link = None, !.metadata = FALSE, !.urls = {},
    !.phase = "cleared", !.passphrase = None, !.content = None, !.busy = FALSE,
    !.copied = FALSE, !.error = FALSE, !.remaining = 0]

Session == INSTANCE WebSession

-------------------------------------------------------------------------------
(* Calls *)

Begin(p, c, at, link) ==
    Session!Ticket([p EXCEPT !.calls[c] = [Free EXCEPT !.at = at, !.link = link]], c)
Finish(p, c) == [p EXCEPT !.calls[c] = Free, !.tickets = @ \ {c}]
Idle(c) == page.calls[c].at = "free"
Awaiting(c, at) == page.calls[c].at = at

(* CryptoWorker.run: a command that finds the worker running is answered   *)
(* worker_busy.                                                            *)
Ask(p, c) == [p EXCEPT !.worker.call = IF @ = None THEN c ELSE @]

(* The rest of a method after an await: nothing, unless its ticket is      *)
(* valid.                                                                  *)
Continue(c, Step(_)) ==
    page' = IF Session!Valid(page, c)
            THEN Step(page)
            ELSE Finish(Session!Settled(page, c), c)

-------------------------------------------------------------------------------
(* load *)

Blank ==
    [left |-> Session!Off, timer |-> FALSE, tickets |-> {}, hidden |-> FALSE,
     phase |-> "loading", link |-> None, metadata |-> FALSE, required |-> FALSE,
     passphrase |-> None, busy |-> FALSE, error |-> FALSE, content |-> None,
     remaining |-> 0, copied |-> FALSE, urls |-> {}, worker |-> NoWorker,
     calls |-> [c \in Calls |-> Free], wanted |-> None, asked |-> 0]

Requested(p, l) ==
    [p EXCEPT !.phase = "loading", !.error = FALSE, !.wanted = l, !.asked = 0]
Loaded(p, c, l) == Ask(Begin(Session!Touch(Requested(p, l)), c, "load", l), c)

(* onMount: the page may be opened in a background tab. *)
Init ==
    /\ \E c \in Calls, l \in Links, hidden \in BOOLEAN :
           page = Loaded([Blank EXCEPT !.hidden = hidden], c, l)
    /\ server = [l \in Links |-> Views]

(* hashchange *)
Load_Uncleared(c, l) ==
    /\ Idle(c)
    /\ page' = Loaded(page, c, l)
    /\ UNCHANGED server
Load(c, l) ==
    /\ Idle(c)
    /\ page' = Loaded(Session!Clear(page), c, l)
    /\ UNCHANGED server

Parsed_Touches(c) ==
    /\ Awaiting(c, "load") /\ page.worker.call = c
    /\ Continue(c, LAMBDA p : Session!Touch([p EXCEPT
           !.worker.call = None, !.worker.link = p.calls[c].link,
           !.link = p.calls[c].link, !.calls[c].at = "meta"]))
    /\ UNCHANGED server
Parsed(c) ==
    /\ Awaiting(c, "load") /\ page.worker.call = c
    /\ Continue(c, LAMBDA p : [p EXCEPT
           !.worker.call = None, !.worker.link = p.calls[c].link,
           !.link = p.calls[c].link, !.calls[c].at = "meta"])
    /\ UNCHANGED server

MetaAnswered(c, n) ==
    /\ Awaiting(c, "meta")
    /\ n <= server[page.calls[c].link]
    /\ Continue(c, LAMBDA p :
           Ask([p EXCEPT !.calls[c].at = "inspect", !.calls[c].remaining = n], c))
    /\ UNCHANGED server

Inspected(c) ==
    /\ Awaiting(c, "inspect") /\ page.worker.call = c
    /\ page.worker.link = page.calls[c].link /\ page.link = page.calls[c].link
    /\ Continue(c, LAMBDA p : Finish([p EXCEPT
           !.worker.call = None, !.worker.header = p.link, !.metadata = TRUE,
           !.phase = "ready", !.required = p.link \in Protected,
           !.remaining = p.calls[c].remaining], c))
    /\ UNCHANGED server

(* Not a complete link, no answer, an answer that is refused, a worker     *)
(* that died, or the abort of a cleared page.                              *)
LoadFails_Silent(c) ==
    /\ page.calls[c].at \in Loading
    /\ Continue(c, LAMBDA p : Finish([p EXCEPT
           !.worker = NoWorker, !.link = None,
           !.error = TRUE], c))
    /\ UNCHANGED server
LoadFails(c) ==
    /\ page.calls[c].at \in Loading
    /\ Continue(c, LAMBDA p : Finish([p EXCEPT
           !.worker = NoWorker, !.link = None, !.phase = "error",
           !.error = TRUE], c))
    /\ UNCHANGED server

-------------------------------------------------------------------------------
(* open.  late: see Slipped.                                               *)

Type(word) ==
    /\ page.phase = "ready" /\ page.required /\ ~page.busy /\ ~page.hidden
    /\ page' = Session!Activity([page EXCEPT !.passphrase = word])
    /\ UNCHANGED server

Open(c, late) ==
    /\ Idle(c) /\ ~page.hidden /\ ~page.busy
    /\ page.phase = "ready" /\ page.link # None /\ page.metadata
    /\ page' = IF Session!Due(page) THEN Session!Clear(page)
               ELSE IF page.required /\ page.passphrase = None
                    THEN [page EXCEPT !.error = TRUE]
               ELSE Ask(Begin(Session!Slipped([page EXCEPT !.busy = TRUE, !.error = FALSE],
                                              late), c, "prepare", page.link), c)
    /\ UNCHANGED server

(* prepareOpen accepts the words of the package only; what the worker      *)
(* checks belongs to the link it has loaded.                               *)
Unlocks(p) ==
    /\ p.worker.link # None /\ p.worker.header # None
    /\ p.worker.link \in Protected => p.passphrase = "right"

Prepared(c) ==
    /\ Awaiting(c, "prepare") /\ page.worker.call = c /\ Unlocks(page)
    /\ Continue(c, LAMBDA p : [p EXCEPT
           !.worker.call = None, !.worker.key = p.worker.link,
           !.passphrase = None, !.asked = @ + 1, !.calls[c].at = "open"])
    /\ UNCHANGED server

(* The first command of open() fails: the words are wrong, the worker has  *)
(* no link to check, or it died.                                           *)
PrepareFails(c, dies) ==
    /\ Awaiting(c, "prepare")
    /\ Continue(c, LAMBDA p : Finish([p EXCEPT
           !.worker = IF dies THEN NoWorker
                      ELSE [@ EXCEPT !.call = None, !.key = None],
           !.passphrase = None, !.error = TRUE, !.busy = FALSE], c))
    /\ UNCHANGED server

(* The server counts a retrieval, whether or not anyone still waits.       *)
ServerOpens(c) ==
    /\ Awaiting(c, "open") /\ ~page.calls[c].served
    /\ server[page.calls[c].link] > 0
    /\ server' = [server EXCEPT ![page.calls[c].link] = @ - 1]
    /\ page' = [page EXCEPT !.calls[c].served = TRUE]

Opened(c) ==
    /\ Awaiting(c, "open") /\ page.calls[c].served
    /\ Continue(c, LAMBDA p : Ask([p EXCEPT !.calls[c].at = "decrypt"], c))
    /\ UNCHANGED server

Shown(p, c) == Finish([p EXCEPT
    !.content = p.worker.key, !.remaining = @ - 1, !.phase = "open",
    !.link = None, !.metadata = FALSE, !.worker = NoWorker, !.busy = FALSE], c)

Decrypted(c) ==
    /\ Awaiting(c, "decrypt") /\ page.worker.call = c
    /\ Continue(c, LAMBDA p : Shown(p, c))
    /\ UNCHANGED server

(* Once the retrieval has been asked for, a failure ends the attempt: the  *)
(* link is forgotten, so nothing is retried.                               *)
OpenFails_KeepsLink(c) ==
    /\ page.calls[c].at \in {"open", "decrypt"}
    /\ Continue(c, LAMBDA p : Finish([p EXCEPT
           !.passphrase = None, !.error = TRUE, !.worker.call = None,
           !.worker.key = None, !.phase = "ready", !.busy = FALSE], c))
    /\ UNCHANGED server
OpenFails(c) ==
    /\ page.calls[c].at \in {"open", "decrypt"}
    /\ Continue(c, LAMBDA p : Finish([p EXCEPT
           !.passphrase = None, !.error = TRUE, !.worker = NoWorker, !.link = None,
           !.metadata = FALSE, !.phase = "error", !.busy = FALSE], c))
    /\ UNCHANGED server

-------------------------------------------------------------------------------
(* The content *)

CopyText(c, late) ==
    /\ Idle(c) /\ page.content # None /\ ~page.hidden
    /\ page' = IF Session!Due(page) THEN Session!Clear(page)
               ELSE Begin(Session!Slipped(page, late), c, "copy", None)
    /\ UNCHANGED server

Copied(c) ==
    /\ Awaiting(c, "copy")
    /\ Continue(c, LAMBDA p : Finish([p EXCEPT !.copied = TRUE], c))
    /\ UNCHANGED server

Download(u) ==
    /\ page.content # None /\ ~page.hidden /\ u \notin page.urls
    /\ page' = IF Session!Due(page) THEN Session!Clear(page)
               ELSE [page EXCEPT !.urls = @ \cup {u}]
    /\ UNCHANGED server

ReleaseUrl(u) ==
    /\ u \in page.urls
    /\ page' = [page EXCEPT !.urls = @ \ {u}]
    /\ UNCHANGED server

-------------------------------------------------------------------------------
(* The session: clear buttons, pagehide and pageshow, activity and "Keep   *)
(* session active", visibility, the timer, and time.                       *)

Leave == page' = Session!Clear(page) /\ UNCHANGED server

Act ==
    /\ ~page.hidden
    /\ page' = Session!Activity(page)
    /\ UNCHANGED server

HideImmediately(p) == p.phase = "open" \/ p.busy

Visibility ==
    /\ page' = IF page.hidden THEN Session!Show(page)
               ELSE Session!Hide(page, HideImmediately(page))
    /\ UNCHANGED server

TimerFires ==
    /\ page.timer
    /\ page' = Session!Check(page)
    /\ UNCHANGED server

Tick == page' = Session!Elapse(page) /\ UNCHANGED server

-------------------------------------------------------------------------------
(* Other recipients, revocation, expiry and restarts of the cache. *)
ServerLoses(l) ==
    /\ \E n \in 0 .. server[l] - 1 : server' = [server EXCEPT ![l] = n]
    /\ UNCHANGED page

-------------------------------------------------------------------------------
UserActs ==
    \/ \E c \in Calls, l \in Links : Load(c, l)
    \/ \E word \in {None, "wrong", "right"} : Type(word)
    \/ Act

Answers(c) ==
    \/ Parsed(c) \/ Inspected(c) \/ LoadFails(c)
    \/ \E n \in 1 .. Views : MetaAnswered(c, n)
    \/ Prepared(c) \/ Opened(c) \/ Decrypted(c) \/ OpenFails(c)
    \/ \E dies \in BOOLEAN : PrepareFails(c, dies)

Next ==
    \/ UserActs
    \/ \E c \in Calls, late \in BOOLEAN : Open(c, late) \/ CopyText(c, late)
    \/ \E c \in Calls : Answers(c) \/ Copied(c) \/ ServerOpens(c)
    \/ \E u \in Urls : Download(u) \/ ReleaseUrl(u)
    \/ Leave \/ Visibility \/ TimerFires \/ Tick
    \/ \E l \in Links : ServerLoses(l)

Spec == Init /\ [][Next]_vars

(* Time passes and the browser runs a due timer; a request ends, because   *)
(* api.ts aborts it after 330 seconds, and so does a command of the        *)
(* worker.  Nothing is assumed of the user, the clipboard or the server.   *)
Fairness ==
    /\ WF_vars(Tick) /\ WF_vars(TimerFires)
    /\ \A c \in Calls : WF_vars(Answers(c))

FairSpec == Spec /\ Fairness

-------------------------------------------------------------------------------
(* Properties *)

(* Nothing lingers.  A tab nobody sees holds no content and is not about   *)
(* to, and a cleared or failed page keeps no identifier, words, content,   *)
(* key or object URL, in itself or in its worker; no late answer brings    *)
(* anything back (session.ts:43-46, controllers.ts:334-357, 388-398,       *)
(* 430-454).                                                               *)
NothingLingers ==
    /\ page.hidden => page.content = None /\ ~page.busy
    /\ page.phase \in {"cleared", "error"} =>
           /\ page.link = None /\ ~page.metadata
           /\ page.passphrase = None /\ page.content = None /\ page.urls = {}
           /\ [page.worker EXCEPT !.call = None] = NoWorker

(* What the page shows, and what it is working on, is the package of the   *)
(* link it was last given; a result for an earlier link is never shown in  *)
(* its place (View.svelte:30-35, controllers.ts:364-399).                  *)
ContentIsTheWanted ==
    {page.link, page.content, page.worker.link, page.worker.header,
     page.worker.key} \subseteq {page.wanted, None}

(* A link leads to one request for a retrieval at most, and a page that    *)
(* still offers to open it has made none: wrong words cost nothing, and    *)
(* nothing is asked for again by itself (controllers.ts:417-455).          *)
RetrievalAskedOnce ==
    /\ page.asked <= 1
    /\ page.phase \in {"loading", "ready"} /\ ~page.busy => page.asked = 0

(* Loading and opening each have one live call, and exactly while the page *)
(* says so: it never hangs in a state that nothing will end.  On a cleared *)
(* page an opening that lost the race against the deadline may still be    *)
(* about to fail.  The worker runs a command exactly when such a call      *)
(* waits for it, so none is ever answered worker_busy                      *)
(* (crypto.worker.ts:26-29, worker.ts:74-76).                              *)
PhaseMeansCall ==
    LET live(states) == Cardinality({c \in page.tickets : page.calls[c].at \in states})
    IN  /\ live(Loading) = IF page.phase = "loading" THEN 1 ELSE 0
        /\ page.phase # "cleared" => live(Opening) = IF page.busy THEN 1 ELSE 0
        /\ \A c \in Calls :
               page.worker.call = c <=>
                   c \in page.tickets /\ page.calls[c].at \in Commands

(* Only the user moves the deadline away; an answer never does             *)
(* (docs/development.md:113).                                              *)
OnlyTheUserExtends ==
    [][page'.left > page.left => UserActs]_vars

(* Unless the user keeps acting, the page ends up keeping nothing, even    *)
(* when no answer ever comes in time (session.ts:82-104).                  *)
InactivePageForgets ==
    []<>~HasData(page) \/ []<><<UserActs>>_vars

(* A page that offers to open a package still has what opening takes: a    *)
(* failure the user is told to retry can be retried                        *)
(* (web/src/lib/api.ts:260-261).                                           *)
ReadyCanOpen ==
    page.phase = "ready" /\ ~page.busy =>
        page.worker.link = page.link /\ page.worker.header = page.link
===============================================================================
