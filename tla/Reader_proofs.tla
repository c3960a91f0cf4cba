----------------------------- MODULE Reader_proofs -----------------------------
(***************************************************************************)
(* Proofs about the page that opens a package, for any number of calls,    *)
(* links, retrievals and object URLs.                                      *)
(*                                                                         *)
(* Every step turns the page into a function of the page, most of them     *)
(* functions of the session.  So the invariant is a predicate of a page    *)
(* (Good): lemmas say which functions of the session keep it, and each     *)
(* answer shows it once for a ticket that is valid; for one that is not,   *)
(* a single lemma (StaleGood) covers them all.                             *)
(***************************************************************************)
EXTENDS Reader, FiniteSetTheorems, TLAPS

Ends == {"free", "copy"}

Some == Links \cup {None}
Numbers == Int
Times == Nat \cup {Session!Off}
Phases == {"loading", "ready", "open", "error", "cleared"}
Words == {None, "wrong", "right"}
Workers == [call : Calls \cup {None}, link : Some, header : Some, key : Some]
CallTable == [Calls -> [at : Loading \cup Opening \cup Ends, link : Some,
                        remaining : Numbers, served : BOOLEAN]]

PageType ==
    [left : Times, timer : BOOLEAN, tickets : SUBSET Calls, hidden : BOOLEAN,
     phase : Phases, link : Some, metadata : BOOLEAN, required : BOOLEAN,
     passphrase : Words, busy : BOOLEAN, error : BOOLEAN, content : Some,
     remaining : Numbers, copied : BOOLEAN, urls : SUBSET Urls, worker : Workers,
     calls : CallTable, wanted : Some, asked : Numbers]

(* The calls whose ticket is current and that load or open.                *)
Lives(p, c) == c \in p.tickets /\ p.calls[c].at \in Loading \cup Opening

(* There is one at most.  It loads exactly when the page says so, and      *)
(* opens exactly when the page is busy; only one that slipped past the     *)
(* deadline outlives a clear, and its first command fails.                 *)
OneCall(p) ==
    /\ \A c, d \in Calls : Lives(p, c) /\ Lives(p, d) => c = d
    /\ p.phase = "loading" <=> \E c \in Calls : Lives(p, c) /\ p.calls[c].at \in Loading
    /\ p.phase # "cleared" =>
          (p.busy <=> \E c \in Calls : Lives(p, c) /\ p.calls[c].at \in Opening)
    /\ p.phase = "cleared" => \A c \in Calls : Lives(p, c) => p.calls[c].at = "prepare"
    /\ \A c \in Calls : p.worker.call = c <=> Lives(p, c) /\ p.calls[c].at \in Commands

(* What each phase still keeps.                                            *)
Keeps(p) ==
    /\ p.busy \/ p.metadata \/ p.passphrase # None \/ p.worker.header # None => p.phase = "ready"
    /\ p.worker.key # None => p.busy
    /\ p.link # None \/ p.worker.link # None => p.phase \in {"loading", "ready"}
    /\ p.content # None \/ p.urls # {} => p.phase = "open"
    /\ p.hidden => ~p.busy /\ p.content = None

(* All of it is the package of the link last given.                        *)
OfWanted(p) ==
    /\ {p.link, p.content, p.worker.link, p.worker.header, p.worker.key}
           \subseteq {p.wanted, None}
    /\ \A c \in Calls : Lives(p, c) => p.calls[c].link = p.wanted

(* The retrieval is asked for, and the words are forgotten, when the first  *)
(* command has succeeded.                                                   *)
AskedOnce(p) ==
    /\ p.asked \in {0, 1}
    /\ p.phase \in {"loading", "ready"} /\ ~p.busy => p.asked = 0
    /\ \A c \in Calls : Lives(p, c) =>
           /\ p.calls[c].at = "prepare" => p.asked = 0
           /\ p.calls[c].at \in {"open", "decrypt"} => p.passphrase = None

Good(p) == p \in PageType /\ OneCall(p) /\ Keeps(p) /\ OfWanted(p) /\ AskedOnce(p)

-------------------------------------------------------------------------------
(* The session *)

LEMMA Values ==
    /\ None \in Some /\ None \in Words /\ Session!Off \in Times /\ NoWorker \in Workers
    /\ 0 \in Numbers
    /\ "loading" \in Phases /\ "ready" \in Phases /\ "open" \in Phases
    /\ "error" \in Phases /\ "cleared" \in Phases
BY DEF Numbers, Some, Words, Times, NoWorker, Workers, Phases

LEMMA ClearIsPage == ASSUME NEW p \in PageType PROVE Session!Clear(p) \in PageType
<1> DEFINE a == [p EXCEPT !.left = Session!Off, !.timer = FALSE, !.tickets = {},
                          !.worker = NoWorker, !.link = None]
           b == [a EXCEPT !.metadata = FALSE, !.urls = {}, !.phase = "cleared",
                          !.passphrase = None, !.content = None]
<1>1. Session!Clear(p) = [b EXCEPT !.busy = FALSE, !.copied = FALSE, !.error = FALSE,
                                   !.remaining = 0]
  BY DEF Session!Clear, Reset
<1>2. a \in PageType
  BY Values DEF PageType
<1> HIDE DEF a
<1>3. b \in PageType
  BY <1>2, Values DEF PageType
<1> HIDE DEF b
<1>4. [b EXCEPT !.busy = FALSE, !.copied = FALSE, !.error = FALSE, !.remaining = 0] \in PageType
  BY <1>3, Values DEF PageType
<1> QED
  BY <1>1, <1>4

LEMMA ClearFields ==
    ASSUME NEW p \in PageType, NEW q, q = Session!Clear(p)
    PROVE  /\ q.left = Session!Off /\ q.tickets = {} /\ q.phase = "cleared"
           /\ q.link = None /\ q.metadata = FALSE /\ q.passphrase = None /\ q.busy = FALSE
           /\ q.content = None /\ q.urls = {} /\ q.worker = NoWorker
           /\ q.asked = p.asked /\ q.calls = p.calls /\ q.hidden = p.hidden
BY DEF PageType, Session!Clear, Reset

LEMMA ClearGood ==
    ASSUME NEW p \in PageType, p.asked \in {0, 1}, ReaderAssumption PROVE Good(Session!Clear(p))
<1> DEFINE q == Session!Clear(p)
<1>1. q \in PageType
  BY ClearIsPage
<1> HIDE DEF q
<1>2. /\ q.tickets = {} /\ q.phase = "cleared"
      /\ q.link = None /\ q.metadata = FALSE /\ q.passphrase = None /\ q.busy = FALSE
      /\ q.content = None /\ q.urls = {} /\ q.worker = NoWorker /\ q.asked = p.asked
  BY ClearFields DEF q
<1>4. /\ q.worker.call = None /\ q.worker.link = None /\ q.worker.header = None
      /\ q.worker.key = None
  BY <1>2 DEF NoWorker
<1>3. \A c \in Calls : ~Lives(q, c)
  BY <1>2 DEF Lives
<1>5. Good(q)
  BY <1>1, <1>2, <1>3, <1>4 DEF Good, OneCall, Keeps, OfWanted, AskedOnce, ReaderAssumption
<1> QED
  BY <1>5 DEF q

(* What Good does not look at may change.                                   *)
Alike(p, q) ==
    /\ q \in PageType
    /\ q.tickets = p.tickets /\ q.calls = p.calls /\ q.worker = p.worker
    /\ q.phase = p.phase /\ q.busy = p.busy /\ q.hidden = p.hidden
    /\ q.link = p.link /\ q.metadata = p.metadata /\ q.passphrase = p.passphrase
    /\ q.content = p.content /\ q.urls = p.urls
    /\ q.wanted = p.wanted /\ q.asked = p.asked

LEMMA AlikeGood == ASSUME NEW p, NEW q, Good(p), Alike(p, q) PROVE Good(q)
BY DEF Alike, Good, OneCall, Keeps, OfWanted, AskedOnce, Lives

LEMMA TimeGood ==
    ASSUME NEW p, Good(p), NEW l \in Times, NEW t \in BOOLEAN
    PROVE  /\ Good([p EXCEPT !.left = l, !.timer = t])
           /\ Good([p EXCEPT !.left = l]) /\ Good([p EXCEPT !.timer = t])
<1>1. p \in PageType
  BY DEF Good
<1>2. /\ Alike(p, [p EXCEPT !.left = l, !.timer = t])
      /\ Alike(p, [p EXCEPT !.left = l]) /\ Alike(p, [p EXCEPT !.timer = t])
  BY <1>1 DEF PageType, Alike
<1> QED
  BY <1>2, AlikeGood

LEMMA ExpireGood ==
    ASSUME ReaderAssumption, NEW p, Good(p)
    PROVE  Good(Session!Clear(p)) /\ Good(Session!Expire(p))
BY ClearGood DEF Good, AskedOnce, Session!Expire

LEMMA CheckGood == ASSUME ReaderAssumption, NEW p, Good(p) PROVE Good(Session!Check(p))
BY TimeGood, ExpireGood, Values DEF Session!Check

LEMMA TouchGood ==
    ASSUME ReaderAssumption, NEW p, Good(p)
    PROVE  Good(Session!Touch(p)) /\ Good(Session!Activity(p))
<1> DEFINE l == IF HasData(p) THEN Limit ELSE Session!Off
<1>1. l \in Times
  BY Values DEF Times, ReaderAssumption
<1>2. Session!Touch(p) = Session!Check([p EXCEPT !.left = l])
  BY DEF Session!Touch
<1> HIDE DEF l
<1>3. Good(Session!Touch(p))
  BY <1>1, <1>2, TimeGood, CheckGood
<1> QED
  BY <1>3, ExpireGood DEF Session!Activity

LEMMA SlippedGood ==
    ASSUME ReaderAssumption, NEW p, Good(p), NEW late
    PROVE  Good(Session!Slipped(p, late))
BY ExpireGood DEF Session!Slipped

LEMMA ElapseGood == ASSUME NEW p, Good(p) PROVE Good(Session!Elapse(p))
<1>1. p.left \in Times
  BY DEF Good, PageType
<1>2. p.left > 0 => p.left - 1 \in Times
  BY <1>1 DEF Times, Session!Off
<1> QED
  BY <1>2, TimeGood DEF Session!Elapse

LEMMA HideGood ==
    ASSUME ReaderAssumption, NEW p, Good(p)
    PROVE  Good(Session!Hide(p, HideImmediately(p))) /\ Good(Session!Show(p))
<1> DEFINE q == [p EXCEPT !.hidden = TRUE]
           u == [p EXCEPT !.hidden = FALSE]
<1>1. p \in PageType
  BY DEF Good
<1>2. /\ q \in PageType /\ q.hidden = TRUE
      /\ q.tickets = p.tickets /\ q.calls = p.calls /\ q.worker = p.worker
      /\ q.phase = p.phase /\ q.busy = p.busy
      /\ q.link = p.link /\ q.metadata = p.metadata /\ q.passphrase = p.passphrase
      /\ q.content = p.content /\ q.urls = p.urls
      /\ q.wanted = p.wanted /\ q.asked = p.asked
  BY <1>1 DEF PageType
<1>3. /\ u \in PageType /\ u.hidden = FALSE
      /\ u.tickets = p.tickets /\ u.calls = p.calls /\ u.worker = p.worker
      /\ u.phase = p.phase /\ u.busy = p.busy
      /\ u.link = p.link /\ u.metadata = p.metadata /\ u.passphrase = p.passphrase
      /\ u.content = p.content /\ u.urls = p.urls
      /\ u.wanted = p.wanted /\ u.asked = p.asked
  BY <1>1 DEF PageType
<1>4. Session!Hide(p, HideImmediately(p)) = IF HideImmediately(p) THEN Session!Clear(q) ELSE q
  BY DEF Session!Hide
<1>5. Session!Show(p) = Session!Check(u)
  BY DEF Session!Show
<1> HIDE DEF q, u
<1>6. Good(u)
  BY <1>3 DEF Good, OneCall, Keeps, OfWanted, AskedOnce, Lives
<1>7. ~HideImmediately(p) => Good(q)
  BY <1>2 DEF HideImmediately, Good, OneCall, Keeps, OfWanted, AskedOnce, Lives
<1>8. Good(Session!Clear(q))
  BY <1>2, ClearGood DEF Good, AskedOnce
<1> QED
  BY <1>4, <1>5, <1>6, <1>7, <1>8, CheckGood

(* A call that is not current ends, which nobody notices.                   *)
LEMMA FreeIsCall ==
    ASSUME NEW c \in Calls, NEW calls \in CallTable PROVE [calls EXCEPT ![c] = Free] \in CallTable
BY Values DEF CallTable, Free, Ends, Some

LEMMA FinishFields ==
    ASSUME NEW p \in PageType, NEW c \in Calls, NEW q, q = Finish(p, c)
    PROVE  /\ q \in PageType
           /\ q.tickets = p.tickets \ {c} /\ q.worker = p.worker
           /\ q.phase = p.phase /\ q.busy = p.busy /\ q.hidden = p.hidden
           /\ q.link = p.link /\ q.metadata = p.metadata /\ q.passphrase = p.passphrase
           /\ q.content = p.content /\ q.urls = p.urls
           /\ q.wanted = p.wanted /\ q.asked = p.asked /\ q.left = p.left
           /\ \A d \in Calls : Lives(q, d) <=> d # c /\ Lives(p, d)
           /\ \A d \in Calls \ {c} : q.calls[d] = p.calls[d]
<1> DEFINE calls == [p.calls EXCEPT ![c] = Free]
           tickets == p.tickets \ {c}
<1>1. q = [p EXCEPT !.calls = calls, !.tickets = tickets]
  BY DEF Finish
<1>2. p.calls \in CallTable /\ calls \in CallTable /\ tickets \in SUBSET Calls
  BY FreeIsCall DEF PageType
<1>3. \A d \in Calls \ {c} : calls[d] = p.calls[d]
  BY <1>2 DEF CallTable
<1> HIDE DEF calls
<1>4. /\ q \in PageType
      /\ q.tickets = p.tickets \ {c} /\ q.worker = p.worker
      /\ q.phase = p.phase /\ q.busy = p.busy /\ q.hidden = p.hidden
      /\ q.link = p.link /\ q.metadata = p.metadata /\ q.passphrase = p.passphrase
      /\ q.content = p.content /\ q.urls = p.urls
      /\ q.wanted = p.wanted /\ q.asked = p.asked /\ q.left = p.left /\ q.calls = calls
  BY <1>1, <1>2 DEF PageType
<1> QED
  BY <1>3, <1>4 DEF Lives

LEMMA EndsGood ==
    ASSUME NEW s, Good(s), NEW c \in Calls, ~Lives(s, c) PROVE Good(Finish(s, c))
<1> DEFINE q == Finish(s, c)
<1> HIDE DEF q
<1>1. /\ q \in PageType
      /\ q.worker = s.worker
      /\ q.phase = s.phase /\ q.busy = s.busy /\ q.hidden = s.hidden
      /\ q.link = s.link /\ q.metadata = s.metadata /\ q.passphrase = s.passphrase
      /\ q.content = s.content /\ q.urls = s.urls
      /\ q.wanted = s.wanted /\ q.asked = s.asked
      /\ \A d \in Calls : Lives(q, d) <=> d # c /\ Lives(s, d)
      /\ \A d \in Calls \ {c} : q.calls[d] = s.calls[d]
  BY FinishFields DEF q, Good
<1>2. \A d \in Calls : Lives(q, d) <=> Lives(s, d)
  BY <1>1
<1>3. \A d \in Calls : Lives(s, d) => q.calls[d] = s.calls[d]
  BY <1>1
<1>4. Good(q)
  BY <1>1, <1>2, <1>3 DEF Good, OneCall, Keeps, OfWanted, AskedOnce
<1> QED
  BY <1>4 DEF q

LEMMA StaleGood ==
    ASSUME ReaderAssumption, NEW p, Good(p), NEW c \in Calls, ~Session!Valid(p, c)
    PROVE  Good(Finish(Session!Settled(p, c), c))
<1> DEFINE s == Session!Settled(p, c)
<1>1. Good(s) /\ c \notin s.tickets
  <2>1. CASE c \in p.tickets
    <3>1. s = Session!Clear(p)
      BY <2>1 DEF Session!Settled, Session!Valid, Session!Expire
    <3> QED
      BY <3>1, ExpireGood, ClearFields DEF Good
  <2>2. CASE c \notin p.tickets
    BY <2>2 DEF Session!Settled
  <2> QED
    BY <2>1, <2>2
<1> HIDE DEF s
<1>2. Good(Finish(s, c))
  BY <1>1, EndsGood DEF Lives
<1> QED
  BY <1>2 DEF s

-------------------------------------------------------------------------------
(* The answers *)

States == Loading \cup Opening \cup Ends

(* A call goes on to its next await.                                        *)
LEMMA CallMoves ==
    ASSUME NEW calls \in CallTable, NEW c \in Calls, NEW at \in States,
           NEW k, k = [calls EXCEPT ![c].at = at]
    PROVE  /\ k \in CallTable /\ k[c].at = at /\ k[c].link = calls[c].link
           /\ \A d \in Calls \ {c} : k[d] = calls[d]
BY DEF CallTable, States

LEMMA PageFields ==
    ASSUME NEW p \in PageType, NEW c \in Calls
    PROVE  /\ p.worker \in Workers /\ p.worker.link \in Some /\ p.link \in Some
           /\ p.calls \in CallTable /\ p.calls[c].link \in Some
           /\ p.calls[c].remaining \in Numbers /\ p.left \in Times
           /\ p.calls[c].at \in States
BY DEF PageType, Workers, CallTable, States

LEMMA ParsedGood ==
    ASSUME ReaderAssumption, Good(page), NEW c \in Calls, Parsed(c) PROVE Good(page')
<1> DEFINE p == page
           l == p.calls[c].link
           w == [p.worker EXCEPT !.call = None, !.link = l]
           k == [p.calls EXCEPT ![c].at = "meta"]
           q == [p EXCEPT !.worker = w, !.link = l, !.calls = k]
<1>1. CASE Session!Valid(page, c)
  <2>1. /\ p \in PageType /\ Lives(p, c) /\ p.calls[c].at = "load" /\ p.worker.call = c
        /\ l = p.wanted /\ l \in Some
    BY <1>1, PageFields
       DEF Good, OfWanted, Lives, Session!Valid, Parsed, Awaiting, Loading
  <2>2. page' = q
    BY <1>1, <2>1 DEF Parsed, Continue, PageType, Workers
  <2>3. w \in Workers /\ w.call = None /\ w.link = l /\ w.header = p.worker.header
        /\ w.key = p.worker.key
    BY <2>1, PageFields DEF Workers
  <2>4. /\ k \in CallTable /\ k[c].at = "meta" /\ k[c].link = l
        /\ \A d \in Calls \ {c} : k[d] = p.calls[d]
    <3>1. "meta" \in States
      BY DEF States, Loading
    <3> QED
      BY <2>1, <3>1, PageFields, CallMoves
  <2> HIDE DEF w, k
  <2>5. /\ q \in PageType
        /\ q.tickets = p.tickets /\ q.calls = k /\ q.worker = w
        /\ q.phase = p.phase /\ q.busy = p.busy /\ q.hidden = p.hidden
        /\ q.link = l /\ q.metadata = p.metadata /\ q.passphrase = p.passphrase
        /\ q.content = p.content /\ q.urls = p.urls
        /\ q.wanted = p.wanted /\ q.asked = p.asked
    BY <2>1, <2>3, <2>4 DEF PageType
  <2> HIDE DEF q
  <2>6. \A d \in Calls : Lives(q, d) <=> Lives(p, d)
    BY <2>1, <2>4, <2>5 DEF Lives, Loading
  <2>7. p.phase = "loading"
    BY <2>1 DEF Good, OneCall, Loading
  <2>8. OneCall(q)
    BY <2>1, <2>3, <2>4, <2>5, <2>6, <2>7, ReaderAssumption
       DEF Good, OneCall, Loading, Opening, Commands, ReaderAssumption
  <2>9. Keeps(q) /\ OfWanted(q) /\ AskedOnce(q)
    BY <2>1, <2>3, <2>4, <2>5, <2>6, <2>7 DEF Good, Keeps, OfWanted, AskedOnce
  <2> QED
    BY <2>2, <2>5, <2>8, <2>9 DEF Good
<1>2. CASE ~Session!Valid(page, c)
  BY <1>2, StaleGood DEF Parsed, Continue
<1> QED
  BY <1>1, <1>2

(* The limits arrive.  The command that follows finds the worker free.      *)
LEMMA MetaAnsweredGood ==
    ASSUME ReaderAssumption, Good(page), NEW c \in Calls, NEW n \in Int, MetaAnswered(c, n)
    PROVE  Good(page')
<1> DEFINE p == page
           w == [p.worker EXCEPT !.call = c]
           k == [p.calls EXCEPT ![c].at = "inspect", ![c].remaining = n]
           q == [p EXCEPT !.calls = k, !.worker = w]
<1>1. CASE Session!Valid(page, c)
  <2>1. /\ p \in PageType /\ Lives(p, c) /\ p.calls[c].at = "meta"
        /\ p.calls[c].link = p.wanted
    BY <1>1 DEF Good, OfWanted, Lives, Session!Valid, MetaAnswered, Awaiting, Loading
  <2>2. p.worker.call = None
    <3>1. \A d \in Calls : ~(Lives(p, d) /\ p.calls[d].at \in Commands)
      BY <2>1 DEF Good, OneCall, Commands
    <3> QED
      BY <3>1 DEF Good, OneCall, PageType, Workers
  <2>3. page' = q
    <3>1. page' = Ask([p EXCEPT !.calls = k], c)
      BY <1>1, <2>1 DEF MetaAnswered, Continue, PageType, CallTable
    <3> QED
      BY <2>1, <2>2, <3>1 DEF Ask, PageType
  <2>4. w \in Workers /\ w.call = c /\ w.link = p.worker.link
        /\ w.header = p.worker.header /\ w.key = p.worker.key
    BY <2>1, PageFields DEF Workers
  <2>5. /\ k \in CallTable /\ k[c].at = "inspect" /\ k[c].link = p.wanted
        /\ \A d \in Calls \ {c} : k[d] = p.calls[d]
    BY <2>1, PageFields DEF CallTable, Loading, Numbers
  <2> HIDE DEF w, k
  <2>6. /\ q \in PageType
        /\ q.tickets = p.tickets /\ q.calls = k /\ q.worker = w
        /\ q.phase = p.phase /\ q.busy = p.busy /\ q.hidden = p.hidden
        /\ q.link = p.link /\ q.metadata = p.metadata /\ q.passphrase = p.passphrase
        /\ q.content = p.content /\ q.urls = p.urls
        /\ q.wanted = p.wanted /\ q.asked = p.asked
    BY <2>1, <2>4, <2>5 DEF PageType
  <2> HIDE DEF q
  <2>7. \A d \in Calls : Lives(q, d) <=> Lives(p, d)
    BY <2>1, <2>5, <2>6 DEF Lives, Loading
  <2>8. p.phase = "loading"
    BY <2>1 DEF Good, OneCall, Loading
  <2>9. OneCall(q)
    BY <2>1, <2>4, <2>5, <2>6, <2>7, <2>8, ReaderAssumption
       DEF Good, OneCall, Loading, Opening, Commands, ReaderAssumption
  <2>10. Keeps(q) /\ OfWanted(q) /\ AskedOnce(q)
    BY <2>1, <2>4, <2>5, <2>6, <2>7, <2>8 DEF Good, Keeps, OfWanted, AskedOnce
  <2> QED
    BY <2>3, <2>6, <2>9, <2>10 DEF Good
<1>2. CASE ~Session!Valid(page, c)
  BY <1>2, StaleGood DEF MetaAnswered, Continue
<1> QED
  BY <1>1, <1>2

(* When its only call has ended, a page must not wait for one.              *)
LEMMA QuietGood ==
    ASSUME ReaderAssumption, NEW p, Good(p), NEW c \in Calls, Lives(p, c),
           NEW r \in PageType, r.tickets = p.tickets, r.calls = p.calls,
           r.worker.call = None, r.phase \notin {"loading"}, r.busy = FALSE,
           Keeps(r), r.asked \in {0, 1}, r.phase = "ready" => r.asked = 0,
           {r.link, r.content, r.worker.link, r.worker.header, r.worker.key}
               \subseteq {r.wanted, None}
    PROVE  Good(Finish(r, c))
<1> DEFINE q == Finish(r, c)
<1>1. /\ q \in PageType /\ q.worker = r.worker
      /\ q.phase = r.phase /\ q.busy = r.busy /\ q.hidden = r.hidden
      /\ q.link = r.link /\ q.metadata = r.metadata /\ q.passphrase = r.passphrase
      /\ q.content = r.content /\ q.urls = r.urls
      /\ q.wanted = r.wanted /\ q.asked = r.asked
      /\ \A d \in Calls : Lives(q, d) <=> d # c /\ Lives(r, d)
  BY FinishFields
<1> HIDE DEF q
<1>2. \A d \in Calls : ~Lives(q, d)
  <2>1. \A d \in Calls : Lives(r, d) <=> Lives(p, d)
    BY DEF Lives
  <2> QED
    BY <1>1, <2>1 DEF Good, OneCall
<1>3. Good(q)
  BY <1>1, <1>2 DEF Good, OneCall, Keeps, OfWanted, AskedOnce, ReaderAssumption
<1> QED
  BY <1>3 DEF q

(* The page is ready: it has the words' requirement and the worker has the   *)
(* header of the link.                                                      *)
LEMMA InspectedGood ==
    ASSUME ReaderAssumption, Good(page), NEW c \in Calls, Inspected(c) PROVE Good(page')
<1> DEFINE p == page
           w == [p.worker EXCEPT !.call = None, !.header = p.link]
           needs == p.link \in Protected
           r == [p EXCEPT !.worker = w, !.metadata = TRUE, !.phase = "ready",
                          !.required = needs, !.remaining = p.calls[c].remaining]
<1>1. CASE Session!Valid(page, c)
  <2>1. /\ p \in PageType /\ Lives(p, c) /\ p.calls[c].at = "inspect"
        /\ p.link = p.wanted
    BY <1>1 DEF Good, OfWanted, Lives, Session!Valid, Inspected, Awaiting, Loading
  <2>2. page' = Finish(r, c)
    BY <1>1, <2>1 DEF Inspected, Continue, PageType
  <2>3. w \in Workers /\ w.call = None /\ w.header = p.link
        /\ w.link = p.worker.link /\ w.key = p.worker.key
    BY <2>1, PageFields, Values DEF Workers
  <2>4. needs \in BOOLEAN /\ p.calls[c].remaining \in Numbers
    BY <2>1, PageFields
  <2> HIDE DEF w, needs
  <2>5. /\ r \in PageType
        /\ r.tickets = p.tickets /\ r.calls = p.calls /\ r.worker = w
        /\ r.phase = "ready" /\ r.busy = p.busy /\ r.hidden = p.hidden
        /\ r.link = p.link /\ r.metadata = TRUE /\ r.passphrase = p.passphrase
        /\ r.content = p.content /\ r.urls = p.urls
        /\ r.wanted = p.wanted /\ r.asked = p.asked
    BY <2>1, <2>3, <2>4, Values DEF PageType
  <2> HIDE DEF r
  <2>6. p.phase = "loading"
    BY <2>1 DEF Good, OneCall, Loading
  <2>7. p.busy = FALSE /\ p.asked = 0 /\ p.content = None /\ p.urls = {}
    BY <2>1, <2>6 DEF Good, Keeps, AskedOnce, PageType
  <2>8. Keeps(r) /\ r.busy = FALSE
    BY <2>1, <2>3, <2>5, <2>6, <2>7 DEF Good, Keeps
  <2>9. {r.link, r.content, r.worker.link, r.worker.header, r.worker.key}
            \subseteq {r.wanted, None}
    BY <2>1, <2>3, <2>5, <2>7 DEF Good, OfWanted
  <2>10. Good(Finish(r, c))
    BY <2>1, <2>3, <2>5, <2>7, <2>8, <2>9, QuietGood
  <2> QED
    BY <2>2, <2>10
<1>2. CASE ~Session!Valid(page, c)
  BY <1>2, StaleGood DEF Inspected, Continue
<1> QED
  BY <1>1, <1>2

LEMMA LoadFailsGood ==
    ASSUME ReaderAssumption, Good(page), NEW c \in Calls, LoadFails(c) PROVE Good(page')
<1> DEFINE p == page
           r == [p EXCEPT !.worker = NoWorker, !.link = None, !.phase = "error", !.error = TRUE]
<1>1. CASE Session!Valid(page, c)
  <2>1. p \in PageType /\ Lives(p, c) /\ p.calls[c].at \in Loading
    BY <1>1 DEF Good, Lives, Session!Valid, LoadFails
  <2>2. page' = Finish(r, c)
    BY <1>1 DEF LoadFails, Continue
  <2>3. /\ r \in PageType
        /\ r.tickets = p.tickets /\ r.calls = p.calls /\ r.worker = NoWorker
        /\ r.phase = "error" /\ r.busy = p.busy /\ r.hidden = p.hidden
        /\ r.link = None /\ r.metadata = p.metadata /\ r.passphrase = p.passphrase
        /\ r.content = p.content /\ r.urls = p.urls
        /\ r.wanted = p.wanted /\ r.asked = p.asked
    BY <2>1, Values DEF PageType
  <2> HIDE DEF r
  <2>4. p.phase = "loading"
    BY <2>1 DEF Good, OneCall
  <2>5. /\ p.busy = FALSE /\ p.asked = 0 /\ p.content = None /\ p.urls = {}
        /\ p.metadata = FALSE /\ p.passphrase = None
    BY <2>1, <2>4 DEF Good, Keeps, AskedOnce, PageType
  <2>6. /\ r.worker.call = None /\ r.worker.link = None /\ r.worker.header = None
        /\ r.worker.key = None
    BY <2>3 DEF NoWorker
  <2>7. Keeps(r)
    BY <2>3, <2>5, <2>6 DEF Keeps
  <2>8. Good(Finish(r, c))
    BY <2>1, <2>3, <2>5, <2>6, <2>7, QuietGood
  <2> QED
    BY <2>2, <2>8
<1>2. CASE ~Session!Valid(page, c)
  BY <1>2, StaleGood DEF LoadFails, Continue
<1> QED
  BY <1>1, <1>2

(* The first command of an opening has succeeded, so the page still has its  *)
(* link: the retrieval is asked for, once.                                  *)
LEMMA PreparedGood ==
    ASSUME ReaderAssumption, Good(page), NEW c \in Calls, Prepared(c) PROVE Good(page')
<1> DEFINE p == page
           w == [p.worker EXCEPT !.call = None, !.key = p.worker.link]
           k == [p.calls EXCEPT ![c].at = "open"]
           n == p.asked + 1
           q == [p EXCEPT !.worker = w, !.passphrase = None, !.asked = n, !.calls = k]
<1>1. CASE Session!Valid(page, c)
  <2>1. /\ p \in PageType /\ Lives(p, c) /\ p.calls[c].at = "prepare"
        /\ p.calls[c].link = p.wanted /\ p.worker.link # None /\ p.asked = 0
    BY <1>1 DEF Good, OfWanted, AskedOnce, Lives, Session!Valid, Prepared, Unlocks,
       Awaiting, Opening
  <2>2. page' = q
    BY <1>1, <2>1 DEF Prepared, Continue, PageType, Workers
  <2>3. w \in Workers /\ w.call = None /\ w.link = p.worker.link
        /\ w.header = p.worker.header /\ w.key = p.worker.link
    BY <2>1, PageFields, Values DEF Workers
  <2>4. /\ k \in CallTable /\ k[c].at = "open" /\ k[c].link = p.wanted
        /\ \A d \in Calls \ {c} : k[d] = p.calls[d]
    <3>1. "open" \in States
      BY DEF States, Opening
    <3> QED
      BY <2>1, <3>1, PageFields, CallMoves
  <2>5. n = 1 /\ n \in Numbers
    BY <2>1 DEF Numbers
  <2> HIDE DEF w, k, n
  <2>6. /\ q \in PageType
        /\ q.tickets = p.tickets /\ q.calls = k /\ q.worker = w
        /\ q.phase = p.phase /\ q.busy = p.busy /\ q.hidden = p.hidden
        /\ q.link = p.link /\ q.metadata = p.metadata /\ q.passphrase = None
        /\ q.content = p.content /\ q.urls = p.urls
        /\ q.wanted = p.wanted /\ q.asked = n
    BY <2>1, <2>3, <2>4, <2>5, Values DEF PageType
  <2> HIDE DEF q
  <2>7. \A d \in Calls : Lives(q, d) <=> Lives(p, d)
    BY <2>1, <2>4, <2>6 DEF Lives, Opening
  <2>8. p.phase = "ready" /\ p.busy
    <3>1. p.phase \in {"loading", "ready"}
      BY <2>1 DEF Good, Keeps
    <3>2. p.phase # "loading"
      BY <2>1 DEF Good, OneCall, Loading
    <3> QED
      BY <2>1, <3>1, <3>2 DEF Good, OneCall, Opening
  <2>9. OneCall(q)
    BY <2>1, <2>3, <2>4, <2>6, <2>7, <2>8, ReaderAssumption
       DEF Good, OneCall, Loading, Opening, Commands, ReaderAssumption
  <2>10. Keeps(q) /\ OfWanted(q)
    BY <2>1, <2>3, <2>4, <2>6, <2>7, <2>8 DEF Good, Keeps, OfWanted
  <2>11. AskedOnce(q)
    BY <2>1, <2>4, <2>5, <2>6, <2>7, <2>8 DEF Good, OneCall, AskedOnce
  <2> QED
    BY <2>2, <2>6, <2>9, <2>10, <2>11 DEF Good
<1>2. CASE ~Session!Valid(page, c)
  BY <1>2, StaleGood DEF Prepared, Continue
<1> QED
  BY <1>1, <1>2

LEMMA PrepareFailsGood ==
    ASSUME ReaderAssumption, Good(page), NEW c \in Calls, NEW dies \in BOOLEAN,
           PrepareFails(c, dies)
    PROVE  Good(page')
<1> DEFINE p == page
           w == IF dies THEN NoWorker ELSE [p.worker EXCEPT !.call = None, !.key = None]
           r == [p EXCEPT !.worker = w, !.passphrase = None, !.error = TRUE, !.busy = FALSE]
<1>1. CASE Session!Valid(page, c)
  <2>1. /\ p \in PageType /\ Lives(p, c) /\ p.calls[c].at = "prepare" /\ p.asked = 0
    BY <1>1 DEF Good, AskedOnce, Lives, Session!Valid, PrepareFails, Awaiting, Opening
  <2>2. page' = Finish(r, c)
    BY <1>1, <2>1 DEF PrepareFails, Continue, PageType
  <2>3. /\ w \in Workers /\ w.call = None /\ w.key = None
        /\ w.link \in {p.worker.link, None} /\ w.header \in {p.worker.header, None}
    <3>1. CASE dies
      BY <3>1, Values DEF NoWorker
    <3>2. CASE ~dies
      <4>1. w = [p.worker EXCEPT !.call = None, !.key = None]
        BY <3>2
      <4> QED
        BY <2>1, <4>1, PageFields, Values DEF Workers
    <3> QED
      BY <3>1, <3>2
  <2> HIDE DEF w
  <2>4. /\ r \in PageType
        /\ r.tickets = p.tickets /\ r.calls = p.calls /\ r.worker = w
        /\ r.phase = p.phase /\ r.busy = FALSE /\ r.hidden = p.hidden
        /\ r.link = p.link /\ r.metadata = p.metadata /\ r.passphrase = None
        /\ r.content = p.content /\ r.urls = p.urls
        /\ r.wanted = p.wanted /\ r.asked = p.asked
    BY <2>1, <2>3, Values DEF PageType
  <2> HIDE DEF r
  <2>5. p.phase # "loading"
    BY <2>1 DEF Good, OneCall, Loading
  <2>6. Keeps(r)
    BY <2>3, <2>4 DEF Good, Keeps
  <2>7. {r.link, r.content, r.worker.link, r.worker.header, r.worker.key}
            \subseteq {r.wanted, None}
    BY <2>3, <2>4 DEF Good, OfWanted
  <2>8. Good(Finish(r, c))
    BY <2>1, <2>3, <2>4, <2>5, <2>6, <2>7, QuietGood
  <2> QED
    BY <2>2, <2>8
<1>2. CASE ~Session!Valid(page, c)
  BY <1>2, StaleGood DEF PrepareFails, Continue
<1> QED
  BY <1>1, <1>2

(* The server counts the retrieval of an opening, current or not.           *)
LEMMA ServerOpensGood ==
    ASSUME Good(page), NEW c \in Calls, ServerOpens(c) PROVE Good(page')
<1> DEFINE p == page
           k == [p.calls EXCEPT ![c].served = TRUE]
           q == [p EXCEPT !.calls = k]
<1>1. p \in PageType
  BY DEF Good
<1>2. page' = q
  BY DEF ServerOpens
<1>3. /\ k \in CallTable
      /\ \A d \in Calls : k[d].at = p.calls[d].at /\ k[d].link = p.calls[d].link
  BY <1>1, PageFields DEF CallTable
<1> HIDE DEF k
<1>4. /\ q \in PageType
      /\ q.tickets = p.tickets /\ q.calls = k /\ q.worker = p.worker
      /\ q.phase = p.phase /\ q.busy = p.busy /\ q.hidden = p.hidden
      /\ q.link = p.link /\ q.metadata = p.metadata /\ q.passphrase = p.passphrase
      /\ q.content = p.content /\ q.urls = p.urls
      /\ q.wanted = p.wanted /\ q.asked = p.asked
  BY <1>1, <1>3 DEF PageType
<1> HIDE DEF q
<1>5. \A d \in Calls : /\ Lives(q, d) <=> Lives(p, d)
                       /\ q.calls[d].at = p.calls[d].at /\ q.calls[d].link = p.calls[d].link
  BY <1>3, <1>4 DEF Lives
<1>6. OneCall(q)
  BY <1>4, <1>5 DEF Good, OneCall
<1>7. Keeps(q) /\ OfWanted(q) /\ AskedOnce(q)
  BY <1>4, <1>5 DEF Good, Keeps, OfWanted, AskedOnce
<1> QED
  BY <1>2, <1>4, <1>6, <1>7 DEF Good

(* The packet arrives; the command that decrypts it finds the worker free.  *)
LEMMA OpenedGood ==
    ASSUME ReaderAssumption, Good(page), NEW c \in Calls, Opened(c) PROVE Good(page')
<1> DEFINE p == page
           w == [p.worker EXCEPT !.call = c]
           k == [p.calls EXCEPT ![c].at = "decrypt"]
           q == [p EXCEPT !.calls = k, !.worker = w]
<1>1. CASE Session!Valid(page, c)
  <2>1. /\ p \in PageType /\ Lives(p, c) /\ p.calls[c].at = "open"
        /\ p.calls[c].link = p.wanted
    BY <1>1 DEF Good, OfWanted, Lives, Session!Valid, Opened, Awaiting, Opening
  <2>2. p.worker.call = None
    <3>1. \A d \in Calls : ~(Lives(p, d) /\ p.calls[d].at \in Commands)
      BY <2>1 DEF Good, OneCall, Commands
    <3> QED
      BY <3>1 DEF Good, OneCall, PageType, Workers
  <2>3. page' = q
    <3>1. page' = Ask([p EXCEPT !.calls = k], c)
      BY <1>1, <2>1 DEF Opened, Continue, PageType, CallTable
    <3> QED
      BY <2>1, <2>2, <3>1 DEF Ask, PageType
  <2>4. w \in Workers /\ w.call = c /\ w.link = p.worker.link
        /\ w.header = p.worker.header /\ w.key = p.worker.key
    BY <2>1, PageFields DEF Workers
  <2>5. /\ k \in CallTable /\ k[c].at = "decrypt" /\ k[c].link = p.wanted
        /\ \A d \in Calls \ {c} : k[d] = p.calls[d]
    <3>1. "decrypt" \in States
      BY DEF States, Opening
    <3> QED
      BY <2>1, <3>1, PageFields, CallMoves
  <2> HIDE DEF w, k
  <2>6. /\ q \in PageType
        /\ q.tickets = p.tickets /\ q.calls = k /\ q.worker = w
        /\ q.phase = p.phase /\ q.busy = p.busy /\ q.hidden = p.hidden
        /\ q.link = p.link /\ q.metadata = p.metadata /\ q.passphrase = p.passphrase
        /\ q.content = p.content /\ q.urls = p.urls
        /\ q.wanted = p.wanted /\ q.asked = p.asked
    BY <2>1, <2>4, <2>5 DEF PageType
  <2> HIDE DEF q
  <2>7. \A d \in Calls : Lives(q, d) <=> Lives(p, d)
    BY <2>1, <2>5, <2>6 DEF Lives, Opening
  <2>8. p.phase \notin {"loading", "cleared"}
    BY <2>1 DEF Good, OneCall, Loading
  <2>9. OneCall(q)
    BY <2>1, <2>4, <2>5, <2>6, <2>7, <2>8, ReaderAssumption
       DEF Good, OneCall, Loading, Opening, Commands, ReaderAssumption
  <2>10. Keeps(q) /\ OfWanted(q) /\ AskedOnce(q)
    BY <2>1, <2>4, <2>5, <2>6, <2>7, <2>8 DEF Good, Keeps, OfWanted, AskedOnce, OneCall
  <2> QED
    BY <2>3, <2>6, <2>9, <2>10 DEF Good
<1>2. CASE ~Session!Valid(page, c)
  BY <1>2, StaleGood DEF Opened, Continue
<1> QED
  BY <1>1, <1>2

(* The content is that of the key, and nothing else is left.                *)
LEMMA DecryptedGood ==
    ASSUME ReaderAssumption, Good(page), NEW c \in Calls, Decrypted(c) PROVE Good(page')
<1> DEFINE p == page
           n == p.remaining - 1
           r == [p EXCEPT !.content = p.worker.key, !.remaining = n, !.phase = "open",
                          !.link = None, !.metadata = FALSE, !.worker = NoWorker,
                          !.busy = FALSE]
<1>1. CASE Session!Valid(page, c)
  <2>1. /\ p \in PageType /\ Lives(p, c) /\ p.calls[c].at = "decrypt"
        /\ p.passphrase = None
    BY <1>1 DEF Good, AskedOnce, Lives, Session!Valid, Decrypted, Awaiting, Opening
  <2>2. page' = Finish(r, c)
    BY <1>1, <2>1 DEF Decrypted, Continue, Shown
  <2>3. n \in Numbers /\ p.worker.key \in Some
    BY <2>1 DEF Numbers, PageType, Workers
  <2> HIDE DEF n
  <2>4. /\ r \in PageType
        /\ r.tickets = p.tickets /\ r.calls = p.calls /\ r.worker = NoWorker
        /\ r.phase = "open" /\ r.busy = FALSE /\ r.hidden = p.hidden
        /\ r.link = None /\ r.metadata = FALSE /\ r.passphrase = p.passphrase
        /\ r.content = p.worker.key /\ r.urls = p.urls
        /\ r.wanted = p.wanted /\ r.asked = p.asked
    BY <2>1, <2>3, Values DEF PageType
  <2> HIDE DEF r
  <2>5. p.busy /\ ~p.hidden
    BY <2>1 DEF Good, OneCall, Keeps, Opening
  <2>6. /\ r.worker.call = None /\ r.worker.link = None /\ r.worker.header = None
        /\ r.worker.key = None
    BY <2>4 DEF NoWorker
  <2>7. Keeps(r)
    BY <2>1, <2>4, <2>5, <2>6 DEF Keeps
  <2>8. {r.link, r.content, r.worker.link, r.worker.header, r.worker.key}
            \subseteq {r.wanted, None}
    BY <2>4, <2>6 DEF Good, OfWanted
  <2>9. r.asked \in {0, 1}
    BY <2>4 DEF Good, AskedOnce
  <2>10. Good(Finish(r, c))
    BY <2>1, <2>4, <2>6, <2>7, <2>8, <2>9, QuietGood
  <2> QED
    BY <2>2, <2>10
<1>2. CASE ~Session!Valid(page, c)
  BY <1>2, StaleGood DEF Decrypted, Continue
<1> QED
  BY <1>1, <1>2

LEMMA OpenFailsGood ==
    ASSUME ReaderAssumption, Good(page), NEW c \in Calls, OpenFails(c) PROVE Good(page')
<1> DEFINE p == page
           r == [p EXCEPT !.passphrase = None, !.error = TRUE, !.worker = NoWorker,
                          !.link = None, !.metadata = FALSE, !.phase = "error",
                          !.busy = FALSE]
<1>1. CASE Session!Valid(page, c)
  <2>1. p \in PageType /\ Lives(p, c) /\ p.calls[c].at \in {"open", "decrypt"}
    BY <1>1 DEF Good, Lives, Session!Valid, OpenFails, Opening
  <2>2. page' = Finish(r, c)
    BY <1>1 DEF OpenFails, Continue
  <2>3. /\ r \in PageType
        /\ r.tickets = p.tickets /\ r.calls = p.calls /\ r.worker = NoWorker
        /\ r.phase = "error" /\ r.busy = FALSE /\ r.hidden = p.hidden
        /\ r.link = None /\ r.metadata = FALSE /\ r.passphrase = None
        /\ r.content = p.content /\ r.urls = p.urls
        /\ r.wanted = p.wanted /\ r.asked = p.asked
    BY <2>1, Values DEF PageType
  <2> HIDE DEF r
  <2>4. p.busy
    BY <2>1 DEF Good, OneCall, Opening
  <2>5. p.content = None /\ p.urls = {} /\ p.asked \in {0, 1}
    BY <2>4 DEF Good, Keeps, AskedOnce
  <2>6. /\ r.worker.call = None /\ r.worker.link = None /\ r.worker.header = None
        /\ r.worker.key = None
    BY <2>3 DEF NoWorker
  <2>7. Keeps(r)
    BY <2>3, <2>5, <2>6 DEF Keeps
  <2>8. Good(Finish(r, c))
    BY <2>1, <2>3, <2>5, <2>6, <2>7, QuietGood
  <2> QED
    BY <2>2, <2>8
<1>2. CASE ~Session!Valid(page, c)
  BY <1>2, StaleGood DEF OpenFails, Continue
<1> QED
  BY <1>1, <1>2

LEMMA CopiedGood ==
    ASSUME ReaderAssumption, Good(page), NEW c \in Calls, Copied(c) PROVE Good(page')
<1> DEFINE p == page
           r == [p EXCEPT !.copied = TRUE]
<1>1. CASE Session!Valid(page, c)
  <2>1. p \in PageType /\ ~Lives(p, c)
    BY DEF Good, Lives, Copied, Awaiting, Loading, Opening
  <2>2. page' = Finish(r, c)
    BY <1>1 DEF Copied, Continue
  <2>3. Alike(p, r)
    BY <2>1 DEF PageType, Alike
  <2> HIDE DEF r
  <2>4. Good(r) /\ ~Lives(r, c)
    BY <2>1, <2>3, AlikeGood DEF Alike, Lives
  <2> QED
    BY <2>2, <2>4, EndsGood
<1>2. CASE ~Session!Valid(page, c)
  BY <1>2, StaleGood DEF Copied, Continue
<1> QED
  BY <1>1, <1>2

-------------------------------------------------------------------------------
(* What begins a call, and the rest *)

(* A call begins, and its command finds the worker free.                    *)
LEMMA BeginFields ==
    ASSUME NEW p \in PageType, NEW c \in Calls, NEW at \in States, NEW l \in Some,
           p.worker.call = None, NEW q, q = Ask(Begin(p, c, at, l), c)
    PROVE  /\ q \in PageType
           /\ q.phase = p.phase /\ q.busy = p.busy /\ q.hidden = p.hidden
           /\ q.link = p.link /\ q.metadata = p.metadata /\ q.passphrase = p.passphrase
           /\ q.content = p.content /\ q.urls = p.urls
           /\ q.wanted = p.wanted /\ q.asked = p.asked
           /\ q.worker.call = c /\ q.worker.link = p.worker.link
           /\ q.worker.header = p.worker.header /\ q.worker.key = p.worker.key
           /\ q.calls[c].at = at /\ q.calls[c].link = l
           /\ q.tickets = p.tickets \cup {c}
           /\ \A d \in Calls \ {c} : q.calls[d] = p.calls[d]
<1> DEFINE r == [Free EXCEPT !.at = at, !.link = l]
           k == [p.calls EXCEPT ![c] = r]
           t == p.tickets \cup {c}
           b == [p EXCEPT !.calls = k, !.tickets = t]
           w == [p.worker EXCEPT !.call = c]
<1>1. r \in [at : States, link : Some, remaining : Numbers, served : BOOLEAN]
      /\ r.at = at /\ r.link = l
  <2>1. Free \in [at : States, link : Some, remaining : Numbers, served : BOOLEAN]
    BY Values DEF Free, States, Ends
  <2> QED
    BY <2>1
<1> HIDE DEF r
<1>2. /\ k \in CallTable /\ k[c] = r /\ \A d \in Calls \ {c} : k[d] = p.calls[d]
      /\ t \in SUBSET Calls
  BY <1>1 DEF PageType, CallTable, States
<1>3. b = Begin(p, c, at, l)
  BY DEF Begin, Session!Ticket, PageType, r
<1> HIDE DEF k, t
<1>4. /\ b \in PageType /\ b.calls = k /\ b.tickets = t /\ b.worker = p.worker
      /\ b.phase = p.phase /\ b.busy = p.busy /\ b.hidden = p.hidden
      /\ b.link = p.link /\ b.metadata = p.metadata /\ b.passphrase = p.passphrase
      /\ b.content = p.content /\ b.urls = p.urls
      /\ b.wanted = p.wanted /\ b.asked = p.asked
  BY <1>2 DEF PageType
<1> HIDE DEF b
<1>5. q = [b EXCEPT !.worker = w]
  BY <1>3, <1>4 DEF Ask, PageType
<1>6. /\ w \in Workers /\ w.call = c /\ w.link = p.worker.link
      /\ w.header = p.worker.header /\ w.key = p.worker.key
  BY PageFields DEF Workers
<1> HIDE DEF w
<1>7. /\ q \in PageType /\ q.calls = k /\ q.tickets = t /\ q.worker = w
      /\ q.phase = b.phase /\ q.busy = b.busy /\ q.hidden = b.hidden
      /\ q.link = b.link /\ q.metadata = b.metadata /\ q.passphrase = b.passphrase
      /\ q.content = b.content /\ q.urls = b.urls
      /\ q.wanted = b.wanted /\ q.asked = b.asked
  BY <1>4, <1>5, <1>6 DEF PageType
<1> QED
  BY <1>1, <1>2, <1>4, <1>6, <1>7 DEF t

(* A page without calls that is given a link.                               *)
LEMMA LoadedGood ==
    ASSUME ReaderAssumption, NEW s \in PageType, NEW c \in Calls, NEW l \in Links,
           s.tickets = {}, s.worker = NoWorker, s.busy = FALSE, s.link = None,
           s.metadata = FALSE, s.passphrase = None, s.content = None, s.urls = {}
    PROVE  Good(Loaded(s, c, l))
<1> DEFINE t == Requested(s, l)
           u == Session!Touch(t)
           q == Loaded(s, c, l)
<1>1. /\ t \in PageType /\ t.tickets = {} /\ t.calls = s.calls /\ t.worker = NoWorker
      /\ t.phase = "loading" /\ t.busy = FALSE /\ t.hidden = s.hidden
      /\ t.link = None /\ t.metadata = FALSE /\ t.passphrase = None
      /\ t.content = None /\ t.urls = {} /\ t.wanted = l /\ t.asked = 0
  <2>1. l \in Some
    BY DEF Some
  <2> QED
    BY <2>1, Values DEF Requested, PageType
<1> HIDE DEF t
<1>2. u = [t EXCEPT !.left = Limit, !.timer = TRUE]
  BY <1>1, ReaderAssumption
     DEF Session!Touch, Session!Check, Session!Due, Session!Off, HasData, PageType,
         ReaderAssumption
<1>3. q = Ask(Begin(u, c, "load", l), c)
  BY DEF Loaded, t
<1> HIDE DEF u, q
<1>4. /\ u \in PageType /\ u.tickets = {} /\ u.calls = t.calls /\ u.worker = NoWorker
      /\ u.phase = "loading" /\ u.busy = FALSE /\ u.hidden = t.hidden
      /\ u.link = None /\ u.metadata = FALSE /\ u.passphrase = None
      /\ u.content = None /\ u.urls = {} /\ u.wanted = l /\ u.asked = 0
  <2>1. Limit \in Times
    BY DEF ReaderAssumption, Times
  <2> QED
    BY <1>1, <1>2, <2>1 DEF PageType
<1>5. /\ u.worker.call = None /\ u.worker.link = None /\ u.worker.header = None
      /\ u.worker.key = None
  BY <1>4 DEF NoWorker
<1>6. "load" \in States /\ l \in Some
  BY DEF States, Loading, Some
<1>7. /\ q \in PageType
      /\ q.phase = "loading" /\ q.busy = FALSE /\ q.hidden = u.hidden
      /\ q.link = None /\ q.metadata = FALSE /\ q.passphrase = None
      /\ q.content = None /\ q.urls = {} /\ q.wanted = l /\ q.asked = 0
      /\ q.worker.call = c /\ q.worker.link = None
      /\ q.worker.header = None /\ q.worker.key = None
      /\ q.calls[c].at = "load" /\ q.calls[c].link = l /\ q.tickets = {c}
  BY <1>3, <1>4, <1>5, <1>6, BeginFields
<1>8. \A d \in Calls : Lives(q, d) <=> d = c
  BY <1>7 DEF Lives, Loading
<1>9. OneCall(q)
  BY <1>7, <1>8 DEF OneCall, Loading, Opening, Commands, ReaderAssumption
<1>10. Keeps(q) /\ OfWanted(q) /\ AskedOnce(q)
  BY <1>7, <1>8 DEF Keeps, OfWanted, AskedOnce
<1>11. Good(q)
  BY <1>7, <1>9, <1>10 DEF Good
<1> QED
  BY <1>11 DEF q

LEMMA LoadGood ==
    ASSUME ReaderAssumption, Good(page), NEW c \in Calls, NEW l \in Links, Load(c, l)
    PROVE  Good(page')
<1> DEFINE s == Session!Clear(page)
<1>1. page' = Loaded(s, c, l)
  BY DEF Load
<1> HIDE DEF s
<1>2. /\ s \in PageType /\ s.tickets = {} /\ s.worker = NoWorker /\ s.busy = FALSE
      /\ s.link = None /\ s.metadata = FALSE /\ s.passphrase = None
      /\ s.content = None /\ s.urls = {}
  BY ClearIsPage, ClearFields DEF Good, s
<1> QED
  BY <1>1, <1>2, LoadedGood

LEMMA TypeGood ==
    ASSUME ReaderAssumption, Good(page), NEW word \in Words, Type(word) PROVE Good(page')
<1> DEFINE p == page
           q == [p EXCEPT !.passphrase = word]
<1>1. p \in PageType /\ p.phase = "ready" /\ p.busy = FALSE
  BY DEF Good, PageType, Type
<1>2. /\ q \in PageType
      /\ q.tickets = p.tickets /\ q.calls = p.calls /\ q.worker = p.worker
      /\ q.phase = p.phase /\ q.busy = p.busy /\ q.hidden = p.hidden
      /\ q.link = p.link /\ q.metadata = p.metadata
      /\ q.content = p.content /\ q.urls = p.urls
      /\ q.wanted = p.wanted /\ q.asked = p.asked
  BY <1>1 DEF PageType
<1>3. page' = Session!Activity(q)
  BY DEF Type
<1> HIDE DEF q
<1>4. \A d \in Calls : ~Lives(p, d) /\ ~Lives(q, d)
  BY <1>1, <1>2 DEF Good, OneCall, Lives
<1>5. OneCall(q)
  BY <1>1, <1>2, <1>4 DEF Good, OneCall
<1>6. Keeps(q) /\ OfWanted(q) /\ AskedOnce(q)
  BY <1>1, <1>2, <1>4 DEF Good, Keeps, OfWanted, AskedOnce
<1> QED
  BY <1>2, <1>3, <1>5, <1>6, TouchGood DEF Good

(* An opening begins; if the deadline slipped by, on a cleared page.        *)
LEMMA OpenGood ==
    ASSUME ReaderAssumption, Good(page), NEW c \in Calls, NEW late \in BOOLEAN, Open(c, late)
    PROVE  Good(page')
<1> DEFINE p == page
           b == [p EXCEPT !.busy = TRUE, !.error = FALSE]
           s == Session!Slipped(b, late)
           q == Ask(Begin(s, c, "prepare", p.link), c)
<1>1. /\ p \in PageType /\ p.phase = "ready" /\ p.busy = FALSE /\ p.hidden = FALSE
      /\ p.link = p.wanted /\ p.link \in Some
  BY DEF Good, OfWanted, PageType, Open
<1>2. CASE Session!Due(p)
  BY <1>2, ExpireGood DEF Open
<1>3. CASE page' = [p EXCEPT !.error = TRUE]
  <2>1. Alike(p, [p EXCEPT !.error = TRUE])
    BY <1>1 DEF PageType, Alike
  <2> QED
    BY <1>3, <2>1, AlikeGood
<1>4. CASE page' = q
  <2>1. /\ b \in PageType
        /\ b.tickets = p.tickets /\ b.calls = p.calls /\ b.worker = p.worker
        /\ b.phase = "ready" /\ b.busy = TRUE /\ b.hidden = FALSE
        /\ b.link = p.link /\ b.metadata = p.metadata /\ b.passphrase = p.passphrase
        /\ b.content = p.content /\ b.urls = p.urls
        /\ b.wanted = p.wanted /\ b.asked = p.asked
    BY <1>1 DEF PageType
  <2> HIDE DEF b
  <2>2. /\ \A d \in Calls : ~Lives(p, d)
        /\ p.worker.call = None /\ p.asked = 0 /\ p.content = None
    <3>1. \A d \in Calls : ~Lives(p, d)
      BY <1>1 DEF Good, OneCall, Lives
    <3>2. p.worker.call \in Calls \cup {None}
      BY <1>1 DEF PageType, Workers
    <3> QED
      BY <1>1, <3>1, <3>2 DEF Good, OneCall, AskedOnce, Keeps
  <2>3. "prepare" \in States
    BY DEF States, Opening
  <2>4. CASE s = b
    <3>1. /\ q \in PageType
          /\ q.phase = b.phase /\ q.busy = TRUE /\ q.hidden = b.hidden
          /\ q.link = b.link /\ q.metadata = b.metadata /\ q.passphrase = b.passphrase
          /\ q.content = b.content /\ q.urls = b.urls
          /\ q.wanted = b.wanted /\ q.asked = b.asked
          /\ q.worker.call = c /\ q.worker.link = p.worker.link
          /\ q.worker.header = p.worker.header /\ q.worker.key = p.worker.key
          /\ q.calls[c].at = "prepare" /\ q.calls[c].link = p.link
          /\ q.tickets = b.tickets \cup {c}
          /\ \A d \in Calls \ {c} : q.calls[d] = b.calls[d]
      <4>1. b.worker.call = None /\ b.worker = p.worker
        BY <2>1, <2>2
      <4> HIDE DEF q
      <4> QED
        BY <1>1, <2>1, <2>3, <2>4, <4>1, BeginFields DEF q
    <3> HIDE DEF q
    <3>2. \A d \in Calls : Lives(q, d) <=> d = c
      BY <2>1, <2>2, <3>1 DEF Lives, Opening
    <3>3. OneCall(q)
      BY <2>1, <3>1, <3>2 DEF OneCall, Loading, Opening, Commands, ReaderAssumption
    <3>4. Keeps(q) /\ OfWanted(q) /\ AskedOnce(q)
      BY <1>1, <2>1, <2>2, <3>1, <3>2 DEF Good, Keeps, OfWanted, AskedOnce
    <3> QED
      BY <1>4, <3>1, <3>3, <3>4 DEF Good
  <2>5. CASE s = Session!Clear(b)
    <3>1. /\ s \in PageType
          /\ s.tickets = {} /\ s.phase = "cleared" /\ s.link = None /\ s.metadata = FALSE
          /\ s.passphrase = None /\ s.busy = FALSE /\ s.content = None /\ s.urls = {}
          /\ s.worker = NoWorker /\ s.asked = 0 /\ s.hidden = FALSE /\ s.wanted = p.wanted
      <4>1. s.wanted = b.wanted
        BY <2>1, <2>5 DEF Session!Clear, Reset, PageType
      <4> HIDE DEF s
      <4>2. s \in PageType
        BY <2>1, <2>5, ClearIsPage
      <4>3. /\ s.tickets = {} /\ s.phase = "cleared" /\ s.link = None /\ s.metadata = FALSE
            /\ s.passphrase = None /\ s.busy = FALSE /\ s.content = None /\ s.urls = {}
            /\ s.worker = NoWorker /\ s.asked = b.asked /\ s.hidden = b.hidden
        BY <2>1, <2>5, ClearFields
      <4> QED
        BY <2>1, <2>2, <4>1, <4>2, <4>3
    <3> HIDE DEF s
    <3>2. /\ s.worker.call = None /\ s.worker.link = None /\ s.worker.header = None
          /\ s.worker.key = None
      BY <3>1 DEF NoWorker
    <3>3. /\ q \in PageType
          /\ q.phase = s.phase /\ q.busy = s.busy /\ q.hidden = s.hidden
          /\ q.link = s.link /\ q.metadata = s.metadata /\ q.passphrase = s.passphrase
          /\ q.content = s.content /\ q.urls = s.urls
          /\ q.wanted = s.wanted /\ q.asked = s.asked
          /\ q.worker.call = c /\ q.worker.link = None
          /\ q.worker.header = None /\ q.worker.key = None
          /\ q.calls[c].at = "prepare" /\ q.calls[c].link = p.link
          /\ q.tickets = {c}
      <4> HIDE DEF q
      <4> QED
        BY <1>1, <2>3, <3>1, <3>2, BeginFields DEF q
    <3> HIDE DEF q
    <3>4. \A d \in Calls : Lives(q, d) <=> d = c
      BY <3>3 DEF Lives, Opening
    <3>5. OneCall(q)
      BY <3>1, <3>3, <3>4 DEF OneCall, Loading, Opening, Commands, ReaderAssumption
    <3>6. Keeps(q) /\ OfWanted(q) /\ AskedOnce(q)
      BY <1>1, <3>1, <3>3, <3>4 DEF Keeps, OfWanted, AskedOnce
    <3> QED
      BY <1>4, <3>3, <3>5, <3>6 DEF Good
  <2> QED
    BY <2>4, <2>5 DEF Session!Slipped
<1> QED
  BY <1>2, <1>3, <1>4 DEF Open

LEMMA CopyTextGood ==
    ASSUME ReaderAssumption, Good(page), NEW c \in Calls, NEW late \in BOOLEAN,
           CopyText(c, late)
    PROVE  Good(page')
<1> DEFINE p == page
           s == Session!Slipped(p, late)
           q == Begin(s, c, "copy", None)
           r == [Free EXCEPT !.at = "copy", !.link = None]
           k == [s.calls EXCEPT ![c] = r]
           t == s.tickets \cup {c}
<1>1. CASE Session!Due(p)
  BY <1>1, ExpireGood DEF CopyText
<1>2. CASE ~Session!Due(p)
  <2>1. Good(s) /\ s.calls = p.calls
    <3>1. p \in PageType
      BY DEF Good
    <3>2. s = p \/ s = Session!Clear(p)
      BY DEF Session!Slipped
    <3>3. Good(s)
      BY SlippedGood
    <3> HIDE DEF s
    <3> QED
      BY <3>1, <3>2, <3>3, ClearFields
  <2>2. page' = q /\ p.calls[c].at = "free"
    BY <1>2 DEF CopyText, Idle
  <2> HIDE DEF s
  <2>3. s \in PageType /\ ~Lives(s, c)
    BY <2>1, <2>2 DEF Good, Lives, Loading, Opening
  <2>4. q = [s EXCEPT !.calls = k, !.tickets = t]
    BY <2>3 DEF Begin, Session!Ticket, PageType
  <2>5. r \in [at : States, link : Some, remaining : Numbers, served : BOOLEAN]
        /\ r.at = "copy"
    <3>1. Free \in [at : States, link : Some, remaining : Numbers, served : BOOLEAN]
      BY Values DEF Free, States, Ends
    <3>2. "copy" \in States
      BY DEF States, Ends
    <3> QED
      BY <3>1, <3>2, Values
  <2> HIDE DEF r
  <2>6. /\ k \in CallTable /\ k[c].at = "copy" /\ \A d \in Calls \ {c} : k[d] = s.calls[d]
        /\ t \in SUBSET Calls
    BY <2>3, <2>5 DEF PageType, CallTable, States
  <2> HIDE DEF k, t
  <2>7. /\ q \in PageType
        /\ q.tickets = t /\ q.calls = k /\ q.worker = s.worker
        /\ q.phase = s.phase /\ q.busy = s.busy /\ q.hidden = s.hidden
        /\ q.link = s.link /\ q.metadata = s.metadata /\ q.passphrase = s.passphrase
        /\ q.content = s.content /\ q.urls = s.urls
        /\ q.wanted = s.wanted /\ q.asked = s.asked
    <3> HIDE DEF q
    <3> QED
      BY <2>3, <2>4, <2>6 DEF PageType
  <2> HIDE DEF q
  <2>8. /\ \A d \in Calls : Lives(q, d) <=> Lives(s, d)
        /\ \A d \in Calls : Lives(s, d) => q.calls[d] = s.calls[d]
    BY <2>3, <2>6, <2>7 DEF Lives, Loading, Opening, t
  <2>9. OneCall(q) /\ Keeps(q)
    BY <2>1, <2>7, <2>8 DEF Good, OneCall, Keeps
  <2>10. OfWanted(q) /\ AskedOnce(q)
    BY <2>1, <2>7, <2>8 DEF Good, OfWanted, AskedOnce
  <2> QED
    BY <2>2, <2>7, <2>9, <2>10 DEF Good
<1> QED
  BY <1>1, <1>2

LEMMA UrlsGood ==
    ASSUME ReaderAssumption, Good(page), NEW u \in Urls, Download(u) \/ ReleaseUrl(u)
    PROVE  Good(page')
<1>1. page \in PageType
  BY DEF Good
<1>2. ASSUME NEW urls \in SUBSET Urls, NEW q, q = [page EXCEPT !.urls = urls],
             page.content # None \/ urls \subseteq page.urls
      PROVE  Good(q)
  <2>1. /\ q \in PageType
        /\ q.tickets = page.tickets /\ q.calls = page.calls /\ q.worker = page.worker
        /\ q.phase = page.phase /\ q.busy = page.busy /\ q.hidden = page.hidden
        /\ q.link = page.link /\ q.metadata = page.metadata
        /\ q.passphrase = page.passphrase /\ q.content = page.content /\ q.urls = urls
        /\ q.wanted = page.wanted /\ q.asked = page.asked
    BY <1>1, <1>2 DEF PageType
  <2>2. OneCall(q) /\ OfWanted(q) /\ AskedOnce(q)
    BY <2>1 DEF Good, OneCall, OfWanted, AskedOnce, Lives
  <2>3. Keeps(q)
    BY <1>2, <2>1 DEF Good, Keeps
  <2> QED
    BY <2>1, <2>2, <2>3 DEF Good
<1>3. CASE Download(u)
  <2>1. page.urls \cup {u} \in SUBSET Urls
    BY <1>1 DEF PageType
  <2>2. Good([page EXCEPT !.urls = page.urls \cup {u}])
    BY <1>2, <1>3, <2>1 DEF Download
  <2> QED
    BY <1>3, <2>2, ExpireGood DEF Download
<1>4. CASE ReleaseUrl(u)
  <2>1. page.urls \ {u} \in SUBSET Urls
    BY <1>1 DEF PageType
  <2>2. Good([page EXCEPT !.urls = page.urls \ {u}])
    BY <1>2, <2>1
  <2> QED
    BY <1>4, <2>2 DEF ReleaseUrl
<1> QED
  BY <1>3, <1>4

LEMMA InitGood == ASSUME ReaderAssumption, Init PROVE Good(page)
<1>1. PICK c \in Calls, l \in Links, hidden \in BOOLEAN :
        page = Loaded([Blank EXCEPT !.hidden = hidden], c, l)
  BY DEF Init
<1> DEFINE s == [Blank EXCEPT !.hidden = hidden]
           k == [d \in Calls |-> Free]
<1>2. k \in CallTable
  <2>1. Free \in [at : Loading \cup Opening \cup Ends, link : Some, remaining : Numbers,
                  served : BOOLEAN]
    BY Values DEF Free, Ends
  <2> QED
    BY <2>1 DEF CallTable
<1>3. Blank \in PageType /\ Blank.tickets = {} /\ Blank.worker = NoWorker
      /\ Blank.busy = FALSE /\ Blank.link = None /\ Blank.metadata = FALSE
      /\ Blank.passphrase = None /\ Blank.content = None /\ Blank.urls = {}
  <2> HIDE DEF k
  <2>1. Blank = [left |-> Session!Off, timer |-> FALSE, tickets |-> {}, hidden |-> FALSE,
                 phase |-> "loading", link |-> None, metadata |-> FALSE,
                 required |-> FALSE, passphrase |-> None, busy |-> FALSE, error |-> FALSE,
                 content |-> None, remaining |-> 0, copied |-> FALSE, urls |-> {},
                 worker |-> NoWorker, calls |-> k, wanted |-> None, asked |-> 0]
    BY DEF Blank, k
  <2> QED
    BY <1>2, <2>1, Values DEF PageType
<1>4. /\ s \in PageType /\ s.tickets = {} /\ s.worker = NoWorker /\ s.busy = FALSE
      /\ s.link = None /\ s.metadata = FALSE /\ s.passphrase = None
      /\ s.content = None /\ s.urls = {}
  BY <1>3 DEF PageType
<1> HIDE DEF s
<1>5. Good(Loaded(s, c, l))
  BY <1>4, LoadedGood
<1> QED
  BY <1>1, <1>5 DEF s

LEMMA NextGood == ASSUME ReaderAssumption, Good(page), [Next]_vars PROVE Good(page')
<1>1. CASE \E c \in Calls, l \in Links : Load(c, l)
  BY <1>1, LoadGood
<1>2. CASE \E word \in {None, "wrong", "right"} : Type(word)
  BY <1>2, TypeGood DEF Words
<1>3. CASE Act \/ TimerFires \/ Tick \/ Leave
  BY <1>3, TouchGood, CheckGood, ElapseGood, ExpireGood DEF Act, TimerFires, Tick, Leave
<1>4. CASE Visibility
  BY <1>4, HideGood DEF Visibility
<1>5. ASSUME NEW c \in Calls, NEW late \in BOOLEAN, Open(c, late) \/ CopyText(c, late)
      PROVE  Good(page')
  BY <1>5, OpenGood, CopyTextGood
<1>6. ASSUME NEW c \in Calls, Answers(c) PROVE Good(page')
  BY <1>6, ParsedGood, InspectedGood, LoadFailsGood, MetaAnsweredGood, PreparedGood,
     OpenedGood, DecryptedGood, OpenFailsGood, PrepareFailsGood DEF Answers
<1>7. ASSUME NEW c \in Calls, Copied(c) \/ ServerOpens(c) PROVE Good(page')
  BY <1>7, CopiedGood, ServerOpensGood
<1>8. ASSUME NEW u \in Urls, Download(u) \/ ReleaseUrl(u) PROVE Good(page')
  BY <1>8, UrlsGood
<1>9. CASE UNCHANGED page
  BY <1>9
<1> QED
  BY <1>1, <1>2, <1>3, <1>4, <1>5, <1>6, <1>7, <1>8, <1>9
     DEF Next, UserActs, ServerLoses, vars

(* For any links, calls and answers in any order: the page has one operation *)
(* at a time and keeps only what belongs to its phase and to the link wanted *)
(* (controllers.ts, session.ts).                                             *)
THEOREM ReaderInvariant == Spec => []Good(page)
<1>1. Init => Good(page)
  BY InitGood, ReaderAssumption
<1>2. Good(page) /\ [Next]_vars => Good(page)'
  BY NextGood, ReaderAssumption
<1> QED
  BY <1>1, <1>2, PTL DEF Spec

-------------------------------------------------------------------------------
(* Results *)

(* A tab nobody sees holds no content and is not about to; a cleared or     *)
(* failed page, and its worker, keep nothing, however late an answer comes  *)
(* (session.ts:43-46, controllers.ts:334-357, 388-398, 430-454).            *)
THEOREM NothingEverLingers == Spec => []NothingLingers
<1>1. ASSUME Good(page) PROVE NothingLingers
  <2>1. page.hidden => page.content = None /\ ~page.busy
    BY <1>1 DEF Good, Keeps
  <2>2. ASSUME page.phase \in {"cleared", "error"}
        PROVE  /\ page.link = None /\ ~page.metadata /\ page.passphrase = None
               /\ page.content = None /\ page.urls = {} /\ page.worker.link = None
               /\ page.worker.header = None /\ page.worker.key = None
    BY <1>1, <2>2 DEF Good, Keeps
  <2>3. ASSUME page.phase \in {"cleared", "error"}
        PROVE  [page.worker EXCEPT !.call = None] = NoWorker
    <3> DEFINE w == page.worker
    <3>1. w \in Workers
      BY <1>1 DEF Good, PageType
    <3>2. w.link = None /\ w.header = None /\ w.key = None
      BY <2>2, <2>3
    <3> HIDE DEF w
    <3>3. [w EXCEPT !.call = None] =
            [call |-> None, link |-> w.link, header |-> w.header, key |-> w.key]
      BY <3>1 DEF Workers
    <3> QED
      BY <3>2, <3>3 DEF NoWorker, w
  <2> QED
    BY <2>1, <2>2, <2>3 DEF NothingLingers
<1> QED
  BY <1>1, ReaderInvariant, PTL

(* What the page shows and works on is the package of the link it was last  *)
(* given (View.svelte:30-35, controllers.ts:364-399).                       *)
THEOREM ContentAlwaysTheWanted == Spec => []ContentIsTheWanted
<1>1. Good(page) => ContentIsTheWanted
  BY DEF Good, OfWanted, ContentIsTheWanted
<1> QED
  BY <1>1, ReaderInvariant, PTL

(* A link leads to one request for a retrieval at most, and a page that     *)
(* still offers to open it has made none (controllers.ts:417-455).          *)
THEOREM RetrievalAlwaysAskedOnce == Spec => []RetrievalAskedOnce
<1>1. Good(page) => RetrievalAskedOnce
  BY DEF Good, AskedOnce, RetrievalAskedOnce
<1> QED
  BY <1>1, ReaderInvariant, PTL

(* Loading and opening each have one live call, exactly while the page says *)
(* so, and the worker runs a command exactly when such a call waits for it  *)
(* (crypto.worker.ts:26-29, worker.ts:74-76).                               *)
THEOREM PhaseAlwaysMeansCall == Spec => []PhaseMeansCall
<1>1. ASSUME Good(page) PROVE PhaseMeansCall
  <2> DEFINE live(states) == {c \in page.tickets : page.calls[c].at \in states}
  <2>1. page.tickets \in SUBSET Calls
    BY <1>1 DEF Good, PageType
  <2>2. ASSUME NEW states \in {Loading, Opening}
        PROVE  Cardinality(live(states)) =
                 IF \E c \in Calls : Lives(page, c) /\ page.calls[c].at \in states THEN 1 ELSE 0
    <3>1. CASE \E c \in Calls : Lives(page, c) /\ page.calls[c].at \in states
      <4>1. PICK c \in Calls : Lives(page, c) /\ page.calls[c].at \in states
        BY <3>1
      <4>2. live(states) = {c}
        BY <1>1, <2>1, <2>2, <4>1 DEF Good, OneCall, Lives
      <4>3. Cardinality(live(states)) = 1
        BY <4>2, FS_Singleton
      <4> QED
        BY <3>1, <4>3
    <3>2. CASE ~\E c \in Calls : Lives(page, c) /\ page.calls[c].at \in states
      <4>1. live(states) = {}
        BY <2>1, <2>2, <3>2 DEF Lives
      <4>2. Cardinality(live(states)) = 0
        BY <4>1, FS_EmptySet
      <4> QED
        BY <3>2, <4>2
    <3> QED
      BY <3>1, <3>2
  <2>3. Cardinality(live(Loading)) = IF page.phase = "loading" THEN 1 ELSE 0
    BY <1>1, <2>2 DEF Good, OneCall
  <2>4. page.phase # "cleared" =>
          Cardinality(live(Opening)) = IF page.busy THEN 1 ELSE 0
    BY <1>1, <2>2 DEF Good, OneCall
  <2>5. ASSUME NEW c \in Calls
        PROVE  page.worker.call = c <=>
                   c \in page.tickets /\ page.calls[c].at \in Commands
    BY <1>1 DEF Good, OneCall, Lives, Commands, Loading, Opening
  <2> QED
    BY <2>3, <2>4, <2>5 DEF PhaseMeansCall
<1> QED
  BY <1>1, ReaderInvariant, PTL

-------------------------------------------------------------------------------
(* The deadline *)

(* The session's functions that no user's act is behind do not move it away. *)
LEMMA NeverLater ==
    ASSUME NEW p \in PageType
    PROVE  /\ Session!Clear(p).left <= p.left
           /\ Session!Check(p).left <= p.left
           /\ Session!Expire(p).left <= p.left
           /\ Session!Elapse(p).left <= p.left
           /\ \A late : Session!Slipped(p, late).left <= p.left
           /\ \A c : Session!Settled(p, c).left <= p.left
           /\ p.left <= p.left
<1>1. p.left \in Times /\ Session!Off <= p.left /\ p.left <= p.left
  BY DEF PageType, Times, Session!Off
<1>2. Session!Clear(p).left = Session!Off
  BY ClearFields
<1>3. Session!Check(p).left \in {p.left, Session!Off}
  BY <1>2 DEF Session!Check, PageType
<1>4. Session!Elapse(p).left <= p.left
  BY <1>1 DEF Session!Elapse, PageType, Times, Session!Off
<1> QED
  BY <1>1, <1>2, <1>3, <1>4 DEF Session!Expire, Session!Slipped, Session!Settled

(* A call that is not current ends.                                         *)
LEMMA StaleNeverLater ==
    ASSUME NEW p \in PageType, NEW c \in Calls
    PROVE  Finish(Session!Settled(p, c), c).left <= p.left
<1> DEFINE s == Session!Settled(p, c)
<1>1. s \in PageType /\ s.left <= p.left
  BY ClearIsPage, NeverLater DEF Session!Settled, Session!Expire
<1> HIDE DEF s
<1>2. Finish(s, c).left = s.left
  BY <1>1, FinishFields
<1> QED
  BY <1>1, <1>2 DEF s

(* No answer moves the deadline away.                                       *)
LEMMA AnswersNeverLater ==
    ASSUME Good(page), NEW c \in Calls, Answers(c) \/ Copied(c) \/ ServerOpens(c)
    PROVE  page'.left <= page.left
<1> DEFINE p == page
<1>1. p \in PageType
  BY DEF Good
<1>2. CASE page' = Finish(Session!Settled(p, c), c)
  BY <1>1, <1>2, StaleNeverLater
<1>3. CASE page'.left = p.left
  BY <1>1, <1>3, NeverLater
<1>4. ASSUME Session!Valid(p, c), Parsed(c) PROVE page'.left = p.left
  BY <1>1, <1>4 DEF Parsed, Continue, PageType
<1>5. ASSUME Session!Valid(p, c), Inspected(c) PROVE page'.left = p.left
  BY <1>1, <1>5 DEF Inspected, Continue, Finish, PageType
<1>6. ASSUME Session!Valid(p, c), LoadFails(c) PROVE page'.left = p.left
  BY <1>1, <1>6 DEF LoadFails, Continue, Finish, PageType
<1>7. ASSUME Session!Valid(p, c), NEW n \in 1 .. Views, MetaAnswered(c, n)
      PROVE  page'.left = p.left
  BY <1>1, <1>7 DEF MetaAnswered, Continue, Ask, PageType
<1>8. ASSUME Session!Valid(p, c), Prepared(c) PROVE page'.left = p.left
  BY <1>1, <1>8 DEF Prepared, Continue, PageType
<1>9. ASSUME Session!Valid(p, c), Opened(c) PROVE page'.left = p.left
  BY <1>1, <1>9 DEF Opened, Continue, Ask, PageType
<1>10. ASSUME Session!Valid(p, c), Decrypted(c) PROVE page'.left = p.left
  BY <1>1, <1>10 DEF Decrypted, Continue, Shown, Finish, PageType
<1>11. ASSUME Session!Valid(p, c), OpenFails(c) PROVE page'.left = p.left
  BY <1>1, <1>11 DEF OpenFails, Continue, Finish, PageType
<1>12. ASSUME Session!Valid(p, c), NEW dies \in BOOLEAN, PrepareFails(c, dies)
       PROVE  page'.left = p.left
  BY <1>1, <1>12 DEF PrepareFails, Continue, Finish, PageType
<1>13. ASSUME Session!Valid(p, c), Copied(c) PROVE page'.left = p.left
  BY <1>1, <1>13 DEF Copied, Continue, Finish, PageType
<1>14. ASSUME ServerOpens(c) PROVE page'.left = p.left
  BY <1>1, <1>14 DEF ServerOpens, PageType
<1>15. ASSUME ~Session!Valid(p, c), Answers(c) \/ Copied(c)
       PROVE  page' = Finish(Session!Settled(p, c), c)
  BY <1>15 DEF Answers, Parsed, Inspected, LoadFails, MetaAnswered, Prepared, Opened,
     Decrypted, OpenFails, PrepareFails, Copied, Continue
<1> QED
  BY <1>2, <1>3, <1>4, <1>5, <1>6, <1>7, <1>8, <1>9, <1>10, <1>11, <1>12, <1>13, <1>14,
     <1>15 DEF Answers

LEMMA OpenNeverLater ==
    ASSUME Good(page), NEW c \in Calls, NEW late \in BOOLEAN,
           Open(c, late) \/ CopyText(c, late)
    PROVE  page'.left <= page.left
<1> DEFINE p == page
<1>1. p \in PageType
  BY DEF Good
<1>2. CASE page' = Session!Clear(p)
  BY <1>1, <1>2, NeverLater
<1>3. CASE page' = [p EXCEPT !.error = TRUE]
  <2>1. page'.left = p.left
    BY <1>1, <1>3 DEF PageType
  <2> QED
    BY <1>1, <2>1, NeverLater
<1>4. ASSUME NEW b \in PageType, b.left = p.left, NEW at, NEW l,
             \/ page' = Ask(Begin(Session!Slipped(b, late), c, at, l), c)
             \/ page' = Begin(Session!Slipped(b, late), c, at, l)
      PROVE  page'.left <= p.left
  <2> DEFINE s == Session!Slipped(b, late)
  <2>1. s \in PageType /\ s.left <= b.left
    BY ClearIsPage, NeverLater DEF Session!Slipped
  <2> HIDE DEF s
  <2>2. Begin(s, c, at, l).left = s.left /\ Ask(Begin(s, c, at, l), c).left = s.left
    BY <2>1 DEF Begin, Ask, Session!Ticket, PageType
  <2> QED
    BY <1>4, <2>1, <2>2 DEF s
<1>5. CASE page' = Begin(Session!Slipped(p, late), c, "copy", None)
  BY <1>1, <1>4, <1>5
<1>6. CASE page' = Ask(Begin(Session!Slipped([p EXCEPT !.busy = TRUE, !.error = FALSE], late),
                             c, "prepare", p.link), c)
  <2> DEFINE b == [p EXCEPT !.busy = TRUE, !.error = FALSE]
  <2>1. b \in PageType /\ b.left = p.left
    BY <1>1 DEF PageType
  <2> HIDE DEF b
  <2>2. page' = Ask(Begin(Session!Slipped(b, late), c, "prepare", p.link), c)
    BY <1>6 DEF b
  <2> QED
    BY <1>4, <2>1, <2>2
<1> QED
  BY <1>2, <1>3, <1>5, <1>6 DEF Open, CopyText

LEMMA OnlyUserExtends ==
    ASSUME Good(page), [Next]_vars, ~UserActs PROVE page'.left <= page.left
<1>1. page \in PageType
  BY DEF Good
<1>2. ASSUME NEW c \in Calls, NEW late \in BOOLEAN, Open(c, late) \/ CopyText(c, late)
      PROVE  page'.left <= page.left
  BY <1>2, OpenNeverLater
<1>3. ASSUME NEW c \in Calls, Answers(c) \/ Copied(c) \/ ServerOpens(c)
      PROVE  page'.left <= page.left
  BY <1>3, AnswersNeverLater
<1>4. ASSUME NEW u \in Urls, Download(u) \/ ReleaseUrl(u) PROVE page'.left <= page.left
  <2>1. \A urls : [page EXCEPT !.urls = urls].left = page.left
    BY <1>1 DEF PageType
  <2> QED
    BY <1>1, <1>4, <2>1, NeverLater DEF Download, ReleaseUrl
<1>5. CASE Leave \/ TimerFires \/ Tick
  BY <1>1, <1>5, NeverLater DEF Leave, TimerFires, Tick
<1>6. CASE Visibility
  <2> DEFINE q == [page EXCEPT !.hidden = TRUE]
             u == [page EXCEPT !.hidden = FALSE]
  <2>1. q \in PageType /\ q.left = page.left /\ u \in PageType /\ u.left = page.left
    BY <1>1 DEF PageType
  <2>2. page' \in {Session!Check(u), Session!Clear(q), q}
    BY <1>6 DEF Visibility, Session!Show, Session!Hide
  <2> HIDE DEF q, u
  <2> QED
    BY <2>1, <2>2, NeverLater
<1>7. CASE UNCHANGED page
  BY <1>1, <1>7, NeverLater
<1> QED
  BY <1>2, <1>3, <1>4, <1>5, <1>6, <1>7 DEF Next, ServerLoses, vars

(* Only the user moves the deadline away; an answer, a hidden tab, the timer *)
(* or a download never does (docs/development.md:113).                      *)
THEOREM OnlyTheUserEverExtends == Spec => OnlyTheUserExtends
<1>1. ASSUME Good(page), [Next]_vars, page'.left > page.left PROVE UserActs
  <2>1. page.left \in Int /\ page'.left \in Int
    BY <1>1, NextGood, ReaderAssumption DEF Good, PageType, Times, Session!Off
  <2> QED
    BY <1>1, <2>1, OnlyUserExtends
<1>2. Good(page) /\ [Next]_vars => [page'.left > page.left => UserActs]_vars
  BY <1>1
<1> QED
  BY <1>2, ReaderInvariant, PTL DEF Spec, OnlyTheUserExtends
===============================================================================
