---------------------------- MODULE Composer_proofs ----------------------------
(***************************************************************************)
(* Proofs about the page that creates packages, for any number of calls    *)
(* and packages and every deadline.                                        *)
(*                                                                         *)
(* Every step turns the page into a function of the page, most of them     *)
(* functions of the session, and some move the server on.  So the          *)
(* invariant (Good) is a predicate of a page, of what the server knows and *)
(* of the revocations sent: lemmas say which functions of the session keep *)
(* it, what becomes of a call that works (WorksGood), ends (DoneGood) or   *)
(* is overtaken by a clear (StaleGood), and that the server only moves     *)
(* forward (LaterGood); each action is one of these.                       *)
(***************************************************************************)
EXTENDS Composer, FiniteSetTheorems, TLAPS

Some == Packages \cup {None}
Times == Nat \cup {Session!Off}
Stages == {"compose", "encrypt", "proof", "upload", "share", "revoke", "revoked"}
States == {"free", "config", "copy"} \cup Operating
CallTable == [Calls -> [at : States, pkg : Some]]
Known == {"unused", "sealed", "sent"} \cup EverStored

PageType ==
    [left : Times, timer : BOOLEAN, tickets : SUBSET Calls, hidden : BOOLEAN,
     stage : Stages, draft : Drafts, busy : BOOLEAN, configured : BOOLEAN,
     link : Some, receipt : Some, receiptShown : BOOLEAN, copied : BOOLEAN,
     error : BOOLEAN, worker : Calls \cup {None}, calls : CallTable,
     abandoned : SUBSET Packages]

(* The calls whose ticket is current and that create or revoke.            *)
Lives(p, c) == c \in p.tickets /\ p.calls[c].at \in Operating
Commands == {"seal", "proof"}

(* There is one exactly while the page is busy.  A worker that runs works  *)
(* for it, so the next command finds it free.                              *)
OneCall(p) ==
    /\ \A c, d \in Calls : Lives(p, c) /\ Lives(p, d) => c = d
    /\ p.busy <=> \E c \in Calls : Lives(p, c)
    /\ \A c \in Calls : p.worker = c <=> Lives(p, c) /\ p.calls[c].at \in Commands

(* A link is shown with its receipt, in place of the form; neither it nor  *)
(* what a current call works on is of a session that was cleared.          *)
OfSession(p) ==
    /\ p.link = p.receipt
    /\ p.link # None => p.receiptShown /\ p.draft = "empty" /\ p.link \notin p.abandoned
    /\ \A c \in p.tickets : p.calls[c].pkg \notin p.abandoned
    /\ \A c \in Calls : Lives(p, c) /\ p.calls[c].at # "seal" => p.calls[c].pkg # None

(* What the page knows of its packages is true of the server: every one    *)
(* was sealed, a link was stored, and the package of a creation is not     *)
(* sent before its proof is found.                                         *)
Believes(p, s, r) ==
    /\ \A c \in Calls : p.calls[c].pkg # None => s[p.calls[c].pkg] # "unused"
    /\ \A k \in p.abandoned : s[k] # "unused"
    /\ p.link # None => s[p.link] \in EverStored
    /\ \A c \in Calls : Lives(p, c) /\ p.calls[c].at \in {"challenge", "proof"}
                            => s[p.calls[c].pkg] = "sealed"
    /\ p.stage = "revoked" => \E k \in r : s[k] = "revoked"

Service(s, r) ==
    /\ s \in [Packages -> Known] /\ r \in SUBSET Packages
    /\ \A k \in Packages : s[k] = "revoked" => k \in r

Good(p, s, r) ==
    p \in PageType /\ OneCall(p) /\ OfSession(p) /\ Believes(p, s, r) /\ Service(s, r)
-------------------------------------------------------------------------------
(* The session *)

LEMMA Values ==
    /\ None \in Some /\ Session!Off \in Times
    /\ "compose" \in Stages /\ "encrypt" \in Stages /\ "proof" \in Stages
    /\ "upload" \in Stages /\ "share" \in Stages /\ "revoke" \in Stages
    /\ "revoked" \in Stages
    /\ "empty" \in Drafts /\ "fits" \in Drafts
BY DEF Some, Times, Stages, Drafts

LEMMA PageFields ==
    ASSUME NEW p \in PageType
    PROVE  /\ p.left \in Times /\ p.tickets \in SUBSET Calls /\ p.stage \in Stages
           /\ p.draft \in Drafts /\ p.busy \in BOOLEAN /\ p.link \in Some
           /\ p.receipt \in Some /\ p.receiptShown \in BOOLEAN
           /\ p.worker \in Calls \cup {None} /\ p.calls \in CallTable
           /\ p.abandoned \in SUBSET Packages
           /\ \A c \in Calls : p.calls[c].at \in States /\ p.calls[c].pkg \in Some
BY DEF PageType, CallTable

LEMMA NamedArePackages == ASSUME NEW p \in PageType PROVE Named(p) \subseteq Packages
BY PageFields DEF Named, Some

LEMMA ClearFields ==
    ASSUME NEW p \in PageType, NEW q, q = Session!Clear(p)
    PROVE  /\ q \in PageType
           /\ q.left = Session!Off /\ q.tickets = {} /\ q.stage = "compose"
           /\ q.draft = "empty" /\ q.busy = FALSE /\ q.link = None /\ q.receipt = None
           /\ q.receiptShown = FALSE /\ q.worker = None /\ q.calls = p.calls
           /\ q.abandoned = p.abandoned \cup Named(p)
<1> DEFINE a == [p EXCEPT !.left = Session!Off, !.timer = FALSE, !.tickets = {}]
           b == [a EXCEPT !.stage = "compose", !.draft = "empty", !.busy = FALSE,
                          !.link = None, !.receipt = None, !.receiptShown = FALSE]
           names == p.abandoned \cup Named(p)
<1>1. q = [b EXCEPT !.copied = FALSE, !.error = FALSE, !.worker = None,
                    !.abandoned = a.abandoned \cup Named(a)]
  BY DEF Session!Clear, Reset
<1>2. /\ a \in PageType /\ a.left = Session!Off /\ a.tickets = {} /\ a.calls = p.calls
      /\ a.link = p.link /\ a.receipt = p.receipt /\ a.abandoned = p.abandoned
  BY Values DEF PageType
<1> HIDE DEF a
<1>3. a.abandoned \cup Named(a) = names /\ names \in SUBSET Packages
  BY <1>2, NamedArePackages, PageFields DEF Named
<1> HIDE DEF names
<1>4. /\ b \in PageType /\ b.left = Session!Off /\ b.tickets = {} /\ b.calls = p.calls
      /\ b.stage = "compose" /\ b.draft = "empty" /\ b.busy = FALSE /\ b.link = None
      /\ b.receipt = None /\ b.receiptShown = FALSE
  BY <1>2, Values DEF PageType
<1> HIDE DEF b
<1>5. q = [b EXCEPT !.copied = FALSE, !.error = FALSE, !.worker = None, !.abandoned = names]
  BY <1>1, <1>3
<1>6. /\ q \in PageType
      /\ q.left = Session!Off /\ q.tickets = {} /\ q.stage = "compose"
      /\ q.draft = "empty" /\ q.busy = FALSE /\ q.link = None /\ q.receipt = None
      /\ q.receiptShown = FALSE /\ q.worker = None /\ q.calls = p.calls
      /\ q.abandoned = names
  BY <1>3, <1>4, <1>5 DEF PageType
<1> QED
  BY <1>6 DEF names

(* A cleared page has no current call and remembers what it abandoned.     *)
LEMMA ClearGood ==
    ASSUME NEW p, NEW s, NEW r, Good(p, s, r) PROVE Good(Session!Clear(p), s, r)
<1> DEFINE q == Session!Clear(p)
<1>1. /\ q \in PageType
      /\ q.tickets = {} /\ q.stage = "compose"
      /\ q.busy = FALSE /\ q.link = None /\ q.receipt = None
      /\ q.worker = None /\ q.calls = p.calls
      /\ q.abandoned = p.abandoned \cup Named(p)
  BY ClearFields DEF Good
<1> HIDE DEF q
<1>2. \A c \in Calls : ~Lives(q, c)
  BY <1>1 DEF Lives
<1>3. OneCall(q)
  BY <1>1, <1>2, ComposerAssumption DEF OneCall
<1>4. OfSession(q)
  BY <1>1, <1>2 DEF OfSession
<1>5. \A k \in Named(p) : s[k] # "unused"
  BY DEF Good, Believes, OfSession, Named, EverStored
<1>6. Believes(q, s, r)
  BY <1>1, <1>2, <1>5 DEF Good, Believes
<1>7. Good(q, s, r)
  BY <1>1, <1>3, <1>4, <1>6 DEF Good
<1> QED
  BY <1>7 DEF q

(* What Good does not look at may change, and the draft of a shown form.   *)
Alike(p, q) ==
    /\ q \in PageType
    /\ q.tickets = p.tickets /\ q.calls = p.calls /\ q.worker = p.worker
    /\ q.busy = p.busy /\ q.link = p.link /\ q.receipt = p.receipt
    /\ q.receiptShown = p.receiptShown /\ q.abandoned = p.abandoned
    /\ q.stage = p.stage \/ q.stage # "revoked"
    /\ q.draft = p.draft \/ p.receiptShown = FALSE

LEMMA AlikeGood ==
    ASSUME NEW p, NEW q, NEW s, NEW r, Good(p, s, r), Alike(p, q) PROVE Good(q, s, r)
<1>1. \A c \in Calls : Lives(q, c) <=> Lives(p, c)
  BY DEF Alike, Lives
<1>2. q \in PageType /\ OneCall(q)
  BY <1>1 DEF Alike, Good, OneCall
<1>3. OfSession(q)
  BY <1>1 DEF Alike, Good, OfSession
<1>4. Believes(q, s, r)
  BY <1>1 DEF Alike, Good, Believes
<1> QED
  BY <1>2, <1>3, <1>4 DEF Good

LEMMA TimeGood ==
    ASSUME NEW p, NEW s, NEW r, Good(p, s, r), NEW l \in Times, NEW t \in BOOLEAN
    PROVE  /\ Good([p EXCEPT !.left = l, !.timer = t], s, r)
           /\ Good([p EXCEPT !.left = l], s, r) /\ Good([p EXCEPT !.timer = t], s, r)
           /\ Good([p EXCEPT !.hidden = t], s, r)
<1>1. p \in PageType
  BY DEF Good
<1>2. /\ Alike(p, [p EXCEPT !.left = l, !.timer = t])
      /\ Alike(p, [p EXCEPT !.left = l]) /\ Alike(p, [p EXCEPT !.timer = t])
      /\ Alike(p, [p EXCEPT !.hidden = t])
  BY <1>1 DEF PageType, Alike
<1> QED
  BY <1>2, AlikeGood

LEMMA SessionGood ==
    ASSUME NEW p, NEW s, NEW r, Good(p, s, r)
    PROVE  /\ Good(Session!Expire(p), s, r) /\ Good(Session!Check(p), s, r)
           /\ Good(Session!Touch(p), s, r) /\ Good(Session!Activity(p), s, r)
           /\ Good(Session!Elapse(p), s, r)
           /\ Good(Session!Show(p), s, r) /\ Good(Session!Hide(p, FALSE), s, r)
           /\ \A late : Good(Session!Slipped(p, late), s, r)
<1>1. ASSUME NEW q, Good(q, s, r) PROVE Good(Session!Check(q), s, r)
  BY <1>1, TimeGood, ClearGood, Values DEF Session!Check
<1>2. Good(Session!Touch(p), s, r)
  <2> DEFINE l == IF HasData(p) THEN Limit ELSE Session!Off
  <2>1. l \in Times
    BY Values, ComposerAssumption DEF Times
  <2>2. Session!Touch(p) = Session!Check([p EXCEPT !.left = l])
    BY DEF Session!Touch
  <2> HIDE DEF l
  <2> QED
    BY <1>1, <2>1, <2>2, TimeGood
<1>3. Good(Session!Activity(p), s, r)
  BY <1>2, ClearGood DEF Session!Activity
<1>4. Good(Session!Elapse(p), s, r)
  <2>1. p.left > 0 => p.left - 1 \in Times
    BY DEF Good, PageType, Times, Session!Off
  <2> QED
    BY <2>1, TimeGood DEF Session!Elapse
<1>5. Good(Session!Show(p), s, r)
  BY <1>1, TimeGood, Values DEF Session!Show
<1>6. Good(Session!Hide(p, FALSE), s, r)
  BY TimeGood, Values DEF Session!Hide
<1> QED
  BY <1>1, <1>2, <1>3, <1>4, <1>5, <1>6, ClearGood DEF Session!Expire, Session!Slipped

-------------------------------------------------------------------------------
(* Calls *)

LEMMA CallBecomes ==
    ASSUME NEW calls \in CallTable, NEW c \in Calls, NEW at \in States, NEW k \in Some,
           NEW new, new = [calls EXCEPT ![c] = [at |-> at, pkg |-> k]]
    PROVE  /\ new \in CallTable /\ new[c].at = at /\ new[c].pkg = k
           /\ \A d \in Calls \ {c} : new[d] = calls[d]
BY DEF CallTable

(* A call whose ticket is not current ends, which nobody notices.          *)
LEMMA FinishFields ==
    ASSUME NEW p \in PageType, NEW c \in Calls, NEW q, q = Finish(p, c)
    PROVE  /\ q \in PageType
           /\ q.tickets = p.tickets \ {c} /\ q.worker = p.worker /\ q.busy = p.busy
           /\ q.link = p.link /\ q.receipt = p.receipt /\ q.stage = p.stage
           /\ q.receiptShown = p.receiptShown /\ q.draft = p.draft
           /\ q.abandoned = p.abandoned
           /\ \A d \in Calls : Lives(q, d) <=> d # c /\ Lives(p, d)
           /\ \A d \in Calls \ {c} : q.calls[d] = p.calls[d]
           /\ q.calls[c].pkg = None
<1> DEFINE calls == [p.calls EXCEPT ![c] = Free]
           tickets == p.tickets \ {c}
<1>1. q = [p EXCEPT !.calls = calls, !.tickets = tickets]
  BY DEF Finish
<1>2. /\ calls \in CallTable /\ calls[c].pkg = None /\ tickets \in SUBSET Calls
      /\ \A d \in Calls \ {c} : calls[d] = p.calls[d]
  <2>1. "free" \in States
    BY DEF States
  <2> QED
    BY <2>1, CallBecomes, PageFields, Values DEF Free
<1> HIDE DEF calls
<1>3. /\ q \in PageType
      /\ q.tickets = p.tickets \ {c} /\ q.worker = p.worker /\ q.busy = p.busy
      /\ q.link = p.link /\ q.receipt = p.receipt /\ q.stage = p.stage
      /\ q.receiptShown = p.receiptShown /\ q.draft = p.draft
      /\ q.abandoned = p.abandoned /\ q.calls = calls
  BY <1>1, <1>2 DEF PageType
<1> QED
  BY <1>2, <1>3 DEF Lives

LEMMA EndsGood ==
    ASSUME NEW p, NEW s, NEW r, Good(p, s, r), NEW c \in Calls, ~Lives(p, c)
    PROVE  Good(Finish(p, c), s, r)
<1> DEFINE q == Finish(p, c)
<1> HIDE DEF q
<1>1. /\ q \in PageType
      /\ q.tickets = p.tickets \ {c} /\ q.worker = p.worker /\ q.busy = p.busy
      /\ q.link = p.link /\ q.receipt = p.receipt /\ q.stage = p.stage
      /\ q.receiptShown = p.receiptShown /\ q.draft = p.draft
      /\ q.abandoned = p.abandoned
      /\ \A d \in Calls : Lives(q, d) <=> d # c /\ Lives(p, d)
      /\ \A d \in Calls \ {c} : q.calls[d] = p.calls[d]
      /\ q.calls[c].pkg = None
  BY FinishFields DEF q, Good
<1>2. /\ \A d \in Calls : Lives(q, d) <=> Lives(p, d)
      /\ \A d \in Calls : Lives(p, d) => q.calls[d] = p.calls[d]
  BY <1>1
<1>3. OneCall(q)
  BY <1>1, <1>2 DEF Good, OneCall
<1>4. OfSession(q)
  <2>1. \A d \in q.tickets : d \in p.tickets /\ q.calls[d] = p.calls[d]
    BY <1>1, PageFields DEF Good
  <2> QED
    BY <1>1, <1>2, <2>1 DEF Good, OfSession
<1>5. Believes(q, s, r)
  BY <1>1, <1>2 DEF Good, Believes
<1>6. Good(q, s, r)
  BY <1>1, <1>3, <1>4, <1>5 DEF Good
<1> QED
  BY <1>6 DEF q

LEMMA StaleGood ==
    ASSUME NEW p, NEW s, NEW r, Good(p, s, r), NEW c \in Calls, ~Session!Valid(p, c)
    PROVE  Good(Finish(Session!Settled(p, c), c), s, r)
<1> DEFINE q == Session!Settled(p, c)
<1>1. Good(q, s, r) /\ c \notin q.tickets
  <2>1. CASE c \in p.tickets
    <3>1. q = Session!Clear(p)
      BY <2>1 DEF Session!Settled, Session!Valid, Session!Expire
    <3>2. q.tickets = {}
      BY <3>1, ClearFields DEF Good
    <3> QED
      BY <3>1, <3>2, ClearGood
  <2>2. CASE c \notin p.tickets
    BY <2>2 DEF Session!Settled
  <2> QED
    BY <2>1, <2>2
<1> HIDE DEF q
<1>2. Good(Finish(q, c), s, r)
  BY <1>1, EndsGood DEF Lives
<1> QED
  BY <1>2 DEF q

(* The one call that is under way takes its next step, or starts.          *)
LEMMA WorksGood ==
    ASSUME NEW p, NEW s, NEW r, Good(p, s, r), NEW c \in Calls,
           \A d \in Calls \ {c} : ~Lives(p, d),
           NEW q \in PageType, q.calls[c].at \in Operating,
           q.tickets = p.tickets \cup {c}, q.busy = TRUE,
           q.worker = IF q.calls[c].at \in Commands THEN c ELSE None,
           q.link = p.link, q.receipt = p.receipt, q.receiptShown = p.receiptShown,
           q.draft = p.draft, q.abandoned = p.abandoned,
           q.stage = p.stage \/ q.stage # "revoked",
           \A d \in Calls \ {c} : q.calls[d] = p.calls[d],
           q.calls[c].at # "seal" => q.calls[c].pkg # None,
           q.calls[c].pkg # None =>
               q.calls[c].pkg \notin p.abandoned /\ s[q.calls[c].pkg] # "unused",
           q.calls[c].at \in {"challenge", "proof"} => s[q.calls[c].pkg] = "sealed"
    PROVE  Good(q, s, r)
<1>1. \A d \in Calls : Lives(q, d) <=> d = c
  BY DEF Lives
<1>2. \A d \in Calls : q.worker = d <=> Lives(q, d) /\ q.calls[d].at \in Commands
  BY <1>1, ComposerAssumption
<1>3. OneCall(q)
  BY <1>1, <1>2 DEF OneCall
<1>4. \A d \in q.tickets : q.calls[d].pkg \notin q.abandoned
  <2>1. CASE q.calls[c].pkg = None
    BY <2>1, PageFields, ComposerAssumption DEF Good, OfSession
  <2>2. CASE q.calls[c].pkg # None
    BY <2>2, PageFields DEF Good, OfSession
  <2> QED
    BY <2>1, <2>2
<1>5. OfSession(q)
  BY <1>1, <1>4 DEF Good, OfSession
<1>6. Believes(q, s, r)
  BY <1>1 DEF Good, Believes
<1> QED
  BY <1>3, <1>5, <1>6 DEF Good

(* It ends, and the page stops being busy.                                 *)
LEMMA DoneGood ==
    ASSUME NEW p, NEW s, NEW r, Good(p, s, r), NEW c \in Calls, Lives(p, c),
           NEW q \in PageType, q.tickets = p.tickets, q.calls = p.calls,
           q.busy = FALSE, q.worker = None, q.abandoned = p.abandoned,
           q.link = q.receipt,
           q.link # None => /\ q.receiptShown /\ q.draft = "empty"
                            /\ q.link \notin q.abandoned /\ s[q.link] \in EverStored,
           q.stage = "revoked" => \E k \in r : s[k] = "revoked"
    PROVE  Good(Finish(q, c), s, r)
<1> DEFINE f == Finish(q, c)
<1>1. /\ f \in PageType
      /\ f.tickets = q.tickets \ {c} /\ f.worker = q.worker /\ f.busy = q.busy
      /\ f.link = q.link /\ f.receipt = q.receipt /\ f.stage = q.stage
      /\ f.receiptShown = q.receiptShown /\ f.draft = q.draft
      /\ f.abandoned = q.abandoned
      /\ \A d \in Calls : Lives(f, d) <=> d # c /\ Lives(q, d)
      /\ \A d \in Calls \ {c} : f.calls[d] = q.calls[d]
      /\ f.calls[c].pkg = None
  BY FinishFields
<1> HIDE DEF f
<1>2. \A d \in Calls : ~Lives(f, d)
  <2>1. \A d \in Calls : Lives(q, d) => Lives(p, d)
    BY DEF Lives
  <2> QED
    BY <1>1, <2>1 DEF Good, OneCall
<1>3. OneCall(f)
  BY <1>1, <1>2, ComposerAssumption DEF OneCall
<1>4. \A d \in f.tickets : f.calls[d].pkg \notin f.abandoned
  BY <1>1, PageFields DEF Good, OfSession
<1>5. OfSession(f)
  BY <1>1, <1>2, <1>4 DEF OfSession
<1>6. Believes(f, s, r)
  BY <1>1, <1>2 DEF Good, Believes
<1>7. Good(f, s, r)
  BY <1>1, <1>3, <1>5, <1>6 DEF Good
<1> QED
  BY <1>7 DEF f

(* The server moves on, and never back.                                    *)
Later(s, t) == \A k \in Packages :
    /\ s[k] # "unused" => t[k] # "unused"
    /\ s[k] \in EverStored => t[k] \in EverStored
    /\ s[k] = "revoked" => t[k] = "revoked"

LEMMA LaterGood ==
    ASSUME NEW p, NEW s, NEW r, NEW t, NEW u, Good(p, s, r),
           Later(s, t), r \subseteq u, Service(t, u),
           \A c \in Calls : Lives(p, c) /\ p.calls[c].at \in {"challenge", "proof"}
                                => t[p.calls[c].pkg] = "sealed"
    PROVE  Good(p, t, u)
<1>1. /\ p.abandoned \subseteq Packages /\ p.link \in Some /\ r \subseteq Packages
      /\ \A c \in Calls : p.calls[c].pkg \in Some
  BY PageFields DEF Good, Service
<1>2. Believes(p, t, u)
  BY <1>1 DEF Good, Believes, Later, Some
<1> QED
  BY <1>2 DEF Good

-------------------------------------------------------------------------------
(* Steps of the page *)

(* A call that is no operation of the session starts or ends.              *)
LEMMA AsideGood ==
    ASSUME NEW p, NEW s, NEW r, Good(p, s, r), NEW c \in Calls, NEW at \in {"config", "copy"},
           p.calls[c].at = "free"
    PROVE  Good(Begin(p, c, at, None), s, r)
<1> DEFINE calls == [p.calls EXCEPT ![c] = [at |-> at, pkg |-> None]]
           q == Begin(p, c, at, None)
           tickets == p.tickets \cup {c}
<1>1. /\ calls \in CallTable /\ calls[c].at = at /\ calls[c].pkg = None
      /\ \A d \in Calls \ {c} : calls[d] = p.calls[d]
  <2>1. at \in States /\ p.calls \in CallTable
    BY PageFields DEF States, Good
  <2> QED
    BY <2>1, Values DEF CallTable
<1> HIDE DEF calls
<1>2. tickets \in SUBSET Calls
  BY PageFields DEF Good
<1>3. q = [[p EXCEPT !.calls = calls] EXCEPT !.tickets = tickets]
  BY DEF Begin, Session!Ticket, Good, PageType, calls
<1>4. /\ q \in PageType
      /\ q.tickets = tickets /\ q.worker = p.worker /\ q.busy = p.busy
      /\ q.link = p.link /\ q.receipt = p.receipt /\ q.stage = p.stage
      /\ q.receiptShown = p.receiptShown /\ q.draft = p.draft
      /\ q.abandoned = p.abandoned /\ q.calls = calls
  BY <1>1, <1>2, <1>3 DEF PageType, Good
<1> HIDE DEF q, tickets
<1>5. \A d \in Calls : Lives(q, d) <=> Lives(p, d)
  BY <1>1, <1>4 DEF Lives, Operating, Creating, tickets
<1>6. \A d \in Calls : Lives(p, d) => q.calls[d] = p.calls[d]
  BY <1>1, <1>4 DEF Lives, Operating, Creating
<1>7. OneCall(q)
  BY <1>4, <1>5, <1>6 DEF Good, OneCall
<1>8. \A d \in q.tickets : q.calls[d].pkg \notin q.abandoned
  <2>1. None \notin p.abandoned /\ p.tickets \subseteq Calls
    BY PageFields, ComposerAssumption DEF Good
  <2> QED
    BY <1>1, <1>4, <2>1 DEF Good, OfSession, tickets
<1>9. OfSession(q)
  BY <1>4, <1>5, <1>6, <1>8 DEF Good, OfSession
<1>10. Believes(q, s, r)
  BY <1>1, <1>4, <1>5, <1>6 DEF Good, Believes
<1>11. Good(q, s, r)
  BY <1>4, <1>7, <1>9, <1>10 DEF Good
<1> QED
  BY <1>11 DEF q

GoodNow == Good(page, server, revoking)

LEMMA AsideEnds ==
    ASSUME NEW p, NEW s, NEW r, Good(p, s, r), NEW q, Alike(p, q),
           NEW c \in Calls, p.calls[c].at \in {"config", "copy"}
    PROVE  Good(Finish(q, c), s, r)
<1>1. Good(q, s, r)
  BY AlikeGood
<1>2. ~Lives(q, c)
  BY DEF Lives, Alike, Operating, Creating
<1> QED
  BY <1>1, <1>2, EndsGood

LEMMA AnswersAside ==
    ASSUME GoodNow, NEW c \in Calls, Configured(c) \/ ConfigFailed(c) \/ Copied(c)
    PROVE  GoodNow'
<1>1. server' = server /\ revoking' = revoking /\ page.calls[c].at \in {"config", "copy"}
  BY DEF Configured, ConfigFailed, Copied, Awaiting
<1>2. CASE ~Session!Valid(page, c)
  <2>1. page' = Finish(Session!Settled(page, c), c)
    BY <1>2 DEF Configured, ConfigFailed, Copied, Continue
  <2> QED
    BY <1>1, <2>1, <1>2, StaleGood DEF GoodNow
<1>3. CASE Session!Valid(page, c)
  <2> DEFINE a == [page EXCEPT !.configured = TRUE]
             b == [page EXCEPT !.configured = FALSE, !.error = TRUE]
             d == [page EXCEPT !.copied = TRUE]
  <2>1. page' \in {Finish(a, c), Finish(b, c), Finish(d, c)}
    BY <1>3 DEF Configured, ConfigFailed, Copied, Continue
  <2>2. Alike(page, a) /\ Alike(page, b) /\ Alike(page, d)
    BY DEF GoodNow, Good, PageType, Alike
  <2> HIDE DEF a, b, d
  <2>3. /\ Good(Finish(a, c), server, revoking) /\ Good(Finish(b, c), server, revoking)
        /\ Good(Finish(d, c), server, revoking)
    BY <1>1, <2>2, AsideEnds DEF GoodNow
  <2> QED
    BY <1>1, <2>1, <2>3 DEF GoodNow
<1> QED
  BY <1>2, <1>3

LEMMA RetryGood == ASSUME GoodNow, NEW c \in Calls, Retry(c) PROVE GoodNow'
<1> DEFINE p == Session!Expire(page)
           q == [p EXCEPT !.error = FALSE]
<1>1. Good(p, server, revoking) /\ p.calls[c].at = "free"
  <2>1. p.calls = page.calls
    BY ClearFields DEF Session!Expire, GoodNow, Good
  <2> QED
    BY <2>1, SessionGood DEF GoodNow, Retry, Idle
<1>2. page' = Begin(q, c, "config", None) /\ server' = server /\ revoking' = revoking
  BY DEF Retry
<1> HIDE DEF p
<1>3. Alike(p, q) /\ q.calls = p.calls
  BY <1>1 DEF Good, PageType, Alike
<1> HIDE DEF q
<1>4. Good(q, server, revoking)
  BY <1>1, <1>3, AlikeGood
<1>5. Good(Begin(q, c, "config", None), server, revoking)
  BY <1>1, <1>3, <1>4, AsideGood
<1> QED
  BY <1>2, <1>5 DEF GoodNow

(* Only the form changes the draft, and it is not shown beside a link.     *)
LEMMA DraftGood ==
    ASSUME GoodNow,
           \/ \E d \in Drafts : Type(d) \/ Amend(d)
           \/ \E fits \in BOOLEAN : AddFiles(fits)
    PROVE  GoodNow'
<1>1. /\ page.receiptShown = FALSE /\ server' = server /\ revoking' = revoking
      /\ page \in PageType
  BY PageFields DEF Type, Amend, AddFiles, FormShown, GoodNow, Good
<1>2. ASSUME NEW d \in Drafts, NEW stage \in Stages, stage = page.stage \/ stage = "compose"
      PROVE  /\ Good([page EXCEPT !.draft = d, !.stage = stage], server, revoking)
             /\ Good([page EXCEPT !.draft = d, !.stage = stage, !.error = FALSE],
                     server, revoking)
             /\ Good([page EXCEPT !.error = TRUE], server, revoking)
  <2>1. /\ Alike(page, [page EXCEPT !.draft = d, !.stage = stage])
        /\ Alike(page, [page EXCEPT !.draft = d, !.stage = stage, !.error = FALSE])
        /\ Alike(page, [page EXCEPT !.error = TRUE])
    BY <1>1, <1>2 DEF PageType, Alike
  <2> QED
    BY <2>1, AlikeGood DEF GoodNow
<1>3. CASE \E d \in Drafts : Type(d)
  <2>1. PICK d \in Drafts : Type(d)
    BY <1>3
  <2> DEFINE q == [page EXCEPT !.draft = d, !.stage = "compose"]
  <2>2. Good(q, server, revoking)
    BY <1>2, Values
  <2>3. page' = Session!Activity(q)
    BY <2>1 DEF Type
  <2> HIDE DEF q
  <2> QED
    BY <1>1, <2>2, <2>3, SessionGood DEF GoodNow
<1>4. CASE \E d \in Drafts : Amend(d)
  <2>1. PICK d \in Drafts, stage \in {page.stage, "compose"} :
          page' = [page EXCEPT !.draft = d, !.stage = stage]
    BY <1>4 DEF Amend
  <2>2. stage \in Stages
    BY <1>1, <2>1, PageFields, Values
  <2> QED
    BY <1>1, <1>2, <2>1, <2>2 DEF GoodNow
<1>5. CASE \E fits \in BOOLEAN : AddFiles(fits)
  <2> DEFINE q == [page EXCEPT !.draft = "fits", !.stage = "compose", !.error = FALSE]
  <2>1. Good(q, server, revoking) /\ Good([page EXCEPT !.error = TRUE], server, revoking)
    BY <1>2, Values
  <2>2. page' \in {Session!Clear(page), [page EXCEPT !.error = TRUE], Session!Touch(q)}
    BY <1>5 DEF AddFiles
  <2> HIDE DEF q
  <2> QED
    BY <1>1, <2>1, <2>2, SessionGood, ClearGood DEF GoodNow
<1> QED
  BY <1>3, <1>4, <1>5

(* The page becomes busy with its first command; a page that holds         *)
(* something is not cleared by being touched.                              *)
LEMMA SubmitGood ==
    ASSUME GoodNow, NEW c \in Calls, NEW accepted \in BOOLEAN, Submit(c, accepted)
    PROVE  GoodNow'
<1> DEFINE p == page
           b == [p EXCEPT !.busy = TRUE, !.stage = "encrypt", !.error = FALSE, !.copied = FALSE]
           calls == [p.calls EXCEPT ![c] = [at |-> "seal", pkg |-> None]]
           tickets == p.tickets \cup {c}
           q == [b EXCEPT !.left = Limit, !.timer = TRUE, !.calls = calls,
                          !.tickets = tickets, !.worker = c]
<1>1. /\ p \in PageType /\ server' = server /\ revoking' = revoking
      /\ p.busy = FALSE /\ p.calls[c].at = "free"
  BY PageFields DEF GoodNow, Good, Submit, Submittable, Idle
<1>2. p.worker = None /\ \A d \in Calls : ~Lives(p, d)
  BY <1>1, PageFields DEF GoodNow, Good, OneCall
<1>3. CASE page' = Session!Clear(page)
  BY <1>1, <1>3, ClearGood DEF GoodNow
<1>4. CASE page' = [page EXCEPT !.error = TRUE]
  <2>1. Alike(page, [page EXCEPT !.error = TRUE])
    BY <1>1 DEF PageType, Alike
  <2> QED
    BY <1>1, <1>4, <2>1, AlikeGood DEF GoodNow
<1>5. CASE page' = Started(page, c)
  <2>1. b \in PageType /\ b.busy /\ b.worker = None /\ b.calls = p.calls /\ b.tickets = p.tickets
        /\ b.link = p.link /\ b.receipt = p.receipt /\ b.receiptShown = p.receiptShown
        /\ b.draft = p.draft /\ b.abandoned = p.abandoned /\ b.stage = "encrypt"
    BY <1>1, <1>2, Values DEF PageType
  <2> HIDE DEF b
  <2>2. Limit \in Times /\ Limit # 0 /\ Limit # Session!Off
    BY ComposerAssumption DEF Times, Session!Off
  <2>3. Session!Touch(b) = [b EXCEPT !.left = Limit, !.timer = TRUE]
    <3> DEFINE l == [b EXCEPT !.left = Limit]
    <3>1. l.left = Limit /\ l.busy
      BY <2>1 DEF PageType
    <3>2. HasData(b) /\ HasData(l)
      BY <2>1, <3>1 DEF HasData
    <3>3. Session!Touch(b) = Session!Check(l)
      BY <3>2 DEF Session!Touch
    <3>4. Session!Check(l) = [l EXCEPT !.timer = TRUE]
      BY <2>2, <3>1, <3>2 DEF Session!Check, Session!Due
    <3> QED
      BY <3>3, <3>4
  <2>4. page' = q
    <3> DEFINE m == [b EXCEPT !.left = Limit, !.timer = TRUE]
               n == Begin(m, c, "seal", None)
    <3>1. page' = Ask(n, c)
      BY <1>5, <2>3 DEF Started, b
    <3>2. n = [m EXCEPT !.calls = calls, !.tickets = tickets]
      BY <2>1 DEF Begin, Session!Ticket, PageType
    <3>3. n.worker = None
      BY <2>1, <3>2 DEF PageType
    <3>4. Ask(n, c) = [n EXCEPT !.worker = c]
      BY <3>3 DEF Ask
    <3> HIDE DEF n, calls, tickets
    <3> QED
      BY <3>1, <3>2, <3>4
  <2>5. /\ calls \in CallTable /\ tickets \in SUBSET Calls
        /\ calls[c].at = "seal" /\ calls[c].pkg = None
        /\ \A d \in Calls \ {c} : calls[d] = p.calls[d]
    <3>1. "seal" \in States
      BY DEF States, Operating, Creating
    <3> QED
      BY <1>1, <3>1, PageFields, Values DEF CallTable
  <2> HIDE DEF calls, tickets
  <2>6. /\ q \in PageType
        /\ q.tickets = tickets /\ q.busy = TRUE /\ q.worker = c /\ q.link = p.link
        /\ q.receipt = p.receipt /\ q.receiptShown = p.receiptShown
        /\ q.draft = p.draft /\ q.abandoned = p.abandoned /\ q.stage # "revoked"
        /\ q.calls = calls
    BY <2>1, <2>2, <2>5 DEF PageType
  <2> HIDE DEF q
  <2>7. "seal" \in Operating /\ "seal" \in Commands
    BY DEF Operating, Creating, Commands
  <2>8. /\ q.calls[c].at = "seal" /\ q.calls[c].pkg = None
        /\ q.tickets = page.tickets \cup {c}
        /\ q.worker = IF q.calls[c].at \in Commands THEN c ELSE None
        /\ \A d \in Calls \ {c} : q.calls[d] = page.calls[d]
        /\ q.calls[c].at \in Operating
        /\ q.calls[c].at \notin {"challenge", "proof"}
        /\ Good(page, server, revoking) /\ \A d \in Calls \ {c} : ~Lives(page, d)
    BY <1>2, <2>5, <2>6, <2>7 DEF tickets, GoodNow
  <2>9. Good(q, server, revoking)
    BY <2>6, <2>8, WorksGood
  <2> QED
    BY <1>1, <2>4, <2>9 DEF GoodNow
<1> QED
  BY <1>3, <1>4, <1>5 DEF Submit

-------------------------------------------------------------------------------
(* The answers to an operation *)

Moved(p, c, w, stage, at, k) == [p EXCEPT
    !.worker = w, !.stage = stage, !.calls = [p.calls EXCEPT ![c] = [at |-> at, pkg |-> k]]]

LEMMA MovesOn ==
    ASSUME NEW p, NEW s, NEW r, Good(p, s, r), NEW c \in Calls, Lives(p, c),
           NEW at \in Operating, NEW k \in Packages, NEW stage \in Stages, NEW w,
           stage = p.stage \/ stage # "revoked",
           w = IF at \in Commands THEN c ELSE None,
           k \notin p.abandoned, s[k] # "unused",
           at \in {"challenge", "proof"} => s[k] = "sealed"
    PROVE  Good(Moved(p, c, w, stage, at, k), s, r)
<1> DEFINE calls == [p.calls EXCEPT ![c] = [at |-> at, pkg |-> k]]
           q == [p EXCEPT !.worker = w, !.stage = stage, !.calls = calls]
<1>1. p \in PageType /\ p.busy = TRUE /\ p.tickets = p.tickets \cup {c}
      /\ \A d \in Calls \ {c} : ~Lives(p, d)
  BY PageFields DEF Good, OneCall, Lives
<1>2. calls \in CallTable /\ w \in Calls \cup {None} /\ calls[c].at = at /\ calls[c].pkg = k
      /\ \A d \in Calls \ {c} : calls[d] = p.calls[d]
  <2>1. at \in States /\ k \in Some
    BY DEF States, Some
  <2> QED
    BY <1>1, <2>1, PageFields DEF CallTable
<1> HIDE DEF calls
<1>3. /\ q \in PageType
      /\ q.tickets = p.tickets /\ q.busy = p.busy /\ q.worker = w /\ q.link = p.link
      /\ q.receipt = p.receipt /\ q.receiptShown = p.receiptShown
      /\ q.draft = p.draft /\ q.abandoned = p.abandoned /\ q.stage = stage
      /\ q.calls = calls
  BY <1>1, <1>2 DEF PageType
<1> HIDE DEF q
<1>4. k # None
  BY ComposerAssumption
<1>5. /\ q.calls[c].at \in Operating
      /\ q.tickets = p.tickets \cup {c} /\ q.busy = TRUE
      /\ q.worker = IF q.calls[c].at \in Commands THEN c ELSE None
      /\ q.stage = p.stage \/ q.stage # "revoked"
      /\ \A d \in Calls \ {c} : q.calls[d] = p.calls[d]
      /\ q.calls[c].at # "seal" => q.calls[c].pkg # None
      /\ q.calls[c].pkg # None =>
             q.calls[c].pkg \notin p.abandoned /\ s[q.calls[c].pkg] # "unused"
      /\ q.calls[c].at \in {"challenge", "proof"} => s[q.calls[c].pkg] = "sealed"
  BY <1>1, <1>2, <1>3, <1>4
<1>6. Good(q, s, r)
  BY <1>1, <1>3, <1>5, WorksGood
<1> QED
  BY <1>6 DEF q, calls, Moved

LEMMA CallMoves ==
    ASSUME NEW calls \in CallTable, NEW c \in Calls, NEW at
    PROVE  [calls EXCEPT ![c].at = at] = [calls EXCEPT ![c] = [at |-> at, pkg |-> calls[c].pkg]]
<1> DEFINE call == calls[c]
<1>1. call \in [at : States, pkg : Some]
  BY DEF CallTable
<1> HIDE DEF call
<1>2. [call EXCEPT !.at = at] = [at |-> at, pkg |-> call.pkg]
  BY <1>1
<1>3. [calls EXCEPT ![c].at = at] = [calls EXCEPT ![c] = [call EXCEPT !.at = at]]
  BY DEF call
<1> QED
  BY <1>2, <1>3 DEF call

(* A live call of a later step works on a package of this session.         *)
LEMMA LiveCall ==
    ASSUME GoodNow, NEW c \in Calls, Session!Valid(page, c), page.calls[c].at \in Operating
    PROVE  /\ Lives(page, c) /\ page \in PageType /\ page.busy = TRUE
           /\ \A d \in Calls \ {c} : ~Lives(page, d)
           /\ page.calls[c].pkg \notin page.abandoned
           /\ page.calls[c].at # "seal" =>
                  /\ page.calls[c].pkg \in Packages /\ page.calls[c].pkg # None
                  /\ server[page.calls[c].pkg] # "unused"
           /\ page.calls[c].at \in {"challenge", "proof"} =>
                  server[page.calls[c].pkg] = "sealed"
<1>1. Lives(page, c) /\ c \in page.tickets
  BY DEF Lives, Session!Valid
<1>2. page \in PageType /\ page.busy = TRUE
  BY <1>1, PageFields DEF GoodNow, Good, OneCall
<1>3. page.calls[c].pkg \in Some
  BY <1>2, PageFields
<1> QED
  BY <1>1, <1>2, <1>3 DEF GoodNow, Good, OneCall, OfSession, Believes, Some

LEMMA ServerBecomes ==
    ASSUME NEW s, NEW r, Service(s, r), NEW k \in Packages, NEW t \in [Packages -> Known],
           \A j \in Packages \ {k} : t[j] = s[j],
           t[k] # "unused", s[k] \in EverStored => t[k] \in EverStored, s[k] # "revoked",
           t[k] = "revoked" => k \in r
    PROVE  Service(t, r) /\ Later(s, t)
BY DEF Service, Later

(* The worker has sealed a package: its key and its words are new.         *)
LEMMA SealedGood ==
    ASSUME GoodNow, NEW c \in Calls, NEW k \in Packages, Sealed(c, k) PROVE GoodNow'
<1>1. /\ server[k] = "unused" /\ server' = [server EXCEPT ![k] = "sealed"]
      /\ revoking' = revoking /\ page.calls[c].at = "seal"
  BY DEF Sealed, Awaiting
<1>2. Service(server', revoking) /\ Later(server, server') /\ server'[k] = "sealed"
      /\ \A j \in Packages \ {k} : server'[j] = server[j]
  <2>1. "sealed" \in Known /\ "sealed" # "unused" /\ "unused" \notin EverStored
    BY DEF Known, EverStored
  <2>2. Service(server, revoking)
    BY DEF GoodNow, Good
  <2>3. /\ server' \in [Packages -> Known] /\ server'[k] = "sealed"
        /\ \A j \in Packages \ {k} : server'[j] = server[j]
    BY <1>1, <2>1, <2>2 DEF Service
  <2> QED
    BY <1>1, <2>1, <2>2, <2>3, ServerBecomes
<1>3. Good(page, server', revoking)
  <2>1. ASSUME NEW d \in Calls, Lives(page, d), page.calls[d].at \in {"challenge", "proof"}
        PROVE  server'[page.calls[d].pkg] = "sealed"
    <3>1. page.calls[d].pkg \in Packages /\ server[page.calls[d].pkg] = "sealed"
      BY <2>1, PageFields DEF GoodNow, Good, Believes, OfSession, Some
    <3> QED
      BY <1>2, <3>1
  <2> QED
    BY <1>2, <2>1, LaterGood DEF GoodNow
<1>4. CASE Session!Valid(page, c)
  <2>1. page' = Moved(page, c, None, "proof", "challenge", k)
    BY <1>4 DEF Sealed, Continue, Moved
  <2>2. Lives(page, c)
    BY <1>1, <1>4, LiveCall DEF Operating, Creating
  <2>3. "challenge" \in Operating /\ "challenge" \notin Commands
    BY DEF Operating, Creating, Commands
  <2>4. k \notin page.abandoned /\ server'[k] = "sealed"
    BY <1>1, <1>2 DEF GoodNow, Good, Believes
  <2>5. Good(Moved(page, c, None, "proof", "challenge", k), server', revoking)
    BY <1>3, <2>2, <2>3, <2>4, Values, MovesOn
  <2> QED
    BY <1>1, <2>1, <2>5 DEF GoodNow
<1>5. CASE ~Session!Valid(page, c)
  <2>1. page' = Finish(Session!Settled(page, c), c)
    BY <1>5 DEF Sealed, Continue
  <2> QED
    BY <1>1, <1>3, <1>5, <2>1, StaleGood DEF GoodNow
<1> QED
  BY <1>4, <1>5

(* The challenge arrives.  The command that follows finds the worker free. *)
LEMMA ChallengedGood == ASSUME GoodNow, NEW c \in Calls, Challenged(c) PROVE GoodNow'
<1>1. /\ server' = server /\ revoking' = revoking /\ page.calls[c].at = "challenge"
  BY DEF Challenged, Awaiting
<1>2. CASE Session!Valid(page, c)
  <2> DEFINE k == page.calls[c].pkg
             calls == [page.calls EXCEPT ![c] = [at |-> "proof", pkg |-> k]]
             q == Moved(page, c, c, page.stage, "proof", k)
  <2>1. /\ page \in PageType /\ Lives(page, c) /\ \A d \in Calls \ {c} : ~Lives(page, d)
        /\ k \notin page.abandoned /\ k \in Packages
        /\ server[k] # "unused" /\ server[k] = "sealed"
    BY <1>1, <1>2, LiveCall DEF Operating, Creating
  <2>2. page.worker = None
    <3>1. \A d \in Calls : page.worker # d
      BY <1>1, <2>1 DEF GoodNow, Good, OneCall, Commands
    <3> QED
      BY <2>1, <3>1, PageFields
  <2>3. page' = q
    <3> DEFINE m == [page EXCEPT !.calls[c].at = "proof"]
    <3>1. page' = Ask(m, c)
      BY <1>2 DEF Challenged, Continue
    <3>2. m = [page EXCEPT !.calls = calls]
      BY <2>1, PageFields, CallMoves DEF PageType
    <3> HIDE DEF calls, m
    <3>3. m.worker = None
      BY <2>1, <2>2, <3>2 DEF PageType
    <3>4. page' = [m EXCEPT !.worker = c]
      BY <3>1, <3>3 DEF Ask
    <3>5. page' = [page EXCEPT !.worker = c, !.stage = page.stage, !.calls = calls]
      BY <2>1, <3>2, <3>4 DEF PageType
    <3> QED
      BY <3>5 DEF Moved, calls
  <2>4. "proof" \in Operating /\ "proof" \in Commands /\ page.stage \in Stages
    BY <2>1, PageFields DEF Operating, Creating, Commands
  <2> HIDE DEF k
  <2>5. Good(q, server, revoking)
    BY <2>1, <2>4, MovesOn DEF GoodNow
  <2> QED
    BY <1>1, <2>3, <2>5 DEF GoodNow
<1>3. CASE ~Session!Valid(page, c)
  <2>1. page' = Finish(Session!Settled(page, c), c)
    BY <1>3 DEF Challenged, Continue
  <2> QED
    BY <1>1, <1>3, <2>1, StaleGood DEF GoodNow
<1> QED
  BY <1>2, <1>3

(* The package is sent when its proof is found, and by a current call only. *)
LEMMA ProvedGood == ASSUME GoodNow, NEW c \in Calls, Proved(c) PROVE GoodNow'
<1>1. revoking' = revoking /\ page.calls[c].at = "proof"
  BY DEF Proved, Awaiting
<1>2. CASE Session!Valid(page, c)
  <2> DEFINE k == page.calls[c].pkg
             calls == [page.calls EXCEPT ![c] = [at |-> "upload", pkg |-> k]]
             q == Moved(page, c, None, "upload", "upload", k)
  <2>1. /\ page \in PageType /\ Lives(page, c) /\ \A d \in Calls \ {c} : ~Lives(page, d)
        /\ k \notin page.abandoned /\ k \in Packages
        /\ server[k] # "unused" /\ server[k] = "sealed"
    BY <1>1, <1>2, LiveCall DEF Operating, Creating
  <2>2. page' = q
    <3>1. page' = [page EXCEPT !.worker = None, !.stage = "upload",
                               !.calls[c].at = "upload"]
      BY <1>2 DEF Proved, Continue
    <3>2. [page.calls EXCEPT ![c].at = "upload"] = calls
      BY <2>1, PageFields, CallMoves
    <3> HIDE DEF calls
    <3>3. page' = [page EXCEPT !.worker = None, !.stage = "upload", !.calls = calls]
      BY <2>1, <3>1, <3>2 DEF PageType
    <3> QED
      BY <3>3 DEF Moved, calls
  <2>3. server' = [server EXCEPT ![k] = "sent"]
    BY <1>2 DEF Proved
  <2>4. "upload" \in Operating /\ "upload" \notin Commands
    BY DEF Operating, Creating, Commands
  <2> HIDE DEF calls, k
  <2>5. Good(q, server, revoking)
    BY <2>1, <2>4, Values, MovesOn DEF GoodNow
  <2>6. Service(server', revoking) /\ Later(server, server')
    <3>1. "sent" \in Known /\ "sealed" \notin EverStored
      BY DEF Known, EverStored
    <3>2. Service(server, revoking)
      BY DEF GoodNow, Good
    <3>3. /\ server' \in [Packages -> Known] /\ server'[k] = "sent"
          /\ \A j \in Packages \ {k} : server'[j] = server[j]
      BY <2>1, <2>3, <3>1, <3>2 DEF Service
    <3> QED
      BY <2>1, <3>1, <3>2, <3>3, ServerBecomes
  <2>7. \A d \in Calls : Lives(q, d) => q.calls[d].at \notin {"challenge", "proof"}
    <3>1. q.calls = calls /\ q.tickets = page.tickets
      BY <2>1 DEF PageType, Moved, calls
    <3>2. calls[c].at = "upload" /\ \A d \in Calls \ {c} : calls[d] = page.calls[d]
      BY <2>1, PageFields DEF calls, CallTable
    <3> QED
      BY <2>1, <3>1, <3>2 DEF Lives
  <2> HIDE DEF q
  <2>8. Good(q, server', revoking)
    BY <2>5, <2>6, <2>7, LaterGood
  <2> QED
    BY <1>1, <2>2, <2>8 DEF GoodNow
<1>3. CASE ~Session!Valid(page, c)
  <2>1. page' = Finish(Session!Settled(page, c), c) /\ server' = server
    BY <1>3 DEF Proved, Continue
  <2> QED
    BY <1>1, <1>3, <2>1, StaleGood DEF GoodNow
<1> QED
  BY <1>2, <1>3

(* The receipt: the draft gives way to the link.                           *)
LEMMA CreatedGood == ASSUME GoodNow, NEW c \in Calls, Created(c) PROVE GoodNow'
<1>1. /\ server' = server /\ revoking' = revoking /\ page.calls[c].at = "upload"
      /\ server[page.calls[c].pkg] \in EverStored
  BY DEF Created, Awaiting
<1>2. CASE Session!Valid(page, c)
  <2> DEFINE k == page.calls[c].pkg
             q == Shared(page, k)
  <2>1. /\ page \in PageType /\ Lives(page, c) /\ k \notin page.abandoned /\ k \in Packages
    BY <1>1, <1>2, LiveCall DEF Operating, Creating
  <2>2. page' = Finish(q, c) /\ server[k] \in EverStored
    BY <1>1, <1>2 DEF Created, Continue
  <2> HIDE DEF k
  <2>3. /\ q \in PageType
        /\ q.tickets = page.tickets /\ q.calls = page.calls /\ q.busy = FALSE
        /\ q.worker = None /\ q.abandoned = page.abandoned /\ q.link = k
        /\ q.receipt = k /\ q.receiptShown = TRUE /\ q.draft = "empty" /\ q.stage = "share"
    <3>1. k \in Some
      BY <2>1 DEF Some
    <3> QED
      BY <2>1, <3>1, Values DEF PageType, Shared
  <2> HIDE DEF q
  <2>4. Good(Finish(q, c), server, revoking)
    BY <2>1, <2>2, <2>3, DoneGood DEF GoodNow
  <2> QED
    BY <1>1, <2>2, <2>4 DEF GoodNow
<1>3. CASE ~Session!Valid(page, c)
  <2>1. page' = Finish(Session!Settled(page, c), c)
    BY <1>3 DEF Created, Continue
  <2> QED
    BY <1>1, <1>3, <2>1, StaleGood DEF GoodNow
<1> QED
  BY <1>2, <1>3

(* However an operation fails, the page is no longer busy with it.         *)
LEMMA FailsGood ==
    ASSUME GoodNow, NEW c \in Calls, SubmitFails(c) \/ RevokeFails(c) PROVE GoodNow'
<1>1. server' = server /\ revoking' = revoking
  BY DEF SubmitFails, RevokeFails
<1>2. CASE Session!Valid(page, c)
  <2> DEFINE stage == IF page.link # None THEN "share" ELSE "compose"
             a == [page EXCEPT !.stage = stage, !.error = TRUE, !.worker = None, !.busy = FALSE]
             b == [page EXCEPT !.stage = "share", !.error = TRUE, !.busy = FALSE]
  <2>1. page.calls[c].at \in Operating
    BY DEF SubmitFails, RevokeFails, Awaiting, Operating
  <2>2. Lives(page, c) /\ page \in PageType
    BY <1>2, <2>1, LiveCall
  <2>3. /\ page.link = page.receipt
        /\ page.link # None => /\ page.receiptShown /\ page.draft = "empty"
                               /\ page.link \notin page.abandoned
                               /\ server[page.link] \in EverStored
    BY DEF GoodNow, Good, OfSession, Believes
  <2>4. stage \in {"share", "compose"}
    OBVIOUS
  <2> HIDE DEF stage
  <2>5. CASE SubmitFails(c)
    <3>1. page' = Finish(a, c)
      BY <1>2, <2>5 DEF SubmitFails, Continue, CreationFailed, stage
    <3>2. /\ a \in PageType
          /\ a.tickets = page.tickets /\ a.calls = page.calls /\ a.busy = FALSE
          /\ a.worker = None /\ a.abandoned = page.abandoned /\ a.link = page.link
          /\ a.receipt = page.receipt /\ a.receiptShown = page.receiptShown
          /\ a.draft = page.draft /\ a.stage = stage
      BY <2>2, <2>4, Values DEF PageType
    <3> HIDE DEF a
    <3>3. Good(Finish(a, c), server, revoking)
      BY <2>2, <2>3, <2>4, <3>2, DoneGood DEF GoodNow
    <3> QED
      BY <1>1, <3>1, <3>3 DEF GoodNow
  <2>6. CASE RevokeFails(c)
    <3>1. page' = Finish(b, c) /\ page.calls[c].at = "revoke"
      BY <1>2, <2>6 DEF RevokeFails, Continue, Awaiting
    <3>2. page.worker = None
      <4>1. \A d \in Calls : page.worker # d
        BY <1>2, <2>1, <2>2, <3>1, LiveCall DEF GoodNow, Good, OneCall, Commands
      <4> QED
        BY <2>2, <4>1, PageFields
    <3>3. /\ b \in PageType
          /\ b.tickets = page.tickets /\ b.calls = page.calls /\ b.busy = FALSE
          /\ b.worker = None /\ b.abandoned = page.abandoned /\ b.link = page.link
          /\ b.receipt = page.receipt /\ b.receiptShown = page.receiptShown
          /\ b.draft = page.draft /\ b.stage = "share"
      BY <2>2, <3>2, Values DEF PageType
    <3> HIDE DEF b
    <3>4. Good(Finish(b, c), server, revoking)
      BY <2>2, <2>3, <3>3, DoneGood DEF GoodNow
    <3> QED
      BY <1>1, <3>1, <3>4 DEF GoodNow
  <2> QED
    BY <2>5, <2>6
<1>3. CASE ~Session!Valid(page, c)
  <2>1. page' = Finish(Session!Settled(page, c), c)
    BY <1>3 DEF SubmitFails, RevokeFails, Continue
  <2> QED
    BY <1>1, <1>3, <2>1, StaleGood DEF GoodNow
<1> QED
  BY <1>2, <1>3

(* The page says revoked when the server has said so.                      *)
LEMMA RevokedGood == ASSUME GoodNow, NEW c \in Calls, Revoked(c) PROVE GoodNow'
<1>1. /\ server' = server /\ revoking' = revoking /\ page.calls[c].at = "revoke"
      /\ server[page.calls[c].pkg] = "revoked"
  BY DEF Revoked, Awaiting
<1>2. CASE Session!Valid(page, c)
  <2> DEFINE q == [page EXCEPT !.receipt = None, !.stage = "revoked", !.link = None,
                               !.copied = FALSE, !.busy = FALSE]
  <2>1. /\ page \in PageType /\ Lives(page, c) /\ page.calls[c].pkg \in Packages
        /\ \A d \in Calls \ {c} : ~Lives(page, d)
    BY <1>1, <1>2, LiveCall DEF Operating
  <2>2. page' = Finish(q, c)
    BY <1>2 DEF Revoked, Continue, Withdrawn
  <2>3. page.worker = None
    <3>1. \A d \in Calls : page.worker # d
      BY <1>1, <2>1 DEF GoodNow, Good, OneCall, Commands
    <3> QED
      BY <2>1, <3>1, PageFields
  <2>4. /\ q \in PageType
        /\ q.tickets = page.tickets /\ q.calls = page.calls /\ q.busy = FALSE
        /\ q.worker = None /\ q.abandoned = page.abandoned /\ q.link = None
        /\ q.receipt = None /\ q.stage = "revoked"
    BY <2>1, <2>3, Values DEF PageType
  <2> HIDE DEF q
  <2>5. \E k \in revoking : server[k] = "revoked"
    BY <1>1, <2>1 DEF GoodNow, Good, Service
  <2>6. Good(Finish(q, c), server, revoking)
    BY <2>1, <2>4, <2>5, DoneGood DEF GoodNow
  <2> QED
    BY <1>1, <2>2, <2>6 DEF GoodNow
<1>3. CASE ~Session!Valid(page, c)
  <2>1. page' = Finish(Session!Settled(page, c), c)
    BY <1>3 DEF Revoked, Continue
  <2> QED
    BY <1>1, <1>3, <2>1, StaleGood DEF GoodNow
<1> QED
  BY <1>2, <1>3

-------------------------------------------------------------------------------
(* copyLink and revoke *)

LEMMA SlippedCalls ==
    ASSUME NEW p \in PageType, NEW late PROVE Session!Slipped(p, late).calls = p.calls
BY ClearFields DEF Session!Slipped

LEMMA CopyLinkGood ==
    ASSUME GoodNow, NEW c \in Calls, NEW late \in BOOLEAN, CopyLink(c, late) PROVE GoodNow'
<1> DEFINE p == Session!Slipped(page, late)
<1>1. /\ server' = server /\ revoking' = revoking
      /\ page' \in {Session!Clear(page), Begin(p, c, "copy", None)}
  BY DEF CopyLink
<1>2. Good(p, server, revoking) /\ p.calls[c].at = "free"
  BY SessionGood, SlippedCalls DEF GoodNow, Good, CopyLink, Idle
<1> HIDE DEF p
<1>3. Good(Begin(p, c, "copy", None), server, revoking)
  BY <1>2, AsideGood
<1> QED
  BY <1>1, <1>3, ClearGood DEF GoodNow

LEMMA RevokeGood ==
    ASSUME GoodNow, NEW c \in Calls, NEW late \in BOOLEAN, Revoke(c, late) PROVE GoodNow'
<1> DEFINE p == Session!Slipped(page, late)
<1>1. server' = server /\ Good(p, server, revoking) /\ page \in PageType
  BY SessionGood DEF GoodNow, Good, Revoke
<1>2. CASE page' = Session!Clear(page) /\ UNCHANGED revoking
  BY <1>1, <1>2, ClearGood DEF GoodNow
<1>3. CASE page' = RevokeThrows(p) /\ UNCHANGED revoking
  <2> HIDE DEF p
  <2>1. Alike(p, RevokeThrows(p))
    BY <1>1, Values DEF Good, PageType, Alike, RevokeThrows
  <2>2. Good(RevokeThrows(p), server, revoking)
    BY <1>1, <2>1, AlikeGood
  <2> QED
    BY <1>1, <1>3, <2>2 DEF GoodNow
<1>4. CASE /\ p.receipt # None
           /\ page' = Begin([p EXCEPT !.busy = TRUE, !.stage = "revoke"], c, "revoke", p.receipt)
           /\ revoking' = revoking \cup {p.receipt}
  <2>1. p = page
    BY <1>1, <1>4, ClearFields DEF Session!Slipped
  <2> HIDE DEF p
  <2> DEFINE k == page.receipt
             calls == [page.calls EXCEPT ![c] = [at |-> "revoke", pkg |-> k]]
             tickets == page.tickets \cup {c}
             q == [[page EXCEPT !.busy = TRUE, !.stage = "revoke", !.calls = calls]
                       EXCEPT !.tickets = tickets]
             r == revoking \cup {k}
  <2>2. page.busy = FALSE /\ page.calls[c].at = "free" /\ page.worker = None
        /\ \A d \in Calls : ~Lives(page, d)
    BY PageFields DEF GoodNow, Good, OneCall, Revoke, Idle
  <2>3. /\ k \in Packages /\ k # None /\ k \notin page.abandoned /\ server[k] # "unused"
    BY <1>1, <1>4, <2>1, PageFields
       DEF GoodNow, Good, OfSession, Believes, EverStored, Some
  <2>4. page' = q /\ revoking' = r
    BY <1>1, <1>4, <2>1 DEF Begin, Session!Ticket, PageType
  <2>5. /\ calls \in CallTable /\ tickets \in SUBSET Calls
        /\ calls[c].at = "revoke" /\ calls[c].pkg = k
        /\ \A d \in Calls \ {c} : calls[d] = page.calls[d]
    <3>1. "revoke" \in States /\ k \in Some
      BY <2>3 DEF States, Operating, Some
    <3> HIDE DEF k
    <3> QED
      BY <1>1, <3>1, PageFields DEF CallTable
  <2> HIDE DEF calls, tickets, k
  <2>6. /\ q \in PageType
        /\ q.tickets = tickets /\ q.busy = TRUE /\ q.worker = None /\ q.link = page.link
        /\ q.receipt = page.receipt /\ q.receiptShown = page.receiptShown
        /\ q.draft = page.draft /\ q.abandoned = page.abandoned /\ q.stage = "revoke"
        /\ q.calls = calls
    BY <1>1, <2>2, <2>5, Values DEF PageType
  <2> HIDE DEF q
  <2>7. /\ q.calls[c].at = "revoke" /\ q.calls[c].pkg = k
        /\ q.tickets = page.tickets \cup {c}
        /\ q.worker = IF q.calls[c].at \in Commands THEN c ELSE None
        /\ \A d \in Calls \ {c} : q.calls[d] = page.calls[d]
        /\ q.calls[c].at \in Operating
        /\ q.calls[c].at \notin {"challenge", "proof"}
        /\ Good(page, server, revoking) /\ \A d \in Calls \ {c} : ~Lives(page, d)
    BY <2>2, <2>5, <2>6 DEF tickets, Operating, Commands, GoodNow
  <2>8. Good(q, server, revoking)
    BY <2>3, <2>6, <2>7, WorksGood
  <2>9. Service(server, r) /\ Later(server, server) /\ revoking \subseteq r
    BY <2>3, <1>1 DEF Good, Service, Later
  <2>10. Good(q, server, r)
    <3>1. \A d \in Calls : Lives(q, d) /\ q.calls[d].at \in {"challenge", "proof"}
                               => server[q.calls[d].pkg] = "sealed"
      BY <2>8 DEF Good, Believes
    <3> HIDE DEF r
    <3> QED
      BY <2>8, <2>9, <3>1, LaterGood
  <2> QED
    BY <1>1, <2>4, <2>10 DEF GoodNow
<1> QED
  BY <1>2, <1>3, <1>4 DEF Revoke

-------------------------------------------------------------------------------
(* The server, and all together *)

LEMMA ServerMovesGood == ASSUME GoodNow, NEW k \in Packages, ServerMoves(k) PROVE GoodNow'
<1>1. page' = page /\ revoking' = revoking /\ Service(server, revoking)
  BY DEF ServerMoves, GoodNow, Good
<1>2. PICK x \in {"stored", "lost", "revoked"} :
        /\ server' = [server EXCEPT ![k] = x]
        /\ server[k] \in {"sent", "stored"} /\ (x = "revoked" => k \in revoking)
  BY DEF ServerMoves
<1>3. /\ server' \in [Packages -> Known] /\ server'[k] = x
      /\ \A j \in Packages \ {k} : server'[j] = server[j]
  BY <1>1, <1>2 DEF Service, Known, EverStored
<1>4. Service(server', revoking) /\ Later(server, server')
  BY <1>1, <1>2, <1>3, ServerBecomes DEF EverStored
<1>5. ASSUME NEW c \in Calls, Lives(page, c), page.calls[c].at \in {"challenge", "proof"}
      PROVE  server'[page.calls[c].pkg] = "sealed"
  <2>1. page.calls[c].pkg \in Packages /\ server[page.calls[c].pkg] = "sealed"
    BY <1>5, PageFields DEF GoodNow, Good, Believes, OfSession, Some
  <2> QED
    BY <1>2, <1>3, <2>1
<1>6. Good(page, server', revoking)
  BY <1>4, <1>5, LaterGood DEF GoodNow
<1> QED
  BY <1>1, <1>6 DEF GoodNow

LEMMA InitGood == ASSUME Init PROVE GoodNow
<1>1. PICK c \in Calls : page = Begin(Blank, c, "config", None)
  BY DEF Init
<1> DEFINE calls == [d \in Calls |-> Free]
<1>2. calls \in CallTable /\ \A d \in Calls : calls[d].at = "free" /\ calls[d].pkg = None
  BY Values DEF CallTable, Free, States
<1> HIDE DEF calls
<1>3. Blank = [left |-> Session!Off, timer |-> FALSE, tickets |-> {}, hidden |-> FALSE,
               stage |-> "compose", draft |-> "empty", busy |-> FALSE, configured |-> FALSE,
               link |-> None, receipt |-> None, receiptShown |-> FALSE, copied |-> FALSE,
               error |-> FALSE, worker |-> None, calls |-> calls, abandoned |-> {}]
  BY DEF Blank, calls
<1>4. /\ Blank \in PageType /\ Blank.tickets = {} /\ Blank.calls = calls /\ Blank.busy = FALSE
      /\ Blank.worker = None /\ Blank.link = None /\ Blank.receipt = None
      /\ Blank.abandoned = {} /\ Blank.stage = "compose"
  BY <1>2, <1>3, Values DEF PageType
<1>5. \A d \in Calls : ~Lives(Blank, d)
  BY <1>4 DEF Lives
<1>6. OneCall(Blank)
  BY <1>4, <1>5, ComposerAssumption DEF OneCall
<1>7. OfSession(Blank) /\ Believes(Blank, server, revoking)
  BY <1>2, <1>4, <1>5 DEF OfSession, Believes
<1>8. Service(server, revoking)
  BY DEF Init, Service, Known
<1>9. Good(Blank, server, revoking)
  BY <1>4, <1>6, <1>7, <1>8 DEF Good
<1>10. Good(Begin(Blank, c, "config", None), server, revoking)
  BY <1>2, <1>4, <1>9, AsideGood
<1> QED
  BY <1>1, <1>10 DEF GoodNow

LEMMA NextGood == ASSUME GoodNow, [Next]_vars PROVE GoodNow'
<1>1. CASE UserActs \/ \E d \in Drafts : Amend(d)
  BY <1>1, DraftGood, SubmitGood, SessionGood DEF UserActs, Act, GoodNow
<1>2. ASSUME NEW c \in Calls, Retry(c) \/ Answers(c) \/ Copied(c) PROVE GoodNow'
  BY <1>2, RetryGood, AnswersAside, SealedGood, ChallengedGood, ProvedGood, CreatedGood,
     FailsGood, RevokedGood DEF Answers
<1>3. ASSUME NEW c \in Calls, NEW late \in BOOLEAN, CopyLink(c, late) \/ Revoke(c, late)
      PROVE  GoodNow'
  BY <1>3, CopyLinkGood, RevokeGood
<1>4. CASE Leave \/ Visibility \/ TimerFires \/ Tick
  BY <1>4, SessionGood, ClearGood DEF Leave, Visibility, TimerFires, Tick, GoodNow
<1>5. ASSUME NEW k \in Packages, ServerMoves(k) PROVE GoodNow'
  BY <1>5, ServerMovesGood
<1>6. CASE UNCHANGED vars
  BY <1>6 DEF vars, GoodNow
<1> QED
  BY <1>1, <1>2, <1>3, <1>4, <1>5, <1>6 DEF Next

(* The page has one operation at a time and believes of its packages only   *)
(* what the server knows of them (controllers.ts, session.ts, worker.ts).   *)
THEOREM ComposerInvariant == Spec => []GoodNow
<1>1. Init => GoodNow
  BY InitGood
<1>2. GoodNow /\ [Next]_vars => GoodNow'
  BY NextGood
<1> QED
  BY <1>1, <1>2, PTL DEF Spec

-------------------------------------------------------------------------------
(* Results *)

(* The page is busy exactly while one operation of its session is under    *)
(* way, and the worker runs a command exactly when that operation waits    *)
(* for one, however calls are answered, fail, or are overtaken by a clear  *)
(* (controllers.ts:170, 243, 259, 279, crypto.worker.ts:26-29).            *)
THEOREM BusyAlwaysMeansOneOperation == Spec => []BusyMeansOneOperation
<1>1. ASSUME GoodNow PROVE BusyMeansOneOperation
  <2>1. page.tickets \in SUBSET Calls /\ page.busy \in BOOLEAN
    BY <1>1, PageFields DEF GoodNow, Good
  <2>2. page.busy <=> \E c \in Calls : Lives(page, c)
    BY <1>1 DEF GoodNow, Good, OneCall
  <2>3. Cardinality(Operation) = IF page.busy THEN 1 ELSE 0
    <3>1. CASE \E c \in Calls : Lives(page, c)
      <4>1. PICK c \in Calls : Lives(page, c)
        BY <3>1
      <4>2. Operation = {c}
        BY <1>1, <2>1, <4>1 DEF GoodNow, Good, OneCall, Lives, Operation
      <4>3. Cardinality(Operation) = 1
        BY <4>2, FS_Singleton
      <4> QED
        BY <2>2, <3>1, <4>3
    <3>2. CASE ~\E c \in Calls : Lives(page, c)
      <4>1. Operation = {}
        BY <2>1, <3>2 DEF Lives, Operation
      <4>2. Cardinality(Operation) = 0
        BY <4>1, FS_EmptySet
      <4> QED
        BY <2>2, <3>2, <4>2
    <3> QED
      BY <3>1, <3>2
  <2>4. ASSUME NEW c \in Calls
        PROVE  page.worker = c <=> c \in page.tickets /\ page.calls[c].at \in {"seal", "proof"}
    BY <1>1 DEF GoodNow, Good, OneCall, Lives, Commands, Operating, Creating
  <2> QED
    BY <2>3, <2>4 DEF BusyMeansOneOperation
<1> QED
  BY <1>1, ComposerInvariant, PTL

(* A link shown is one the server confirmed, with the receipt of the same  *)
(* package and no draft beside it; no package of a cleared session comes   *)
(* back, and a page that says revoked was told so                          *)
(* (controllers.ts:220-233, 265-280, session.ts:68-70).                    *)
THEOREM LinkAlwaysTheSessions == Spec => []LinkIsTheSessions
<1>1. GoodNow => LinkIsTheSessions
  BY DEF GoodNow, Good, OfSession, Believes, LinkIsTheSessions
<1> QED
  BY <1>1, ComposerInvariant, PTL
================================================================================
