------------------------------ MODULE WebSession ------------------------------
(***************************************************************************)
(* SensitiveSession (web/src/lib/session.ts): the inactivity deadline and  *)
(* the tickets that guard what a page of the browser keeps.  Both pages    *)
(* use it, so it is a library of functions from a page to a page; a page   *)
(* is a record, and these fields of it belong to the session:              *)
(*   left     how long until the deadline, in ticks; Off: no deadline      *)
(*   timer    a timeout is scheduled for check()                           *)
(*   tickets  the calls whose ticket is of the current generation          *)
(*   hidden   document.hidden                                              *)
(*                                                                         *)
(* The code compares a ticket's generation with the current one and with   *)
(* nothing else, and its AbortSignal is aborted by the clear() that        *)
(* replaces the generation; so a ticket is kept as the fact that it is     *)
(* still current, and clear() empties the set.  The browser runs one task  *)
(* at a time, but the clock moves inside a task as well.                   *)
(***************************************************************************)
EXTENDS Integers

CONSTANTS
    Limit,      \* the five minutes, in ticks
    HasData(_), \* options.hasData
    Reset(_)    \* options.clear

Off == -1

(* clear: the generation changes, requests are aborted, the page is reset. *)
Clear(p) == Reset([p EXCEPT !.left = Off, !.timer = FALSE, !.tickets = {}])

(* expire: now >= deadline.  The result of expire() is Due of the page     *)
(* before.                                                                 *)
Due(p) == p.left = 0
Expire(p) == IF Due(p) THEN Clear(p) ELSE p

Check_NotRearmed(p) ==
    IF Due(p) THEN Clear(p)
    ELSE IF p.left = Off \/ ~HasData(p)
         THEN [p EXCEPT !.left = Off, !.timer = FALSE]
         ELSE [p EXCEPT !.timer = FALSE]
Check(p) ==
    IF Due(p) THEN Clear(p)
    ELSE IF p.left = Off \/ ~HasData(p)
         THEN [p EXCEPT !.left = Off, !.timer = FALSE]
         ELSE [p EXCEPT !.timer = TRUE]

Touch(p) == Check([p EXCEPT !.left = IF HasData(p) THEN Limit ELSE Off])

(* activity, keep: a trusted event of the user moves the deadline unless   *)
(* it has passed.  The listener of the document runs after the binding of  *)
(* the element, so p already holds what the event entered; the queued      *)
(* second touch finds the same page in the same task.                      *)
Activity(p) == IF Due(p) THEN Clear(p) ELSE Touch(p)

(* ticket: expire() may clear the page although the caller has just found  *)
(* it in time; late says that the deadline is passed in between.           *)
Slipped(p, late) == IF late /\ p.left = 1 THEN Clear(p) ELSE p
Ticket(p, c) == [p EXCEPT !.tickets = @ \cup {c}]

(* valid, and the page it leaves behind: expire() runs only for a ticket   *)
(* of the current generation.                                              *)
Valid(p, c) == c \in p.tickets /\ ~Due(p)
Settled(p, c) == IF c \in p.tickets THEN Expire(p) ELSE p

(* visibilitychange.  hideAtOnce is options.hideImmediately.               *)
Hide_Never(p, hideAtOnce) == [p EXCEPT !.hidden = TRUE]
Hide(p, hideAtOnce) ==
    LET q == [p EXCEPT !.hidden = TRUE]
    IN  IF hideAtOnce THEN Clear(q) ELSE q
Show(p) == Check([p EXCEPT !.hidden = FALSE])

Elapse(p) == IF p.left > 0 THEN [p EXCEPT !.left = @ - 1] ELSE p
===============================================================================
