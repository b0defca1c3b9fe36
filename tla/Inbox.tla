------------------------------- MODULE Inbox ---------------------------------
(***************************************************************************)
(* A business member's notifications: what the API derives from job,       *)
(* outbox and payment events (notifications.service), and the lists that   *)
(* show them and mark them as read before the API has: the bell of every   *)
(* page and, on the notifications page, a second one that knows nothing    *)
(* of the bell beside it.                                                  *)
(***************************************************************************)
EXTENDS Naturals, FiniteSets

CONSTANTS MaxEvents,   \* bound: notifications that arise, numbered in their order
          Window,      \* how many of them a list holds
          MaxCalls     \* bound: calls under way at once

ASSUME WindowAssumption == Window \in Nat

VARIABLES lists,    \* the lists on the page, each with an entry in what follows
          arisen,   \* so many notifications have arisen
          reads,    \* notification_reads of the user
          items,    \* the notifications on display
          readHere, \* those of them that are displayed as read
          asking,   \* asking[w][n]: a call of list w under way
          expired,  \* authExpired
          muddled,  \* since its last load began, calls of the list crossed or an answer was lost
          elsewhere    \* since its last load began, the other list marked something as read

inboxVars == <<lists, arisen, reads, items, readHere, asking, expired, muddled, elsewhere>>

Lists == {"bell", "page"}
Silent == [kind |-> "none", step |-> "none"]
Lines == 1..MaxCalls
Newest50 == {e \in 1..arisen : e + Window > arisen}

\* A call remembers what was on display when it began.
Question(w, kind, e) ==
  [kind |-> kind, of |-> e, step |-> "sent", items |-> IF kind = "all" THEN items[w] ELSE {},
   reads |-> IF kind = "all" THEN readHere[w] ELSE {}]

Crosses(w, kind) == \E n \in Lines : asking[w][n].kind \in
                       CASE kind = "load" -> {"load", "open", "all"} [] kind = "open" -> {"load", "all"}
                         [] OTHER -> {"load", "open"}

\* A list changes what it shows and the calls that it has under way.
Turn(w, i, r, a, x, m, b) ==
  /\ items' = [items EXCEPT ![w] = i] /\ readHere' = [readHere EXCEPT ![w] = r] /\ asking' = [asking EXCEPT ![w] = a]
  /\ expired' = [expired EXCEPT ![w] = x] /\ muddled' = [muddled EXCEPT ![w] = m] /\ elsewhere' = [elsewhere EXCEPT ![w] = b]
  /\ UNCHANGED <<lists, arisen>>

CallsUnderWay == {c \in Lists \X Lines : asking[c[1]][c[2]] # Silent}

Send(w, kind, e, r) ==
  /\ Cardinality(CallsUnderWay) < MaxCalls /\ \E n \in Lines : asking[w][n] = Silent
  /\ Turn(w, items[w], r, [asking[w] EXCEPT ![CHOOSE n \in Lines : asking[w][n] = Silent] = Question(w, kind, e)],
          expired[w], Crosses(w, kind) \/ (muddled[w] /\ kind # "load"), elsewhere[w] /\ kind # "load")
  /\ UNCHANGED reads

-----------------------------------------------------------------------------
NotificationArises ==
  /\ arisen < MaxEvents /\ arisen' = arisen + 1
  /\ UNCHANGED <<lists, reads, items, readHere, asking, expired, muddled, elsewhere>>

\* The bell polls until its session has expired; the page loads once for each session.
PollNotifications(w) ==
  /\ w = "page" \/ ~expired[w]
  /\ Send(w, "load", 0, readHere[w])

handleOpenNotification(w, e) ==
  /\ ~expired[w] /\ e \in items[w] \ readHere[w]
  /\ Send(w, "open", e, readHere[w] \cup {e})

handleMarkAllRead(w) ==
  /\ ~expired[w] /\ items[w] \ readHere[w] # {} /\ \A n \in Lines : asking[w][n].kind # "all"
  /\ Send(w, "all", 0, items[w])

-----------------------------------------------------------------------------
\* The API has done a part of a call; a marking leaves the other list behind.
Replied(w, n, call) ==
  /\ asking' = [asking EXCEPT ![w] = [@ EXCEPT ![n] = call]]
  /\ UNCHANGED <<lists, arisen, items, readHere, expired, muddled>>
Marked(w, n, marks) ==
  /\ reads' = reads \cup marks /\ elsewhere' = [v \in Lists |-> elsewhere[v] \/ v # w]
  /\ Replied(w, n, [asking[w][n] EXCEPT !.step = "done"])

\* The newest events first, then which of them are read.
buildBusinessNotifications(w, n) ==
  /\ asking[w][n].kind = "load"
  /\ \/ asking[w][n].step = "sent" /\ Replied(w, n, [asking[w][n] EXCEPT !.step = "listed", !.items = Newest50])
     \/ /\ asking[w][n].step = "listed"
        /\ Replied(w, n, [asking[w][n] EXCEPT !.step = "done", !.reads = reads \cap asking[w][n].items])
  /\ UNCHANGED <<reads, elsewhere>>

\* Refused for an event that the user may not see: those of the user's organisation exist.
notificationVisibleToUser(e) == e \in 1..arisen
markBusinessNotificationRead(w, n) ==
  /\ asking[w][n].kind = "open" /\ asking[w][n].step = "sent" /\ notificationVisibleToUser(asking[w][n].of)
  /\ Marked(w, n, {asking[w][n].of})

\* The list is built anew, so that all its notifications are read, shown or not.
markAllBusinessNotificationsRead(w, n) ==
  /\ asking[w][n].kind = "all" /\ asking[w][n].step = "sent"
  /\ Marked(w, n, Newest50)

-----------------------------------------------------------------------------
\* After a call; the bell starts afresh when its session turns out to have expired or not
\* to: its loads under way count no more, and it asks once again.
Afresh(w) == [m \in Lines |-> IF asking[w][m].kind = "load" THEN Silent ELSE asking[w][m]]
CallOver(w, n) == [asking[w] EXCEPT ![n] = Silent]
EndsCall(w, n, i, r, x) ==
  /\ UNCHANGED reads
  /\ IF w = "bell" /\ expired[w] # x
     THEN Turn(w, i, r, [Afresh(w) EXCEPT ![n] = Question(w, "load", 0)], x,
               \E m \in Lines : asking[w][m].kind \in {"open", "all"}, FALSE)
     ELSE Turn(w, i, r, CallOver(w, n), x, muddled[w], elsewhere[w])

resolveNotificationsLoadSuccess(w, n) ==
  /\ asking[w][n].kind = "load" /\ asking[w][n].step = "done"
  /\ EndsCall(w, n, asking[w][n].items, asking[w][n].reads, FALSE)

\* Nothing is displayed after a failed load.
resolveNotificationsLoadFailure(w, n) ==
  /\ asking[w][n].kind = "load"
  /\ \E x \in BOOLEAN : EndsCall(w, n, {}, {}, x)

\* So it does with a renewed session.
RenewNotifications(w) ==
  /\ w = "bell" /\ Cardinality(CallsUnderWay) < MaxCalls
  /\ \E n \in Lines :
       /\ Afresh(w)[n] = Silent /\ \A m \in 1..n-1 : Afresh(w)[m] # Silent
       /\ Turn(w, items[w], readHere[w], [Afresh(w) EXCEPT ![n] = Question(w, "load", 0)], expired[w],
               \E m \in Lines : asking[w][m].kind \in {"open", "all"}, FALSE)
  /\ UNCHANGED reads

MarkSucceeds(w, n) ==
  /\ asking[w][n].kind \in {"open", "all"} /\ asking[w][n].step = "done"
  /\ Turn(w, items[w], readHere[w], CallOver(w, n), expired[w], muddled[w], elsewhere[w]) /\ UNCHANGED reads

\* What was shown as read is shown as unread again: one notification, or the whole list as
\* it was when the button was pressed.  The API may have marked it all the same.
Unmarked(w, call) == IF call.kind = "open" THEN [items |-> items[w], read |-> readHere[w] \ {call.of}]
                     ELSE [items |-> call.items, read |-> call.reads]

MarkFails(w, n) ==
  /\ asking[w][n].kind \in {"open", "all"}
  /\ LET was == Unmarked(w, asking[w][n])
     IN Turn(w, was.items, was.read, CallOver(w, n), expired[w], muddled[w] \/ asking[w][n].step = "done", elsewhere[w])
  /\ UNCHANGED reads

InboxInit ==
  /\ lists \in {{"bell"}, Lists} /\ arisen = 0 /\ reads = {}
  /\ items = [w \in Lists |-> {}] /\ readHere = items
  /\ expired = [w \in Lists |-> FALSE] /\ muddled = expired /\ elsewhere = expired
  /\ asking = [w \in Lists |-> [n \in Lines |-> IF n = 1 /\ w \in lists THEN Question(w, "load", 0) ELSE Silent]]

InboxNext ==
  \/ NotificationArises
  \/ \E w \in lists :
       \/ PollNotifications(w) \/ RenewNotifications(w) \/ handleMarkAllRead(w)
       \/ \E e \in items[w] : handleOpenNotification(w, e)
       \/ \E n \in Lines :
            \/ buildBusinessNotifications(w, n) \/ markBusinessNotificationRead(w, n)
            \/ markAllBusinessNotificationsRead(w, n) \/ resolveNotificationsLoadSuccess(w, n)
            \/ resolveNotificationsLoadFailure(w, n) \/ MarkSucceeds(w, n) \/ MarkFails(w, n)

-----------------------------------------------------------------------------
AllAnswered(w) == \A n \in Lines : asking[w][n] = Silent

\* A list with all its calls answered shows a notification that the API still lists as read
\* only if the API has it as read, and always if it has, unless since the list's last load
\* calls of its own crossed or lost an answer; or, for what it shows as unread, the other
\* list beside it marked something, which nothing tells it.  One that newer notifications
\* have pushed out of the list may be shown as read although "mark all" passed it over.
InboxAgrees ==
  \A w \in lists : AllAnswered(w) /\ ~muddled[w] =>
    \A e \in items[w] \cap Newest50 : /\ e \in readHere[w] => e \in reads
                                      /\ e \in reads => e \in readHere[w] \/ elsewhere[w]
=============================================================================
