---------------------------- MODULE Notifications ----------------------------
(***************************************************************************)
(* Notices of one user: NotificationService writes and marks them          *)
(* (notification.service.ts), the bell of a page shows the unread ones     *)
(* (useNotifications.ts, NotificationBell.tsx).  The page takes an item    *)
(* off before the server has marked it, puts the list back when the call   *)
(* fails, and asks again every 15 seconds; a failing poll shows no items.  *)
(***************************************************************************)
EXTENDS Integers, FiniteSets

CONSTANTS
  MaxNotices,   \* bound: notices that are written
  Limit,        \* `take` of listUnread
  Creators,     \* requests that notify the user, at a time
  Clicks        \* calls of the bell in flight at a time

ASSUME BellBounds == MaxNotices \in Nat /\ Limit \in Nat \ {0}

Notices == 1 .. MaxNotices   \* in the order of createdAt

VARIABLES
  enabled,      \* User.inAppNotificationsEnabled
  unread,       \* notices that are not read
  written,      \* how many there are
  making,       \* creators that have looked at the setting
  shown,        \* the query's data
  poll,         \* the query in flight
  clicks        \* the mutations in flight

bell == <<enabled, unread, written, making, shown, poll, clicks>>

NoClick == [pc |-> "idle", ids |-> {}, all |-> FALSE, before |-> {}]
NoPoll  == [pc |-> "idle", found |-> {}]

----------------------------------------------------------------------------
(* create, createMany, listUnread                                           *)

NotifyLook(c) ==
  /\ c \notin making /\ enabled /\ written + Cardinality(making) < MaxNotices
  /\ making' = making \cup {c}
  /\ UNCHANGED <<enabled, unread, written, shown, poll, clicks>>

\* The row is written, whatever the setting has become.
NotifyWrite(c) ==
  /\ c \in making /\ making' = making \ {c}
  /\ written' = written + 1 /\ unread' = unread \cup {written + 1}
  /\ UNCHANGED <<enabled, shown, poll, clicks>>

\* The newest of the unread ones.
listUnread == {n \in unread : Cardinality({m \in unread : m > n}) < Limit}

----------------------------------------------------------------------------
(* useQuery: one query at a time, every refetchInterval                     *)

\* Mutated form: the list is asked for when the page opens, and not again.
PollStartOnce ==
  /\ poll.pc = "idle" /\ written = 0 /\ poll' = [NoPoll EXCEPT !.pc = "sent"]
  /\ UNCHANGED <<enabled, unread, written, making, shown, clicks>>

PollStart ==
  /\ poll.pc = "idle" /\ poll' = [NoPoll EXCEPT !.pc = "sent"]
  /\ UNCHANGED <<enabled, unread, written, making, shown, clicks>>

PollRead ==
  /\ poll.pc = "sent" /\ poll' = [pc |-> "read", found |-> listUnread]
  /\ UNCHANGED <<enabled, unread, written, making, shown, clicks>>

PollArrive ==
  /\ poll.pc = "read" /\ shown' = poll.found /\ poll' = NoPoll
  /\ UNCHANGED <<enabled, unread, written, making, clicks>>

\* queryFn catches what went wrong: the answer is an empty list.
PollFail ==
  /\ poll.pc # "idle" /\ shown' = {} /\ poll' = NoPoll
  /\ UNCHANGED <<enabled, unread, written, making, clicks>>

----------------------------------------------------------------------------
(* markRead, markAllRead                                                    *)

\* onMutate: the query in flight is cancelled, the items go from the list.
Mutate(c, ids, all) ==
  /\ clicks[c].pc = "idle"
  /\ clicks' = [clicks EXCEPT ![c] = [pc |-> "sent", ids |-> ids, all |-> all, before |-> shown]]
  /\ shown' = shown \ ids /\ poll' = NoPoll
  /\ UNCHANGED <<enabled, unread, written, making>>

MarkRead(c, n)  == n \in shown /\ Mutate(c, {n}, FALSE)
MarkAllRead(c)  == shown # {} /\ Mutate(c, shown, TRUE)

\* updateMany: with all, also those that are not on the page.
MarkWrite(c) ==
  /\ clicks[c].pc = "sent"
  /\ unread' = IF clicks[c].all THEN {} ELSE unread \ clicks[c].ids
  /\ clicks' = [clicks EXCEPT ![c].pc = "written"]
  /\ UNCHANGED <<enabled, written, making, shown, poll>>

MarkDone(c) ==
  /\ clicks[c].pc = "written" /\ clicks' = [clicks EXCEPT ![c] = NoClick]
  /\ UNCHANGED <<enabled, unread, written, making, shown, poll>>

\* onError: what was shown before the click is shown again, even when the rows
\* are marked and only the answer is lost.
MarkFail(c) ==
  /\ clicks[c].pc # "idle" /\ clicks' = [clicks EXCEPT ![c] = NoClick]
  /\ shown' = clicks[c].before
  /\ UNCHANGED <<enabled, unread, written, making, poll>>

----------------------------------------------------------------------------
BellInit ==
  /\ enabled \in BOOLEAN /\ unread = {} /\ written = 0 /\ making = {}
  /\ shown = {} /\ poll = NoPoll /\ clicks = [c \in Clicks |-> NoClick]

BellNext ==
  \/ \E c \in Creators : NotifyLook(c) \/ NotifyWrite(c)
  \/ PollStart \/ PollRead \/ PollArrive \/ PollFail
  \/ \E c \in Clicks : \/ MarkAllRead(c) \/ MarkWrite(c) \/ MarkDone(c) \/ MarkFail(c)
                      \/ \E n \in Notices : MarkRead(c, n)

\* refetchInterval goes on while the page is open; polls fail, or are cancelled
\* by a click, again and again, but not for ever.
BellFairness ==
  /\ WF_bell(PollStart) /\ SF_bell(PollRead) /\ SF_bell(PollArrive)

(***************************************************************************)
(* Whatever the bell shows wrongly is put right: lists that a failed call  *)
(* brought back over the answer of a poll, items a poll had read before    *)
(* they were marked, and the empty list of a failed poll give way, time    *)
(* and again, to exactly the unread notices of the server.                 *)
(***************************************************************************)
BellSettles == []<>(shown = listUnread)
=============================================================================
