---------------------------- MODULE Subscription ----------------------------
(***************************************************************************)
(* The paid subscription of the planner: PaymentService of the backend     *)
(* (src/backend/src/modules/payment/payment.service.ts).                   *)
(*                                                                         *)
(* The service keeps no state of its own.  Every HTTP request reads rows   *)
(* of the Subscription and Payment tables, keeps the rows it read across   *)
(* its next await, and writes what it computed from them.  A request is    *)
(* here a record with a program counter; a step is the code from one await *)
(* to the next together with the query that await sends, so the steps of   *)
(* different requests interleave exactly where the code awaits.            *)
(*                                                                         *)
(* The payment gateway (Toss) and the webhooks it sends are outside src/:  *)
(* they are modelled from the way the service calls them.                  *)
(***************************************************************************)
EXTENDS Integers, FiniteSets

CONSTANTS
    Users,      \* accounts
    Orders,     \* order ids the service may hand out
    Keys,       \* payment keys issued by the gateway
    Requests,   \* HTTP requests that may be in flight at the same time
    None,       \* SQL NULL in a reference column, an unused field of a request
    Window,     \* SUBSCRIPTION_WINDOW_MS, in ticks
    Grace,      \* GRACE_PERIOD_MS, in ticks
    Patience,   \* a request lives for at most this many ticks
    MaxTime,    \* bound of the clock
    Events,     \* kinds of webhook events the service is registered for
    MockMode    \* no gateway secret outside production: every call approves

ASSUME NoneAssumption == None \notin Users \union Orders \union Keys
ASSUME TimeAssumption ==
    /\ Window \in Nat \ {0}
    /\ Grace \in Nat \ {0}
    /\ Patience \in Nat
    /\ MaxTime \in Nat
ASSUME ModeAssumption == MockMode \in BOOLEAN
ASSUME OrdersAssumption == IsFiniteSet(Orders)

ASSUME EventsAssumption == Events \subseteq {"CANCELED", "FAILED"}

VARIABLES
    now,        \* the clock of the server, in ticks
    sub,        \* the Subscription row of each user
    pay,        \* the Payment row of each order id
    approved,   \* gateway: the key under which it charged an order, or None
    hooks,      \* gateway: the <<order, kind>> webhook events it has emitted
    req         \* the requests in flight

vars == <<now, sub, pay, approved, hooks, req>>

-----------------------------------------------------------------------------
(* Rows *)

NoDate == -1    \* SQL NULL in a DateTime column

\* "none": the row does not exist yet.
SubStatus == {"none", "inactive", "active", "grace", "expired"}
PayStatus == {"none", "READY", "DONE", "CANCELED", "FAILED"}
HookKind  == {"CANCELED", "FAILED"}

\* cancelledAt is only ever tested for null.
SubRow == [status: SubStatus, periodEnd: Int, graceEnd: Int, cancelled: BOOLEAN]
PayRow == [status: PayStatus, user: Users \union {None}, key: Keys \union {None}]

NewSub == [status |-> "none", periodEnd |-> NoDate, graceEnd |-> NoDate,
           cancelled |-> FALSE]
NewPay == [status |-> "none", user |-> None, key |-> None]

HasAccess(row) == row.status \in {"active", "grace"}

-----------------------------------------------------------------------------
(* Requests *)

PC == {"idle", "sync", "prepare", "confirm", "reload", "commit",
       "cancel", "resubscribe"} \union HookKind

Request == [pc: PC, user: Users \union {None}, order: Orders \union {None},
            key: Keys \union {None}, snap: SubRow, age: Nat]

Idle == [pc |-> "idle", user |-> None, order |-> None, key |-> None,
         snap |-> NewSub, age |-> 0]

\* Request r has run up to its first await and holds the row it read.
Begin(r, pc, u, o, k, row) ==
    /\ req[r].pc = "idle"
    /\ req' = [req EXCEPT ![r] = [pc |-> pc, user |-> u, order |-> o,
                                  key |-> k, snap |-> row, age |-> 0]]

Goto(r, pc) == req' = [req EXCEPT ![r].pc = pc]

\* The handler returned or threw.
End(r) == req' = [req EXCEPT ![r] = Idle]

Init ==
    /\ now = 0
    /\ sub = [u \in Users |-> NewSub]
    /\ pay = [o \in Orders |-> NewPay]
    /\ approved = [o \in Orders |-> None]
    /\ hooks = {}
    /\ req = [r \in Requests |-> Idle]

-----------------------------------------------------------------------------
(* ensureSubscription and syncLifecycle *)

\* The row that the upsert of ensureSubscription returns.
Ensured(row) ==
    IF row.status = "none" THEN [row EXCEPT !.status = "inactive"] ELSE row

\* The period of an active row is over at time t.
Lapsed(row, t) ==
    row.status = "active" /\ row.periodEnd # NoDate /\ row.periodEnd <= t

\* The end of the grace period: a date already in the row is kept.
GraceEndAt(row, t) ==
    IF Lapsed(row, t) /\ row.graceEnd = NoDate THEN t + Grace ELSE row.graceEnd

\* The grace period, entered now or before, is over as well.
GraceOver(row, t) ==
    /\ row.status = "grace" \/ Lapsed(row, t)
    /\ GraceEndAt(row, t) # NoDate
    /\ GraceEndAt(row, t) <= t

\* Mutated form: an expired row past its period is given a grace period too.
SyncedAgain(row, t) ==
    IF row.status \in {"active", "expired"} /\ row.periodEnd <= t
    THEN [row EXCEPT !.status = "grace", !.graceEnd = t + Grace]
    ELSE [row EXCEPT !.status = IF @ = "grace" /\ row.graceEnd <= t THEN "expired" ELSE @]

\* Mutated form: the end of the grace period is not looked at.
SyncedForever(row, t) ==
    [row EXCEPT !.status = IF Lapsed(row, t) THEN "grace" ELSE @,
                !.graceEnd = GraceEndAt(row, t)]

\* The row syncLifecycle computes at time t from the row it was given.
Synced(row, t) ==
    [row EXCEPT !.status = IF GraceOver(row, t) THEN "expired"
                           ELSE IF Lapsed(row, t) THEN "grace" ELSE @,
                !.graceEnd = GraceEndAt(row, t)]

\* getStatus: the upsert.
StatusRead(r, u) ==
    /\ sub' = [sub EXCEPT ![u] = Ensured(sub[u])]
    /\ Begin(r, "sync", u, None, None, Ensured(sub[u]))
    /\ UNCHANGED <<now, pay, approved, hooks>>

\* syncLifecycle: the row is updated by its id, only when the row computed
\* differs from the row read; the row may have changed since it was read.
SyncWrite(r) ==
    LET u    == req[r].user
        next == Synced(req[r].snap, now)
    IN  /\ req[r].pc = "sync"
        /\ sub' = IF next = req[r].snap THEN sub
                  ELSE [sub EXCEPT ![u] = [@ EXCEPT !.status = next.status,
                                                    !.graceEnd = next.graceEnd]]
        /\ End(r)
        /\ UNCHANGED <<now, pay, approved, hooks>>

-----------------------------------------------------------------------------
(* prepare *)

PrepareRead(r, u) ==
    /\ sub' = [sub EXCEPT ![u] = Ensured(sub[u])]
    /\ Begin(r, "prepare", u, None, None, Ensured(sub[u]))
    /\ UNCHANGED <<now, pay, approved, hooks>>

\* createOrderId draws an id no row has (orderId is unique: a clash throws).
PrepareCreate(r, o) ==
    /\ req[r].pc = "prepare"
    /\ pay[o].status = "none"
    /\ pay' = [pay EXCEPT ![o] = [status |-> "READY", user |-> req[r].user, key |-> None]]
    /\ End(r)
    /\ UNCHANGED <<now, sub, approved, hooks>>

-----------------------------------------------------------------------------
(* confirm *)

\* The payment is read with its subscription.  An order of somebody else, an
\* unknown order and a wrong amount are answered with an error and change
\* nothing.
ConfirmRead(r, u, o, k) ==
    /\ pay[o].status # "none"
    /\ pay[o].user = u
    /\ LET again == pay[o].status = "DONE" /\ pay[o].key = k
       IN  Begin(r, IF again THEN "reload" ELSE "confirm", u, o, k, sub[u])
    /\ UNCHANGED <<now, sub, pay, approved, hooks>>

\* The repeated call for a payment already DONE: loadSubscription.
ConfirmReload(r) ==
    /\ req[r].pc = "reload"
    /\ req' = [req EXCEPT ![r].pc = "sync", ![r].snap = sub[req[r].user]]
    /\ UNCHANGED <<now, sub, pay, approved, hooks>>

\* Mutated form: an answer of the gateway that is not ok goes unnoticed.
TossApproveUnchecked(r) ==
    /\ req[r].pc = "confirm"
    /\ Goto(r, "commit")
    /\ UNCHANGED <<now, sub, pay, approved, hooks>>

\* confirmWithToss, approved.  The gateway charges an order once and a payment
\* key belongs to one order; the mock approves whatever it is asked.
TossApprove(r) ==
    LET o == req[r].order
        k == req[r].key
    IN  /\ req[r].pc = "confirm"
        /\ MockMode \/ (approved[o] = None /\ \A p \in Orders : approved[p] # k)
        /\ approved' = [approved EXCEPT ![o] = k]
        /\ Goto(r, "commit")
        /\ UNCHANGED <<now, sub, pay, hooks>>

\* confirmWithToss, not ok: confirm throws.  A declined charge is announced
\* by a webhook, an order that was already charged is refused silently.
TossReject(r) ==
    LET o == req[r].order
    IN  /\ req[r].pc = "confirm"
        /\ ~MockMode
        /\ hooks' = IF approved[o] = None /\ "FAILED" \in Events
                    THEN hooks \union {<<o, "FAILED">>} ELSE hooks
        /\ End(r)
        /\ UNCHANGED <<now, sub, pay, approved>>

\* Mutated form: the grace period is left in the row.
ConfirmCommitKeepGrace(r) ==
    LET o    == req[r].order
        u    == req[r].user
        base == IF req[r].snap.periodEnd > now THEN req[r].snap.periodEnd ELSE now
    IN  /\ req[r].pc = "commit"
        /\ \A p \in Orders \ {o} : pay[p].key # req[r].key
        /\ pay' = [pay EXCEPT ![o] = [@ EXCEPT !.status = "DONE", !.key = req[r].key]]
        /\ sub' = [sub EXCEPT ![u] = [@ EXCEPT !.status = "active",
                                               !.periodEnd = base + Window]]
        /\ End(r)
        /\ UNCHANGED <<now, approved, hooks>>

\* Mutated form: the window is added to the clock and to the old period.
ConfirmCommitTwice(r) ==
    LET o    == req[r].order
        u    == req[r].user
        base == IF req[r].snap.periodEnd > now THEN req[r].snap.periodEnd ELSE now + Window
    IN  /\ req[r].pc = "commit"
        /\ \A p \in Orders \ {o} : pay[p].key # req[r].key
        /\ pay' = [pay EXCEPT ![o] = [@ EXCEPT !.status = "DONE", !.key = req[r].key]]
        /\ sub' = [sub EXCEPT ![u] = [status |-> "active", periodEnd |-> base + Window,
                                      graceEnd |-> NoDate, cancelled |-> FALSE]]
        /\ End(r)
        /\ UNCHANGED <<now, approved, hooks>>

\* The transaction: the payment is DONE and the subscription gets a window
\* after the end of its period, both taken from the rows read BEFORE the call
\* of the gateway.  A payment key of another row breaks a unique index.
ConfirmCommit(r) ==
    LET o    == req[r].order
        u    == req[r].user
        base == IF req[r].snap.periodEnd > now THEN req[r].snap.periodEnd ELSE now
    IN  /\ req[r].pc = "commit"
        /\ \A p \in Orders \ {o} : pay[p].key # req[r].key
        /\ pay' = [pay EXCEPT ![o] = [@ EXCEPT !.status = "DONE", !.key = req[r].key]]
        /\ sub' = [sub EXCEPT ![u] = [status |-> "active", periodEnd |-> base + Window,
                                      graceEnd |-> NoDate, cancelled |-> FALSE]]
        /\ End(r)
        /\ UNCHANGED <<now, approved, hooks>>

-----------------------------------------------------------------------------
(* handleWebhook *)

\* The gateway cancels a charge and announces it.
TossCancel(o) ==
    /\ ~MockMode
    /\ "CANCELED" \in Events
    /\ approved[o] # None
    /\ <<o, "CANCELED">> \notin hooks
    /\ hooks' = hooks \union {<<o, "CANCELED">>}
    /\ UNCHANGED <<now, sub, pay, approved, req>>

\* An event is delivered, at any later time and any number of times.  An
\* unknown order is answered and ignored.
WebhookRead(r, o, kind) ==
    /\ <<o, kind>> \in hooks
    /\ pay[o].status # "none"
    /\ Begin(r, kind, None, o, None, NewSub)
    /\ UNCHANGED <<now, sub, pay, approved, hooks>>

\* The status is overwritten whatever it is; the subscription is left alone.
WebhookWrite(r) ==
    /\ req[r].pc \in HookKind
    /\ pay' = [pay EXCEPT ![req[r].order] = [@ EXCEPT !.status = req[r].pc]]
    /\ End(r)
    /\ UNCHANGED <<now, sub, approved, hooks>>

-----------------------------------------------------------------------------
(* cancelByUser and resubscribeByUser *)

CancelRead(r, u) ==
    /\ HasAccess(sub[u])
    /\ Begin(r, "cancel", u, None, None, sub[u])
    /\ UNCHANGED <<now, sub, pay, approved, hooks>>

CancelWrite(r) ==
    /\ req[r].pc = "cancel"
    /\ sub' = [sub EXCEPT ![req[r].user] = [@ EXCEPT !.cancelled = TRUE]]
    /\ End(r)
    /\ UNCHANGED <<now, pay, approved, hooks>>

ResubscribeRead(r, u) ==
    /\ sub[u].cancelled
    /\ HasAccess(sub[u])
    /\ Begin(r, "resubscribe", u, None, None, sub[u])
    /\ UNCHANGED <<now, sub, pay, approved, hooks>>

ResubscribeWrite(r) ==
    /\ req[r].pc = "resubscribe"
    /\ sub' = [sub EXCEPT ![req[r].user] = [@ EXCEPT !.cancelled = FALSE]]
    /\ End(r)
    /\ UNCHANGED <<now, pay, approved, hooks>>

-----------------------------------------------------------------------------
(* The environment *)

\* A query fails, or the process dies, between two awaits of a request.
Fail(r) ==
    /\ req[r].pc # "idle"
    /\ End(r)
    /\ UNCHANGED <<now, sub, pay, approved, hooks>>

\* Time passes; a request does not outlive Patience ticks.
Tick ==
    /\ now < MaxTime
    /\ \A r \in Requests : req[r].pc # "idle" => req[r].age < Patience
    /\ now' = now + 1
    /\ req' = [r \in Requests |-> IF req[r].pc = "idle" THEN req[r]
                                  ELSE [req[r] EXCEPT !.age = @ + 1]]
    /\ UNCHANGED <<sub, pay, approved, hooks>>

Next ==
    \/ Tick
    \/ \E o \in Orders : TossCancel(o)
    \/ \E r \in Requests :
        \/ SyncWrite(r) \/ ConfirmReload(r) \/ TossApprove(r) \/ TossReject(r)
        \/ ConfirmCommit(r) \/ WebhookWrite(r) \/ CancelWrite(r)
        \/ ResubscribeWrite(r) \/ Fail(r)
        \/ \E u \in Users : \/ StatusRead(r, u) \/ PrepareRead(r, u)
                            \/ CancelRead(r, u) \/ ResubscribeRead(r, u)
        \/ \E o \in Orders : \/ PrepareCreate(r, o)
                             \/ \E kind \in HookKind : WebhookRead(r, o, kind)
                             \/ \E u \in Users, k \in Keys : ConfirmRead(r, u, o, k)

Spec == Init /\ [][Next]_vars

(***************************************************************************)
(* Fairness for the liveness property: time passes, the owner keeps coming *)
(* back (every page that needs access asks for the status), and a lookup   *)
(* that is retried is not made to fail forever.                            *)
(***************************************************************************)
Polling(u) == \E r \in Requests : StatusRead(r, u)

Answering(u) == \E r \in Requests : req[r].user = u /\ SyncWrite(r)

FairSpec ==
    /\ Spec
    /\ SF_vars(Tick)
    /\ \A u \in Users : SF_vars(Polling(u)) /\ SF_vars(Answering(u))
    /\ \A r \in Requests : WF_vars(Fail(r))

-----------------------------------------------------------------------------
(* Properties *)

\* The fields a request carries at each of its awaits.
Carries(q) ==
    /\ q.pc \in {"sync", "prepare", "confirm", "reload", "commit", "cancel", "resubscribe"}
        => q.user \in Users
    /\ q.pc \in {"confirm", "reload", "commit"} \union HookKind => q.order \in Orders
    /\ q.pc \in {"confirm", "reload", "commit"} => q.key \in Keys

TypeOK ==
    /\ now \in Nat
    /\ sub \in [Users -> SubRow]
    /\ pay \in [Orders -> PayRow]
    /\ approved \in [Orders -> Keys \union {None}]
    /\ hooks \subseteq Orders \X HookKind
    /\ req \in [Requests -> Request]
    /\ \A r \in Requests : Carries(req[r])

RowShape(row) ==
    /\ row.status \in {"none", "inactive"} <=> row.periodEnd = NoDate
    /\ row.status \in {"none", "inactive", "active"} <=> row.graceEnd = NoDate
    /\ row.status = "expired" => row.graceEnd <= now
    /\ row.cancelled => row.periodEnd # NoDate

(***************************************************************************)
(* Whatever the order of the stale writes of syncLifecycle, confirm,       *)
(* cancelByUser and resubscribeByUser, a subscription row is one that the  *)
(* lifecycle knows: a period exactly when something was bought, an end of  *)
(* grace exactly in grace and after it, expired only after that end, and a *)
(* cancellation only of something bought.                                  *)
(***************************************************************************)
LifecycleShape == \A u \in Users : RowShape(sub[u])

\* The orders of user u that have earned a window.
Credited(u) == {o \in Orders : pay[o].user = u /\ pay[o].key # None}

\* The orders of user u the gateway has charged.
Charged(u) == {o \in Orders : pay[o].user = u /\ approved[o] # None}

(***************************************************************************)
(* confirm never gives away time: however confirms, retries, webhooks and  *)
(* crashes interleave, the period reaches at most one window per charged   *)
(* order beyond the present.                                               *)
(***************************************************************************)
PaidTimeBounded ==
    \A u \in Users : sub[u].periodEnd <= now + Window * Cardinality(Charged(u))

(***************************************************************************)
(* The payment table agrees with the gateway: a key is recorded only for   *)
(* the order it was charged for, and nobody who has (or had) access got it *)
(* without a charge.                                                       *)
(***************************************************************************)
AccessWasCharged ==
    /\ \A o \in Orders : pay[o].key # None => approved[o] = pay[o].key
    /\ \A u \in Users : sub[u].status \in {"active", "grace", "expired"} => Charged(u) # {}

(***************************************************************************)
(* One grace period per purchase: once a period and the grace after it are *)
(* over and syncLifecycle has written expired, only a confirmed payment    *)
(* brings the subscription back.  A slow status request that read the row  *)
(* before it expired must not restart the grace period (requests live less *)
(* long than the grace period and the window).                             *)
(***************************************************************************)
GraceOnce ==
    [][\A u \in Users :
        (sub[u].status = "expired" /\ sub[u].periodEnd + Grace <= now)
            => sub'[u].status # "grace"]_vars

(***************************************************************************)
(* A lapsed subscription whose owner keeps asking ends up expired, unless  *)
(* it is paid for again or its grace period reaches beyond the clock.      *)
(***************************************************************************)
LapseEnds ==
    \A u \in Users :
        (HasAccess(sub[u]) /\ sub[u].periodEnd <= now)
        ~> \/ sub[u].status = "expired"
           \/ sub[u].periodEnd > now
           \/ sub[u].graceEnd > MaxTime

(***************************************************************************)
(* What the cancellation dialog says (frontend/src/app/subscribe/page.tsx  *)
(* line 270): service until the end of the paid period.                    *)
(***************************************************************************)
PaidPeriodGrantsAccess ==
    \A u \in Users : sub[u].periodEnd > now => HasAccess(sub[u])
=============================================================================
