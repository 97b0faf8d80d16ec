------------------------- MODULE SubscriptionProofs -------------------------
(***************************************************************************)
(* Proofs about Subscription for every set of users, orders, keys and      *)
(* requests and every value of the time constants.                         *)
(***************************************************************************)
EXTENDS Subscription, FiniteSetTheorems, TLAPS

USE NoneAssumption, TimeAssumption, ModeAssumption, OrdersAssumption

-----------------------------------------------------------------------------
(* Types *)

\* The rows and the request the service starts from are well formed.
LEMMA NewRowTypes == NewSub \in SubRow /\ NewPay \in PayRow /\ Idle \in Request
  BY DEF NewSub, NewPay, Idle, SubRow, PayRow, Request, SubStatus, PayStatus, PC, NoDate

\* ensureSubscription returns a subscription row.
LEMMA EnsuredType == ASSUME NEW row \in SubRow PROVE Ensured(row) \in SubRow
  BY DEF Ensured, SubRow, SubStatus

\* syncLifecycle computes a subscription row.
LEMMA SyncedType == ASSUME NEW row \in SubRow, NEW t \in Nat
                    PROVE  Synced(row, t) \in SubRow
<1>1. GraceEndAt(row, t) \in Int
  BY DEF GraceEndAt, SubRow
<1> DEFINE status == IF GraceOver(row, t) THEN "expired"
                     ELSE IF Lapsed(row, t) THEN "grace" ELSE row.status
<1>2. status \in SubStatus
  BY DEF SubRow, SubStatus
<1>3. Synced(row, t) = [row EXCEPT !.status = status, !.graceEnd = GraceEndAt(row, t)]
  BY DEF Synced
<1> HIDE DEF status
<1> QED
  BY <1>1, <1>2, <1>3 DEF SubRow

\* A free request slot carries nothing.
LEMMA IdleCarries == Carries(Idle)
  BY DEF Carries, Idle, HookKind

\* Replacing one request by a well formed one keeps all requests well formed.
LEMMA RequestsType ==
  ASSUME req \in [Requests -> Request], \A p \in Requests : Carries(req[p]),
         NEW r \in Requests, NEW q \in Request, Carries(q),
         req' = [req EXCEPT ![r] = q]
  PROVE  req' \in [Requests -> Request] /\ \A p \in Requests : Carries(req'[p])
  OBVIOUS

\* A handler that returns or throws leaves well formed requests.
LEMMA EndType ==
  ASSUME req \in [Requests -> Request], \A p \in Requests : Carries(req[p]),
         NEW r \in Requests, End(r)
  PROVE  req' \in [Requests -> Request] /\ \A p \in Requests : Carries(req'[p])
  BY NewRowTypes, IdleCarries, RequestsType DEF End

\* A request that begins with the fields its first await needs is well formed.
LEMMA BeginType ==
  ASSUME req \in [Requests -> Request], \A p \in Requests : Carries(req[p]),
         NEW r \in Requests, NEW pc \in PC, NEW u \in Users \union {None},
         NEW o \in Orders \union {None}, NEW k \in Keys \union {None},
         NEW row \in SubRow,
         pc \notin HookKind => u \in Users,
         pc \in {"confirm", "reload"} => o \in Orders /\ k \in Keys,
         pc \in HookKind => o \in Orders,
         pc # "commit",
         Begin(r, pc, u, o, k, row)
  PROVE  req' \in [Requests -> Request] /\ \A p \in Requests : Carries(req'[p])
<1> DEFINE q == [pc |-> pc, user |-> u, order |-> o, key |-> k, snap |-> row, age |-> 0]
<1>1. q \in Request /\ Carries(q)
  BY DEF Request, Carries, HookKind
<1>2. req' = [req EXCEPT ![r] = q]
  BY DEF Begin
<1> QED
  BY <1>1, <1>2, RequestsType

\* A request that moves on keeps its fields; they must suffice for its next await.
LEMMA GotoType ==
  ASSUME req \in [Requests -> Request], \A p \in Requests : Carries(req[p]),
         NEW r \in Requests, req[r].pc = "confirm", Goto(r, "commit")
  PROVE  req' \in [Requests -> Request] /\ \A p \in Requests : Carries(req'[p])
<1> DEFINE q == [req[r] EXCEPT !.pc = "commit"]
<1>1. q \in Request /\ Carries(q)
  BY DEF Request, Carries, HookKind, PC
<1>2. req' = [req EXCEPT ![r] = q]
  BY DEF Goto
<1> QED
  BY <1>1, <1>2, RequestsType

\* The empty tables and the idle service are well formed.
LEMMA TypeInit == Init => TypeOK
  BY NewRowTypes, IdleCarries DEF Init, TypeOK

\* Every handler, the gateway and the clock keep the state well formed.
LEMMA TypeStep == TypeOK /\ [Next]_vars => TypeOK'
<1> SUFFICES ASSUME TypeOK, [Next]_vars PROVE TypeOK'
  OBVIOUS
<1> USE DEF TypeOK
<1>1. CASE Tick
  BY <1>1 DEF Tick, Request, Carries
<1>2. ASSUME NEW o \in Orders, TossCancel(o) PROVE TypeOK'
  BY <1>2 DEF TossCancel, HookKind
<1>3. ASSUME NEW r \in Requests, SyncWrite(r) PROVE TypeOK'
  <2>1. Synced(req[r].snap, now) \in SubRow
    BY SyncedType DEF Request
  <2>2. sub' \in [Users -> SubRow]
    BY <1>3, <2>1 DEF SyncWrite, SubRow
  <2> QED
    BY <1>3, <2>2, EndType DEF SyncWrite
<1>4. ASSUME NEW r \in Requests, ConfirmReload(r) PROVE TypeOK'
  <2> DEFINE q == [req[r] EXCEPT !.pc = "sync", !.snap = sub[req[r].user]]
  <2>1. req[r].user \in Users
    BY <1>4 DEF ConfirmReload, Carries
  <2>2. q \in Request /\ Carries(q)
    BY ZenonT(30), <2>1 DEF Request, Carries, PC, HookKind
  <2>3. req' = [req EXCEPT ![r] = q]
    BY <1>4 DEF ConfirmReload
  <2> QED
    BY <1>4, <2>2, <2>3, RequestsType DEF ConfirmReload
<1>5. ASSUME NEW r \in Requests, TossApprove(r) PROVE TypeOK'
  BY <1>5, GotoType DEF TossApprove, Request
<1>6. ASSUME NEW r \in Requests, TossReject(r) PROVE TypeOK'
  <2>1. req[r].order \in Orders
    BY <1>6 DEF TossReject, Carries
  <2> QED
    BY <1>6, <2>1, EndType DEF TossReject, HookKind
<1>7. ASSUME NEW r \in Requests, ConfirmCommit(r) PROVE TypeOK'
  <2>1. req[r].user \in Users /\ req[r].key \in Keys /\ req[r].snap \in SubRow
    BY <1>7 DEF ConfirmCommit, Carries, Request
  <2>2. sub' \in [Users -> SubRow]
    BY <1>7, <2>1 DEF ConfirmCommit, SubRow, SubStatus, NoDate
  <2>3. pay' \in [Orders -> PayRow]
    BY ZenonT(30), <1>7, <2>1 DEF ConfirmCommit, PayRow, PayStatus
  <2> QED
    BY <1>7, <2>2, <2>3, EndType DEF ConfirmCommit
<1>8. ASSUME NEW r \in Requests, WebhookWrite(r) PROVE TypeOK'
  <2>1. pay' \in [Orders -> PayRow]
    BY ZenonT(30), <1>8 DEF WebhookWrite, PayRow, PayStatus, HookKind
  <2> QED
    BY <1>8, <2>1, EndType DEF WebhookWrite
<1>9. ASSUME NEW r \in Requests, CancelWrite(r) PROVE TypeOK'
  <2>1. sub' \in [Users -> SubRow]
    BY ZenonT(30), <1>9 DEF CancelWrite, SubRow
  <2> QED
    BY <1>9, <2>1, EndType DEF CancelWrite
<1>10. ASSUME NEW r \in Requests, ResubscribeWrite(r) PROVE TypeOK'
  <2>1. sub' \in [Users -> SubRow]
    BY <1>10 DEF ResubscribeWrite, SubRow
  <2> QED
    BY <1>10, <2>1, EndType DEF ResubscribeWrite
<1>11. ASSUME NEW r \in Requests, Fail(r) PROVE TypeOK'
  BY <1>11, EndType DEF Fail
<1>12. ASSUME NEW r \in Requests, NEW u \in Users, StatusRead(r, u) PROVE TypeOK'
  BY <1>12, EnsuredType, BeginType DEF StatusRead, PC, HookKind
<1>13. ASSUME NEW r \in Requests, NEW u \in Users, PrepareRead(r, u) PROVE TypeOK'
  BY <1>13, EnsuredType, BeginType DEF PrepareRead, PC, HookKind
<1>14. ASSUME NEW r \in Requests, NEW u \in Users, CancelRead(r, u) PROVE TypeOK'
  BY <1>14, BeginType DEF CancelRead, PC, HookKind
<1>15. ASSUME NEW r \in Requests, NEW u \in Users, ResubscribeRead(r, u) PROVE TypeOK'
  BY <1>15, BeginType DEF ResubscribeRead, PC, HookKind
<1>16. ASSUME NEW r \in Requests, NEW o \in Orders, PrepareCreate(r, o) PROVE TypeOK'
  <2>1. req[r].user \in Users
    BY <1>16 DEF PrepareCreate, Carries
  <2> QED
    BY <1>16, <2>1, EndType DEF PrepareCreate, PayRow, PayStatus
<1>17. ASSUME NEW r \in Requests, NEW o \in Orders, NEW kind \in HookKind,
              WebhookRead(r, o, kind) PROVE TypeOK'
  BY <1>17, NewRowTypes, BeginType DEF WebhookRead, PC, HookKind
<1>18. ASSUME NEW r \in Requests, NEW o \in Orders, NEW u \in Users, NEW k \in Keys,
              ConfirmRead(r, u, o, k) PROVE TypeOK'
  BY <1>18, BeginType DEF ConfirmRead, PC, HookKind
<1>19. CASE UNCHANGED vars
  BY <1>19 DEF vars
<1> QED
  BY <1>1, <1>2, <1>3, <1>4, <1>5, <1>6, <1>7, <1>8, <1>9, <1>10, <1>11, <1>12,
     <1>13, <1>14, <1>15, <1>16, <1>17, <1>18, <1>19 DEF Next

\* Every reachable state is well typed: rows have the columns' types and a
\* request carries the fields its next await needs.
THEOREM TypeCorrect == Spec => []TypeOK
  BY TypeInit, TypeStep, PTL DEF Spec

-----------------------------------------------------------------------------
(* The shape of the lifecycle *)

(***************************************************************************)
(* LifecycleShape is not inductive: syncLifecycle and cancelByUser write   *)
(* what they computed from a row read earlier.  What saves them is that a  *)
(* row never loses its period, so a row that was bought when it was read   *)
(* is still a bought row when the write arrives.                           *)
(***************************************************************************)
SnapshotOK(q) ==
    /\ q.pc = "sync" => /\ RowShape(q.snap)
                        /\ q.snap.periodEnd # NoDate => sub[q.user].periodEnd # NoDate
    /\ q.pc = "cancel" => sub[q.user].periodEnd # NoDate

SnapshotShape == \A r \in Requests : SnapshotOK(req[r])

LifecycleInv == TypeOK /\ LifecycleShape /\ SnapshotShape

\* What syncLifecycle writes, whenever it writes.
LEMMA SyncedShape ==
  ASSUME NEW row \in SubRow, RowShape(row), now \in Nat, Synced(row, now) # row
  PROVE  /\ row.periodEnd # NoDate
         /\ Synced(row, now).status \in {"grace", "expired"}
         /\ Synced(row, now).graceEnd # NoDate
         /\ Synced(row, now).status = "expired" => Synced(row, now).graceEnd <= now
<1>1. CASE Lapsed(row, now)
  <2>1. GraceEndAt(row, now) = now + Grace
    BY <1>1 DEF Lapsed, GraceEndAt, RowShape
  <2>2. now + Grace \in Nat /\ now + Grace # NoDate
    BY DEF NoDate
  <2>3. Synced(row, now).status \in {"grace", "expired"}
    BY <1>1 DEF Synced, SubRow
  <2>4. Synced(row, now).graceEnd = now + Grace
    BY <2>1 DEF Synced, SubRow
  <2>5. ~GraceOver(row, now)
    BY <2>1 DEF GraceOver
  <2>6. Synced(row, now).status = "grace"
    BY <1>1, <2>5 DEF Synced, SubRow
  <2> QED
    BY <1>1, <2>2, <2>3, <2>4, <2>6 DEF Lapsed
<1>2. CASE ~Lapsed(row, now)
  <2>1. GraceEndAt(row, now) = row.graceEnd
    BY <1>2 DEF GraceEndAt
  <2>2. CASE GraceOver(row, now)
    <3>1. row.status = "grace" /\ row.graceEnd # NoDate /\ row.graceEnd <= now
      BY <1>2, <2>1, <2>2 DEF GraceOver
    <3>2. Synced(row, now).status = "expired" /\ Synced(row, now).graceEnd = row.graceEnd
      BY <2>1, <2>2 DEF Synced, SubRow
    <3> QED
      BY <3>1, <3>2 DEF RowShape
  <2>3. CASE ~GraceOver(row, now)
    <3>1. Synced(row, now) = row
      BY <1>2, <2>1, <2>3 DEF Synced, SubRow
    <3> QED
      BY <3>1
  <2> QED
    BY <2>2, <2>3
<1> QED
  BY <1>1, <1>2

\* ensureSubscription creates a row the lifecycle knows and changes no other.
LEMMA EnsuredShape ==
  ASSUME NEW row \in SubRow, RowShape(row)
  PROVE  RowShape(Ensured(row)) /\ Ensured(row).periodEnd = row.periodEnd
  BY DEF Ensured, RowShape, SubRow

\* A request that ends leaves the other requests' snapshots valid, as long as
\* no row loses its period.
LEMMA EndKeepsSnapshots ==
  ASSUME TypeOK, SnapshotShape, now' = now, NEW r \in Requests, End(r),
         \A u \in Users : sub[u].periodEnd # NoDate => sub'[u].periodEnd # NoDate
  PROVE  SnapshotShape'
<1> SUFFICES ASSUME NEW p \in Requests PROVE SnapshotOK(req[p])'
  BY DEF SnapshotShape
<1>1. CASE p = r
  BY <1>1 DEF TypeOK, End, Idle, SnapshotOK
<1>2. CASE p # r
  <2>1. req'[p] = req[p]
    BY <1>2 DEF TypeOK, End
  <2>2. SnapshotOK(req[p]) /\ Carries(req[p])
    BY DEF SnapshotShape, TypeOK
  <2> QED
    BY <2>1, <2>2 DEF SnapshotOK, RowShape, Carries
<1> QED
  BY <1>1, <1>2

\* A request that begins with the row it has just read.
LEMMA BeginKeepsSnapshots ==
  ASSUME TypeOK, SnapshotShape, now' = now, NEW r \in Requests,
         NEW pc, NEW u, NEW o, NEW k, NEW row, Begin(r, pc, u, o, k, row),
         pc \in {"sync", "cancel"} => /\ u \in Users
                                      /\ RowShape(row)
                                      /\ row.periodEnd = sub'[u].periodEnd,
         pc = "cancel" => row.periodEnd # NoDate,
         \A v \in Users : sub[v].periodEnd # NoDate => sub'[v].periodEnd # NoDate
  PROVE  SnapshotShape'
<1> SUFFICES ASSUME NEW p \in Requests PROVE SnapshotOK(req[p])'
  BY DEF SnapshotShape
<1>1. CASE p = r
  BY <1>1 DEF TypeOK, Begin, SnapshotOK, RowShape
<1>2. CASE p # r
  <2>1. req'[p] = req[p]
    BY <1>2 DEF TypeOK, Begin
  <2>2. SnapshotOK(req[p]) /\ Carries(req[p])
    BY DEF SnapshotShape, TypeOK
  <2> QED
    BY <2>1, <2>2 DEF SnapshotOK, RowShape, Carries
<1> QED
  BY <1>1, <1>2

\* The lifecycle invariant holds of the empty tables.
LEMMA LifecycleInit == Init => LifecycleInv
<1> SUFFICES ASSUME Init PROVE LifecycleInv
  OBVIOUS
<1>1. TypeOK
  BY TypeInit
<1>2. LifecycleShape
  BY DEF Init, LifecycleShape, RowShape, NewSub, NoDate
<1>3. SnapshotShape
  BY DEF Init, SnapshotShape, SnapshotOK, Idle
<1> QED
  BY <1>1, <1>2, <1>3 DEF LifecycleInv

\* Every step keeps the lifecycle invariant, stale writes included.
LEMMA LifecycleStep == LifecycleInv /\ [Next]_vars => LifecycleInv'
<1> SUFFICES ASSUME LifecycleInv, [Next]_vars PROVE LifecycleShape' /\ SnapshotShape'
  BY TypeStep DEF LifecycleInv
<1>t. TypeOK /\ LifecycleShape /\ SnapshotShape
  BY DEF LifecycleInv
<1>now. now \in Nat
  BY <1>t DEF TypeOK
<1>1. CASE Tick
  <2>1. \A row \in SubRow : RowShape(row) => RowShape(row)'
    BY <1>1, <1>now DEF Tick, RowShape, SubRow
  <2>2. LifecycleShape'
    BY <1>1, <1>t, <2>1 DEF Tick, TypeOK, LifecycleShape, RowShape
  <2>3. ASSUME NEW p \in Requests PROVE SnapshotOK(req[p])'
    <3>1. req'[p].pc = req[p].pc /\ req'[p].snap = req[p].snap /\ req'[p].user = req[p].user
      BY <1>1, <1>t DEF Tick, TypeOK, Request
    <3>2. SnapshotOK(req[p]) /\ req[p].snap \in SubRow
      BY <1>t DEF SnapshotShape, TypeOK, Request
    <3> QED
      BY <1>1, <2>1, <3>1, <3>2 DEF Tick, SnapshotOK, RowShape
  <2> QED
    BY <2>2, <2>3 DEF SnapshotShape
<1>2. ASSUME NEW o \in Orders, TossCancel(o) PROVE LifecycleShape' /\ SnapshotShape'
  BY <1>2, <1>t DEF TossCancel, LifecycleShape, SnapshotShape, SnapshotOK, RowShape
<1>3. ASSUME NEW r \in Requests, SyncWrite(r) PROVE LifecycleShape' /\ SnapshotShape'
  <2> DEFINE u == req[r].user
             row == req[r].snap
             next == Synced(row, now)
  <2>1. u \in Users /\ row \in SubRow /\ RowShape(row) /\ sub[u] \in SubRow
        /\ (row.periodEnd # NoDate => sub[u].periodEnd # NoDate)
    BY <1>3, <1>t DEF SyncWrite, SnapshotShape, SnapshotOK, TypeOK, Request, Carries
  <2>2. CASE next = row
    <3>1. sub' = sub /\ now' = now /\ End(r)
      BY <1>3, <2>2 DEF SyncWrite
    <3> QED
      BY <1>t, <3>1, EndKeepsSnapshots DEF LifecycleShape, RowShape
  <2>3. CASE next # row
    <3>1. /\ row.periodEnd # NoDate
          /\ next.status \in {"grace", "expired"}
          /\ next.graceEnd # NoDate
          /\ next.status = "expired" => next.graceEnd <= now
      BY <2>1, <2>3, <1>now, SyncedShape
    <3>2. /\ sub' = [sub EXCEPT ![u] = [@ EXCEPT !.status = next.status,
                                                 !.graceEnd = next.graceEnd]]
          /\ now' = now /\ End(r)
      BY <1>3, <2>3 DEF SyncWrite
    <3> HIDE DEF next
    <3>3. ASSUME NEW v \in Users PROVE RowShape(sub[v])'
      <4>1. CASE v = u
        <5>1. /\ sub'[u].status = next.status /\ sub'[u].graceEnd = next.graceEnd
              /\ sub'[u].periodEnd = sub[u].periodEnd
          BY <3>2, <2>1, <1>t DEF TypeOK, SubRow
        <5> QED
          BY <4>1, <5>1, <3>1, <3>2, <2>1 DEF RowShape
      <4>2. CASE v # u
        BY <4>2, <3>2, <1>t DEF LifecycleShape, RowShape, TypeOK
      <4> QED
        BY <4>1, <4>2
    <3>4. \A v \in Users : sub[v].periodEnd # NoDate => sub'[v].periodEnd # NoDate
      BY <3>2, <2>1, <1>t DEF TypeOK, SubRow
    <3>5. SnapshotShape'
      BY <1>t, <3>2, <3>4, EndKeepsSnapshots
    <3> QED
      BY <3>3, <3>5 DEF LifecycleShape
  <2> QED
    BY <2>2, <2>3
<1>4. ASSUME NEW r \in Requests, ConfirmReload(r) PROVE LifecycleShape' /\ SnapshotShape'
  <2>1. LifecycleShape'
    BY <1>4, <1>t DEF ConfirmReload, LifecycleShape, RowShape
  <2>2. ASSUME NEW p \in Requests PROVE SnapshotOK(req[p])'
    <3>1. CASE p = r
      <4>1. req[r].user \in Users /\ req[r] \in Request
        BY <1>4, <1>t DEF ConfirmReload, TypeOK, Carries
      <4>2. /\ req'[r].pc = "sync" /\ req'[r].snap = sub[req[r].user]
            /\ req'[r].user = req[r].user
        BY <1>4, <1>t, <4>1 DEF ConfirmReload, TypeOK, Request
      <4> QED
        BY <1>4, <1>t, <3>1, <4>1, <4>2 DEF ConfirmReload, SnapshotOK, LifecycleShape, RowShape
    <3>2. CASE p # r
      BY <1>4, <1>t, <3>2 DEF ConfirmReload, TypeOK, SnapshotShape, SnapshotOK, RowShape
    <3> QED
      BY <3>1, <3>2
  <2> QED
    BY <2>1, <2>2 DEF SnapshotShape
<1>5. ASSUME NEW r \in Requests, TossApprove(r) PROVE LifecycleShape' /\ SnapshotShape'
  <2>1. LifecycleShape'
    BY <1>5, <1>t DEF TossApprove, LifecycleShape, RowShape
  <2>2. ASSUME NEW p \in Requests PROVE SnapshotOK(req[p])'
    <3>1. CASE p = r
      BY <1>5, <1>t, <3>1 DEF TossApprove, Goto, TypeOK, Request, SnapshotOK
    <3>2. CASE p # r
      BY <1>5, <1>t, <3>2 DEF TossApprove, Goto, TypeOK, SnapshotShape, SnapshotOK, RowShape
    <3> QED
      BY <3>1, <3>2
  <2> QED
    BY <2>1, <2>2 DEF SnapshotShape
<1>6. ASSUME NEW r \in Requests, TossReject(r) PROVE LifecycleShape' /\ SnapshotShape'
  BY <1>6, <1>t, EndKeepsSnapshots DEF TossReject, LifecycleShape, RowShape
<1>7. ASSUME NEW r \in Requests, ConfirmCommit(r) PROVE LifecycleShape' /\ SnapshotShape'
  <2> DEFINE u == req[r].user
             base == IF req[r].snap.periodEnd > now THEN req[r].snap.periodEnd ELSE now
  <2>1. u \in Users
    BY <1>7, <1>t DEF ConfirmCommit, TypeOK, Carries
  <2>2. base \in Nat /\ base + Window # NoDate
    BY <1>7, <1>t, <1>now DEF TypeOK, Request, SubRow, NoDate
  <2>3. /\ sub' = [sub EXCEPT ![u] = [status |-> "active", periodEnd |-> base + Window,
                                      graceEnd |-> NoDate, cancelled |-> FALSE]]
        /\ now' = now /\ End(r)
    BY <1>7 DEF ConfirmCommit
  <2> HIDE DEF base
  <2>4. LifecycleShape'
    BY <1>t, <2>1, <2>2, <2>3 DEF LifecycleShape, RowShape, TypeOK
  <2>5. \A v \in Users : sub[v].periodEnd # NoDate => sub'[v].periodEnd # NoDate
    BY <1>t, <2>1, <2>2, <2>3 DEF TypeOK
  <2> QED
    BY <1>t, <2>3, <2>4, <2>5, EndKeepsSnapshots
<1>8. ASSUME NEW r \in Requests, WebhookWrite(r) PROVE LifecycleShape' /\ SnapshotShape'
  BY <1>8, <1>t, EndKeepsSnapshots DEF WebhookWrite, LifecycleShape, RowShape
<1>9. ASSUME NEW r \in Requests, CancelWrite(r) PROVE LifecycleShape' /\ SnapshotShape'
  <2>1. req[r].user \in Users /\ sub[req[r].user].periodEnd # NoDate
    BY <1>9, <1>t DEF CancelWrite, TypeOK, Carries, SnapshotShape, SnapshotOK
  <2>2. LifecycleShape'
    BY <1>9, <1>t, <2>1 DEF CancelWrite, LifecycleShape, RowShape, TypeOK, SubRow
  <2>3. \A v \in Users : sub[v].periodEnd # NoDate => sub'[v].periodEnd # NoDate
    BY <1>9, <1>t DEF CancelWrite, TypeOK, SubRow
  <2> QED
    BY <1>9, <1>t, <2>2, <2>3, EndKeepsSnapshots DEF CancelWrite
<1>10. ASSUME NEW r \in Requests, ResubscribeWrite(r) PROVE LifecycleShape' /\ SnapshotShape'
  <2>1. LifecycleShape'
    BY <1>10, <1>t DEF ResubscribeWrite, LifecycleShape, RowShape, TypeOK, SubRow
  <2>2. \A v \in Users : sub[v].periodEnd # NoDate => sub'[v].periodEnd # NoDate
    BY <1>10, <1>t DEF ResubscribeWrite, TypeOK, SubRow
  <2> QED
    BY <1>10, <1>t, <2>1, <2>2, EndKeepsSnapshots DEF ResubscribeWrite
<1>11. ASSUME NEW r \in Requests, Fail(r) PROVE LifecycleShape' /\ SnapshotShape'
  BY <1>11, <1>t, EndKeepsSnapshots DEF Fail, LifecycleShape, RowShape
<1>12. ASSUME NEW r \in Requests, NEW u \in Users, StatusRead(r, u) \/ PrepareRead(r, u)
       PROVE  LifecycleShape' /\ SnapshotShape'
  <2>1. RowShape(Ensured(sub[u])) /\ Ensured(sub[u]).periodEnd = sub[u].periodEnd
    BY <1>t, EnsuredShape DEF TypeOK, LifecycleShape
  <2>2. sub' = [sub EXCEPT ![u] = Ensured(sub[u])] /\ now' = now
    BY <1>12 DEF StatusRead, PrepareRead
  <2>3. LifecycleShape'
    BY <1>t, <2>1, <2>2 DEF TypeOK, LifecycleShape, RowShape
  <2>4. \A v \in Users : sub'[v].periodEnd = sub[v].periodEnd
    BY <1>t, <2>1, <2>2 DEF TypeOK
  <2>5. \/ Begin(r, "sync", u, None, None, Ensured(sub[u]))
        \/ Begin(r, "prepare", u, None, None, Ensured(sub[u]))
    BY <1>12 DEF StatusRead, PrepareRead
  <2> QED
    BY <1>t, <2>1, <2>2, <2>3, <2>4, <2>5, BeginKeepsSnapshots
<1>13. ASSUME NEW r \in Requests, NEW u \in Users, CancelRead(r, u)
       PROVE  LifecycleShape' /\ SnapshotShape'
  <2>1. RowShape(sub[u]) /\ sub[u].periodEnd # NoDate
    BY <1>13, <1>t DEF CancelRead, HasAccess, LifecycleShape, RowShape
  <2> QED
    BY <1>13, <1>t, <2>1, BeginKeepsSnapshots DEF CancelRead, LifecycleShape, RowShape
<1>14. ASSUME NEW r \in Requests, NEW u \in Users, ResubscribeRead(r, u)
       PROVE  LifecycleShape' /\ SnapshotShape'
  BY <1>14, <1>t, BeginKeepsSnapshots DEF ResubscribeRead, LifecycleShape, RowShape
<1>15. ASSUME NEW r \in Requests, NEW o \in Orders, PrepareCreate(r, o)
       PROVE  LifecycleShape' /\ SnapshotShape'
  BY <1>15, <1>t, EndKeepsSnapshots DEF PrepareCreate, LifecycleShape, RowShape
<1>16. ASSUME NEW r \in Requests, NEW o \in Orders, NEW kind \in HookKind,
              WebhookRead(r, o, kind)
       PROVE  LifecycleShape' /\ SnapshotShape'
  BY <1>16, <1>t, BeginKeepsSnapshots DEF WebhookRead, HookKind, LifecycleShape, RowShape
<1>17. ASSUME NEW r \in Requests, NEW o \in Orders, NEW u \in Users, NEW k \in Keys,
              ConfirmRead(r, u, o, k)
       PROVE  LifecycleShape' /\ SnapshotShape'
  BY <1>17, <1>t, BeginKeepsSnapshots DEF ConfirmRead, LifecycleShape, RowShape
<1>18. CASE UNCHANGED vars
  BY <1>18, <1>t DEF vars, LifecycleShape, SnapshotShape, SnapshotOK, RowShape
<1> QED
  BY <1>1, <1>2, <1>3, <1>4, <1>5, <1>6, <1>7, <1>8, <1>9, <1>10, <1>11, <1>12,
     <1>13, <1>14, <1>15, <1>16, <1>17, <1>18 DEF Next

\* Whatever the interleaving of stale writes, every subscription row is one
\* that the lifecycle knows.
THEOREM LifecycleCorrect == Spec => []LifecycleShape
<1>1. LifecycleInv => LifecycleShape
  BY DEF LifecycleInv
<1> QED
  BY <1>1, LifecycleInit, LifecycleStep, PTL DEF Spec

-----------------------------------------------------------------------------
(* Charges and paid time *)

(***************************************************************************)
(* A confirm request extends the period it read before it asked the        *)
(* gateway, so the bound on paid time must hold of the snapshots as well;  *)
(* and between the approval and the transaction the order is charged but   *)
(* not yet credited, by exactly one request.  That the gateway charges an  *)
(* order once (no mock mode) is what keeps two requests from crediting it. *)
(***************************************************************************)
PaidUntilAtMost(date, u) == date <= now + Window * Cardinality(Credited(u))

OrderCharges ==
    \A o \in Orders : /\ pay[o].key # None => approved[o] = pay[o].key
                      /\ pay[o].status = "none" => pay[o].key = None

Periods ==
    \A u \in Users : /\ PaidUntilAtMost(sub[u].periodEnd, u)
                     /\ sub[u].periodEnd # NoDate => Credited(u) # {}

ConfirmOK(q) ==
    /\ q.pc \in {"confirm", "commit"} => /\ pay[q.order].status # "none"
                                         /\ pay[q.order].user = q.user
                                         /\ PaidUntilAtMost(q.snap.periodEnd, q.user)
    /\ q.pc = "commit" => approved[q.order] = q.key /\ pay[q.order].key = None

Confirms == \A r \in Requests : ConfirmOK(req[r])

OneCommit ==
    \A r, p \in Requests : (/\ r # p
                            /\ req[r].pc = "commit"
                            /\ req[p].pc = "commit") => req[r].order # req[p].order

ChargeInv == TypeOK /\ OrderCharges /\ Periods /\ Confirms /\ OneCommit

\* A step that leaves the keys and the owners of existing payments alone.
PaySteady ==
    \A o \in Orders : /\ pay'[o].key = pay[o].key
                      /\ pay[o].status # "none" => /\ pay'[o].status # "none"
                                                   /\ pay'[o].user = pay[o].user

\* A user has finitely many orders.
LEMMA CreditedFinite ==
  ASSUME NEW u
  PROVE  IsFiniteSet(Credited(u)) /\ Cardinality(Credited(u)) \in Nat
<1>1. Credited(u) \subseteq Orders
  BY DEF Credited
<1> QED
  BY <1>1, FS_Subset, FS_CardinalityType

\* A step that leaves owners and keys of orders alone credits nobody.
LEMMA CreditedSame ==
  ASSUME OrderCharges, PaySteady, NEW u PROVE Credited(u)' = Credited(u)
  BY DEF OrderCharges, PaySteady, Credited

\* Rows that are written by a step that credits nothing.
LEMMA SteadyRows ==
  ASSUME TypeOK, OrderCharges, Periods, PaySteady,
         now' \in Nat, now <= now', approved' = approved,
         \A u \in Users : sub'[u].periodEnd = sub[u].periodEnd
  PROVE  /\ OrderCharges' /\ Periods'
         /\ \A u \in Users, date \in Int : PaidUntilAtMost(date, u) => PaidUntilAtMost(date, u)'
<1>1. OrderCharges'
  BY DEF OrderCharges, PaySteady
<1>2. ASSUME NEW u \in Users, NEW date \in Int, PaidUntilAtMost(date, u)
      PROVE  PaidUntilAtMost(date, u)'
  <2>1. Credited(u)' = Credited(u)
    BY CreditedSame
  <2>2. Window * Cardinality(Credited(u)) \in Nat
    BY CreditedFinite
  <2>3. PaidUntilAtMost(date, u)' <=> date <= now' + Window * Cardinality(Credited(u))
    BY <2>1 DEF PaidUntilAtMost
  <2> QED
    BY <1>2, <2>2, <2>3 DEF PaidUntilAtMost, TypeOK
<1>3. Periods'
  <2> SUFFICES ASSUME NEW u \in Users
               PROVE  /\ PaidUntilAtMost(sub[u].periodEnd, u)'
                      /\ sub'[u].periodEnd # NoDate => Credited(u)' # {}
    BY DEF Periods
  <2>1. sub[u].periodEnd \in Int
    BY DEF TypeOK, SubRow
  <2>2. Credited(u)' = Credited(u)
    BY CreditedSame
  <2>3. sub'[u].periodEnd <= now' + Window * Cardinality(Credited(u)')
    BY <1>2, <2>1, <2>2 DEF Periods, PaidUntilAtMost
  <2> QED
    BY <2>2, <2>3 DEF Periods, PaidUntilAtMost
<1> QED
  BY <1>1, <1>2, <1>3

\* A request in flight that a steady step does not touch.
LEMMA SteadyRequest ==
  ASSUME TypeOK, OrderCharges, Periods, PaySteady,
         now' \in Nat, now <= now', approved' = approved,
         \A u \in Users : sub'[u].periodEnd = sub[u].periodEnd,
         NEW p \in Requests, ConfirmOK(req[p]),
         req'[p].pc = req[p].pc, req'[p].order = req[p].order,
         req'[p].user = req[p].user, req'[p].key = req[p].key,
         req'[p].snap = req[p].snap
  PROVE  ConfirmOK(req[p])'
<1>1. Carries(req[p]) /\ req[p].snap.periodEnd \in Int
  BY DEF TypeOK, Request, SubRow
<1>2. \A u \in Users, date \in Int :
        PaidUntilAtMost(date, u) => date <= now' + Window * Cardinality(Credited(u)')
  BY SteadyRows DEF PaidUntilAtMost
<1>3. CASE req[p].pc \in {"confirm", "commit"}
  <2>1. req[p].user \in Users /\ req[p].order \in Orders
    BY <1>1, <1>3 DEF Carries
  <2>2. req[p].snap.periodEnd <= now' + Window * Cardinality(Credited(req[p].user)')
    BY <1>1, <1>2, <1>3, <2>1 DEF ConfirmOK
  <2>3. PaidUntilAtMost(req[p].snap.periodEnd, req[p].user)'
    BY <2>2 DEF PaidUntilAtMost, Credited
  <2> QED
    BY <1>3, <2>1, <2>3 DEF ConfirmOK, PaySteady, PaidUntilAtMost, Credited
<1>4. CASE req[p].pc \notin {"confirm", "commit"}
  BY <1>4 DEF ConfirmOK
<1> QED
  BY <1>3, <1>4

\* A steady step in which request r ends.
LEMMA EndKeepsCharges ==
  ASSUME ChargeInv, PaySteady, now' = now, approved' = approved,
         \A u \in Users : sub'[u].periodEnd = sub[u].periodEnd,
         NEW r \in Requests, End(r)
  PROVE  OrderCharges' /\ Periods' /\ Confirms' /\ OneCommit'
<1> USE DEF ChargeInv
<1>0. now' \in Nat /\ now <= now'
  BY DEF TypeOK
<1>1. OrderCharges' /\ Periods'
  BY <1>0, SteadyRows
<1>2. req'[r].pc = "idle" /\ \A p \in Requests : p # r => req'[p] = req[p]
  BY DEF End, Idle, TypeOK
<1>3. ASSUME NEW p \in Requests PROVE ConfirmOK(req[p])'
  <2>1. CASE p = r
    BY <1>2, <2>1 DEF ConfirmOK
  <2>2. CASE p # r
    <3>1. ConfirmOK(req[p]) /\ req'[p] = req[p]
      BY <1>2, <2>2 DEF Confirms
    <3> QED
      BY <1>0, <3>1, SteadyRequest
  <2> QED
    BY <2>1, <2>2
<1>4. OneCommit'
  BY <1>2 DEF OneCommit
<1> QED
  BY <1>1, <1>3, <1>4 DEF Confirms

\* A steady step in which request r begins, other than a confirm.
LEMMA BeginKeepsCharges ==
  ASSUME ChargeInv, PaySteady, now' = now, approved' = approved,
         \A u \in Users : sub'[u].periodEnd = sub[u].periodEnd,
         NEW r \in Requests, NEW pc, NEW u, NEW o, NEW k, NEW row,
         Begin(r, pc, u, o, k, row), pc # "commit",
         pc = "confirm" => /\ u \in Users /\ o \in Orders /\ row = sub[u]
                           /\ pay[o].status # "none" /\ pay[o].user = u
  PROVE  OrderCharges' /\ Periods' /\ Confirms' /\ OneCommit'
<1> USE DEF ChargeInv
<1>0. now' \in Nat /\ now <= now'
  BY DEF TypeOK
<1>1. OrderCharges' /\ Periods'
  BY <1>0, SteadyRows
<1>2. /\ req'[r].pc = pc /\ req'[r].order = o /\ req'[r].user = u /\ req'[r].snap = row
      /\ \A p \in Requests : p # r => req'[p] = req[p]
  BY DEF Begin, TypeOK
<1>3. ASSUME NEW p \in Requests PROVE ConfirmOK(req[p])'
  <2>1. CASE p = r /\ pc = "confirm"
    <3>1. pay'[o].status # "none" /\ pay'[o].user = u
      BY <2>1 DEF PaySteady
    <3>2. row.periodEnd <= now' + Window * Cardinality(Credited(u)')
      BY <1>1, <2>1 DEF Periods, PaidUntilAtMost
    <3> QED
      BY <1>2, <2>1, <3>1, <3>2 DEF ConfirmOK, PaidUntilAtMost, Credited
  <2>2. CASE p = r /\ pc # "confirm"
    BY <1>2, <2>2 DEF ConfirmOK
  <2>3. CASE p # r
    <3>1. ConfirmOK(req[p]) /\ req'[p] = req[p]
      BY <1>2, <2>3 DEF Confirms
    <3> QED
      BY <1>0, <3>1, SteadyRequest
  <2> QED
    BY <2>1, <2>2, <2>3
<1>4. OneCommit'
  BY <1>2 DEF OneCommit
<1> QED
  BY <1>1, <1>3, <1>4 DEF Confirms

\* The approval of the gateway keeps the charge invariant.
LEMMA ApproveKeepsCharges ==
  ASSUME ChargeInv, MockMode = FALSE, NEW r \in Requests, TossApprove(r)
  PROVE  OrderCharges' /\ Periods' /\ Confirms' /\ OneCommit'
<1> USE DEF ChargeInv
<1> DEFINE o == req[r].order
           k == req[r].key
<1>1. /\ o \in Orders /\ k \in Keys /\ req[r].user \in Users
      /\ req[r] \in Request /\ req[r].pc = "confirm" /\ ConfirmOK(req[r])
  BY DEF TossApprove, TypeOK, Carries, Confirms
<1>2. /\ approved[o] = None
      /\ approved' = [approved EXCEPT ![o] = k]
      /\ UNCHANGED <<now, sub, pay>>
  BY DEF TossApprove
<1>3. /\ req'[r] = [req[r] EXCEPT !.pc = "commit"]
      /\ \A p \in Requests : p # r => req'[p] = req[p]
  BY DEF TossApprove, Goto, TypeOK
<1>4. pay[o].key = None
  BY <1>1, <1>2, NoneAssumption DEF OrderCharges, TypeOK, PayRow
<1>5. \A p \in Requests : req[p].pc = "commit" => req[p].order # o
  <2> SUFFICES ASSUME NEW p \in Requests, req[p].pc = "commit", req[p].order = o
               PROVE  FALSE
    OBVIOUS
  <2>1. approved[o] = req[p].key /\ req[p].key \in Keys
    BY DEF Confirms, ConfirmOK, TypeOK, Carries
  <2> QED
    BY <1>2, <2>1, NoneAssumption
<1>6. OrderCharges'
  BY <1>1, <1>2, <1>4 DEF OrderCharges, TypeOK
<1>7. Periods'
  BY <1>2 DEF Periods, PaidUntilAtMost, Credited
<1>8. ASSUME NEW p \in Requests PROVE ConfirmOK(req[p])'
  <2>1. CASE p = r
    <3>1. /\ req'[r].order = o /\ req'[r].key = k /\ req'[r].snap = req[r].snap
          /\ req'[r].user = req[r].user
      BY <1>1, <1>3 DEF Request
    <3>2. approved'[o] = k
      BY <1>1, <1>2 DEF TypeOK
    <3> QED
      BY <1>1, <1>2, <1>4, <2>1, <3>1, <3>2 DEF ConfirmOK, PaidUntilAtMost, Credited
  <2>2. CASE p # r
    <3>1. req'[p] = req[p] /\ ConfirmOK(req[p])
      BY <1>3, <2>2 DEF Confirms
    <3>2. req[p].pc = "commit" => approved'[req[p].order] = approved[req[p].order]
      BY <1>2, <1>5 DEF TypeOK
    <3> QED
      BY <1>2, <3>1, <3>2 DEF ConfirmOK, PaidUntilAtMost, Credited
  <2> QED
    BY <2>1, <2>2
<1>9. OneCommit'
  <2>1. req'[r].order = o
    BY <1>1, <1>3 DEF Request
  <2> SUFFICES ASSUME NEW p \in Requests, NEW q \in Requests, p # q,
                      req'[p].pc = "commit", req'[q].pc = "commit"
               PROVE  req'[p].order # req'[q].order
    BY DEF OneCommit
  <2>2. CASE p = r
    BY <1>3, <1>5, <2>1, <2>2
  <2>3. CASE q = r
    BY <1>3, <1>5, <2>1, <2>3
  <2>4. CASE p # r /\ q # r
    BY <1>3, <2>4 DEF OneCommit
  <2> QED
    BY <2>2, <2>3, <2>4
<1> QED
  BY <1>6, <1>7, <1>8, <1>9 DEF Confirms

\* The transaction of confirm keeps the charge invariant: one more order, one more window.
LEMMA CommitKeepsCharges ==
  ASSUME ChargeInv, NEW r \in Requests, ConfirmCommit(r)
  PROVE  OrderCharges' /\ Periods' /\ Confirms' /\ OneCommit'
<1> USE DEF ChargeInv
<1>c. req[r].order \in Orders /\ req[r].user \in Users /\ req[r].key \in Keys
  BY DEF ConfirmCommit, TypeOK, Carries
\* Named as constants: a definition would change its value when primed.
<1>o. PICK o \in Orders : o = req[r].order
  BY <1>c
<1>u. PICK u \in Users : u = req[r].user
  BY <1>c
<1>k. PICK k \in Keys : k = req[r].key
  BY <1>c
<1> DEFINE base == IF req[r].snap.periodEnd > now THEN req[r].snap.periodEnd ELSE now
<1>1. /\ o \in Orders /\ k \in Keys /\ u \in Users /\ req[r].snap.periodEnd \in Int
      /\ approved[o] = k /\ pay[o].key = None
      /\ pay[o].status # "none" /\ pay[o].user = u
      /\ PaidUntilAtMost(req[r].snap.periodEnd, u)
  BY <1>o, <1>u, <1>k DEF ConfirmCommit, TypeOK, Confirms, ConfirmOK, Request, SubRow
<1>2. /\ pay' = [pay EXCEPT ![o] = [@ EXCEPT !.status = "DONE", !.key = k]]
      /\ UNCHANGED <<now, approved>>
      /\ End(r)
  BY <1>o, <1>k DEF ConfirmCommit
<1>3. sub' = [sub EXCEPT ![u] = [status |-> "active", periodEnd |-> base + Window,
                                 graceEnd |-> NoDate, cancelled |-> FALSE]]
  BY <1>u DEF ConfirmCommit
<1>4. /\ pay'[o].status = "DONE" /\ pay'[o].key = k /\ pay'[o].user = u
      /\ \A p \in Orders : p # o => pay'[p] = pay[p]
  BY <1>1, <1>2 DEF TypeOK, PayRow
<1>5. /\ req'[r].pc = "idle"
      /\ \A p \in Requests : p # r => req'[p] = req[p]
  BY <1>2 DEF End, Idle, TypeOK
<1>now. now \in Nat
  BY DEF TypeOK
<1>6. o \notin Credited(u) /\ Credited(u)' = Credited(u) \union {o}
  <2>1. k # None
    BY <1>1, NoneAssumption
  <2>2. \A p \in Orders : (pay'[p].user = u /\ pay'[p].key # None)
                            <=> ((pay[p].user = u /\ pay[p].key # None) \/ p = o)
    BY <1>1, <1>4, <2>1
  <2> QED
    BY <1>1, <2>2 DEF Credited
<1>7. Cardinality(Credited(u)') = Cardinality(Credited(u)) + 1
  BY <1>6, CreditedFinite, FS_AddElement
<1>8. ASSUME NEW v \in Users
      PROVE  /\ Cardinality(Credited(v)') \in {Cardinality(Credited(v)),
                                               Cardinality(Credited(v)) + 1}
             /\ v = u => /\ Cardinality(Credited(v)') = Cardinality(Credited(u)')
                         /\ Credited(v)' # {}
             /\ v # u => Credited(v)' = Credited(v)
  <2>1. Credited(v)' = IF v = u THEN Credited(v) \union {o} ELSE Credited(v)
    BY <1>1, <1>4 DEF Credited
  <2>2. v = u => Credited(v) = Credited(u) /\ Credited(v)' = Credited(u)'
    BY <1>6, <2>1
  <2>3. CASE v = u
    BY <1>6, <1>7, <2>2, <2>3
  <2>4. CASE v # u
    BY <2>1, <2>4
  <2> QED
    BY <2>3, <2>4
<1>9. \A v \in Users, date \in Int :
        PaidUntilAtMost(date, v) => date <= now + Window * Cardinality(Credited(v)')
  <2> SUFFICES ASSUME NEW v \in Users, NEW date \in Int, PaidUntilAtMost(date, v)
               PROVE  date <= now + Window * Cardinality(Credited(v)')
    OBVIOUS
  <2> DEFINE n == Cardinality(Credited(v))
             m == Cardinality(Credited(v)')
  <2>1. n \in Nat
    BY CreditedFinite
  <2>2. m = n \/ m = n + 1
    BY <1>8
  <2>3. date <= now + Window * n
    BY DEF PaidUntilAtMost
  <2> SUFFICES date <= now + Window * m
    OBVIOUS
  <2> HIDE DEF n, m
  <2>4. Window * (n + 1) = Window * n + Window /\ Window * n \in Nat
    BY <2>1
  <2> QED
    BY <2>1, <2>2, <2>3, <2>4, <1>now
<1>10. base + Window <= now + Window * Cardinality(Credited(u)')
  <2> DEFINE n == Cardinality(Credited(u))
  <2>1. n \in Nat
    BY CreditedFinite
  <2>2. req[r].snap.periodEnd <= now + Window * n
    BY <1>1 DEF PaidUntilAtMost
  <2> HIDE DEF n
  <2>3. Window * (n + 1) = Window * n + Window /\ Window * n \in Nat
    BY <2>1
  <2>4. base <= now + Window * n
    <3> DEFINE w == Window * n
    <3>1. w \in Nat /\ req[r].snap.periodEnd <= now + w
      BY <2>2, <2>3
    <3> HIDE DEF w
    <3>2. CASE req[r].snap.periodEnd > now
      BY <3>1, <3>2 DEF w
    <3>3. CASE ~(req[r].snap.periodEnd > now)
      <4>1. base = now
        BY <3>3
      <4> QED
        BY <3>1, <4>1, <1>now DEF w
    <3> QED
      BY <3>2, <3>3
  <2>5. base \in Int
    BY <1>1, <1>now
  <2> HIDE DEF base
  <2>6. base + Window <= now + Window * (n + 1)
    BY <2>1, <2>3, <2>4, <2>5, <1>now
  <2> QED
    BY <1>7, <2>6 DEF n
<1>11. OrderCharges'
  BY <1>1, <1>2, <1>4 DEF OrderCharges
<1>12. Periods'
  <2> SUFFICES ASSUME NEW v \in Users
               PROVE  /\ sub'[v].periodEnd <= now + Window * Cardinality(Credited(v)')
                      /\ sub'[v].periodEnd # NoDate => Credited(v)' # {}
    BY <1>2 DEF Periods, PaidUntilAtMost
  <2>1. CASE v = u
    <3>1. sub'[u].periodEnd = base + Window
      BY <1>1, <1>3 DEF TypeOK
    <3> HIDE DEF base
    <3> QED
      BY <1>8, <1>10, <2>1, <3>1
  <2>2. CASE v # u
    <3>1. sub'[v] = sub[v] /\ sub[v].periodEnd \in Int
      BY <1>3, <2>2 DEF TypeOK, SubRow
    <3> QED
      BY <1>8, <2>2, <3>1 DEF Periods, PaidUntilAtMost
  <2> QED
    BY <2>1, <2>2
<1>13. ASSUME NEW p \in Requests PROVE ConfirmOK(req[p])'
  <2>1. CASE p = r
    BY <1>5, <2>1 DEF ConfirmOK
  <2>2. CASE p # r /\ req[p].pc \in {"confirm", "commit"}
    <3>1. /\ req'[p] = req[p] /\ ConfirmOK(req[p]) /\ Carries(req[p])
          /\ req[p].snap.periodEnd \in Int
      BY <1>5, <2>2 DEF Confirms, TypeOK, Request, SubRow
    <3>2. req[p].snap.periodEnd <= now + Window * Cardinality(Credited(req[p].user)')
      BY <1>9, <2>2, <3>1 DEF ConfirmOK, Carries
    <3>3. pay'[req[p].order].status # "none" /\ pay'[req[p].order].user = req[p].user
      BY <1>1, <1>4, <2>2, <3>1 DEF ConfirmOK, Carries
    <3>4. req[p].pc = "commit" => req[p].order # o
      BY <1>o, <2>2 DEF OneCommit, ConfirmCommit
    <3>5. req[p].pc = "commit" => /\ approved'[req[p].order] = req[p].key
                                  /\ pay'[req[p].order].key = None
      BY <1>2, <1>4, <3>1, <3>4 DEF ConfirmOK, Carries
    <3> QED
      BY <1>2, <3>1, <3>2, <3>3, <3>5 DEF ConfirmOK, PaidUntilAtMost, Credited
  <2>3. CASE p # r /\ req[p].pc \notin {"confirm", "commit"}
    BY <1>5, <2>3 DEF ConfirmOK
  <2> QED
    BY <2>1, <2>2, <2>3
<1>14. OneCommit'
  BY <1>5 DEF OneCommit
<1> QED
  BY <1>11, <1>12, <1>13, <1>14 DEF Confirms

\* The charge invariant holds of the empty tables.
LEMMA ChargeInit == Init => ChargeInv
<1> SUFFICES ASSUME Init PROVE ChargeInv
  OBVIOUS
<1>1. TypeOK
  BY TypeInit
<1>2. \A u \in Users : Credited(u) = {}
  BY DEF Init, Credited, NewPay
<1>3. Periods
  <2>1. \A u \in Users : Cardinality(Credited(u)) = 0
    BY <1>2, FS_EmptySet
  <2>2. \A u \in Users : sub[u].periodEnd = NoDate /\ NoDate <= now + Window * 0
    BY DEF Init, NewSub, NoDate
  <2> QED
    BY <2>1, <2>2 DEF Periods, PaidUntilAtMost
<1>4. OrderCharges
  BY DEF Init, OrderCharges, NewPay
<1>5. Confirms /\ OneCommit
  BY DEF Init, Confirms, ConfirmOK, OneCommit, Idle
<1> QED
  BY <1>1, <1>3, <1>4, <1>5 DEF ChargeInv

\* Every step keeps the charge invariant when the gateway is the real one.
LEMMA ChargeStep == MockMode = FALSE /\ ChargeInv /\ [Next]_vars => ChargeInv'
<1> SUFFICES ASSUME MockMode = FALSE, ChargeInv, [Next]_vars
             PROVE  OrderCharges' /\ Periods' /\ Confirms' /\ OneCommit'
  BY TypeStep DEF ChargeInv
<1>t. TypeOK /\ TypeOK'
  BY TypeStep DEF ChargeInv
<1>s. UNCHANGED pay => PaySteady
  BY DEF PaySteady
<1>1. CASE Tick
  <2>1. PaySteady /\ now' \in Nat /\ now <= now' /\ approved' = approved /\ sub' = sub
    BY <1>1, <1>s, <1>t DEF Tick, TypeOK
  <2>2. OrderCharges' /\ Periods'
    BY <2>1, SteadyRows DEF ChargeInv
  <2>3. \A p \in Requests :
          /\ req'[p].pc = req[p].pc /\ req'[p].order = req[p].order
          /\ req'[p].user = req[p].user /\ req'[p].key = req[p].key
          /\ req'[p].snap = req[p].snap
    BY <1>1, <1>t DEF Tick, TypeOK, Request
  <2>4. Confirms'
    BY <2>1, <2>3, SteadyRequest DEF ChargeInv, Confirms
  <2>5. OneCommit'
    BY <2>3 DEF ChargeInv, OneCommit
  <2> QED
    BY <2>2, <2>4, <2>5
<1>2. ASSUME NEW o \in Orders, TossCancel(o)
      PROVE  OrderCharges' /\ Periods' /\ Confirms' /\ OneCommit'
  BY ZenonT(30), <1>2 DEF TossCancel, ChargeInv, OrderCharges, Periods, Confirms, ConfirmOK, OneCommit,
              PaidUntilAtMost, Credited
<1>3. ASSUME NEW r \in Requests, SyncWrite(r)
      PROVE  OrderCharges' /\ Periods' /\ Confirms' /\ OneCommit'
  <2>1. \A u \in Users : sub'[u].periodEnd = sub[u].periodEnd
    BY <1>3, <1>t DEF SyncWrite, TypeOK, SubRow
  <2> QED
    BY <1>3, <1>s, <2>1, EndKeepsCharges DEF SyncWrite
<1>4. ASSUME NEW r \in Requests, ConfirmReload(r)
      PROVE  OrderCharges' /\ Periods' /\ Confirms' /\ OneCommit'
  <2>1. PaySteady /\ now' \in Nat /\ now <= now' /\ approved' = approved /\ sub' = sub
    BY <1>4, <1>s, <1>t DEF ConfirmReload, TypeOK
  <2>2. OrderCharges' /\ Periods'
    BY <2>1, SteadyRows DEF ChargeInv
  <2>3. req'[r].pc = "sync" /\ \A p \in Requests : p # r => req'[p] = req[p]
    BY <1>4, <1>t DEF ConfirmReload, TypeOK, Request
  <2>4. ASSUME NEW p \in Requests PROVE ConfirmOK(req[p])'
    <3>1. CASE p = r
      BY <2>3, <3>1 DEF ConfirmOK
    <3>2. CASE p # r
      BY <2>1, <2>3, <3>2, SteadyRequest DEF ChargeInv, Confirms
    <3> QED
      BY <3>1, <3>2
  <2>5. OneCommit'
    BY <2>3 DEF ChargeInv, OneCommit
  <2> QED
    BY <2>2, <2>4, <2>5 DEF Confirms
<1>5. ASSUME NEW r \in Requests, TossApprove(r)
      PROVE  OrderCharges' /\ Periods' /\ Confirms' /\ OneCommit'
  BY <1>5, ApproveKeepsCharges
<1>6. ASSUME NEW r \in Requests, TossReject(r) \/ Fail(r)
      PROVE  OrderCharges' /\ Periods' /\ Confirms' /\ OneCommit'
  BY <1>6, <1>s, EndKeepsCharges DEF TossReject, Fail
<1>7. ASSUME NEW r \in Requests, ConfirmCommit(r)
      PROVE  OrderCharges' /\ Periods' /\ Confirms' /\ OneCommit'
  BY <1>7, CommitKeepsCharges
<1>8. ASSUME NEW r \in Requests, WebhookWrite(r)
      PROVE  OrderCharges' /\ Periods' /\ Confirms' /\ OneCommit'
  <2>1. PaySteady
    BY <1>8, <1>t DEF WebhookWrite, HookKind, PaySteady, TypeOK, PayRow
  <2> QED
    BY <1>8, <2>1, EndKeepsCharges DEF WebhookWrite
<1>9. ASSUME NEW r \in Requests, CancelWrite(r) \/ ResubscribeWrite(r)
      PROVE  OrderCharges' /\ Periods' /\ Confirms' /\ OneCommit'
  <2>1. \A u \in Users : sub'[u].periodEnd = sub[u].periodEnd
    BY <1>9, <1>t DEF CancelWrite, ResubscribeWrite, TypeOK, SubRow
  <2> QED
    BY <1>9, <1>s, <2>1, EndKeepsCharges DEF CancelWrite, ResubscribeWrite
<1>10. ASSUME NEW r \in Requests, NEW u \in Users, StatusRead(r, u) \/ PrepareRead(r, u)
       PROVE  OrderCharges' /\ Periods' /\ Confirms' /\ OneCommit'
  <2>1. \A v \in Users : sub'[v].periodEnd = sub[v].periodEnd
    BY <1>10, <1>t DEF StatusRead, PrepareRead, Ensured, TypeOK, SubRow
  <2> QED
    BY <1>10, <1>s, <2>1, BeginKeepsCharges DEF StatusRead, PrepareRead
<1>11. ASSUME NEW r \in Requests, NEW u \in Users, CancelRead(r, u) \/ ResubscribeRead(r, u)
       PROVE  OrderCharges' /\ Periods' /\ Confirms' /\ OneCommit'
  BY <1>11, <1>s, BeginKeepsCharges DEF CancelRead, ResubscribeRead
<1>12. ASSUME NEW r \in Requests, NEW o \in Orders, PrepareCreate(r, o)
       PROVE  OrderCharges' /\ Periods' /\ Confirms' /\ OneCommit'
  <2>1. PaySteady
    BY <1>12, <1>t DEF PrepareCreate, PaySteady, ChargeInv, OrderCharges, TypeOK, PayRow
  <2> QED
    BY <1>12, <2>1, EndKeepsCharges DEF PrepareCreate
<1>13. ASSUME NEW r \in Requests, NEW o \in Orders, NEW kind \in HookKind,
              WebhookRead(r, o, kind)
       PROVE  OrderCharges' /\ Periods' /\ Confirms' /\ OneCommit'
  BY <1>13, <1>s, BeginKeepsCharges DEF WebhookRead, HookKind
<1>14. ASSUME NEW r \in Requests, NEW o \in Orders, NEW u \in Users, NEW k \in Keys,
              ConfirmRead(r, u, o, k)
       PROVE  OrderCharges' /\ Periods' /\ Confirms' /\ OneCommit'
  BY <1>14, <1>s, BeginKeepsCharges DEF ConfirmRead
<1>15. CASE UNCHANGED vars
  BY <1>15 DEF vars, ChargeInv, OrderCharges, Periods, Confirms, ConfirmOK, OneCommit,
               PaidUntilAtMost, Credited
<1> QED
  BY <1>1, <1>2, <1>3, <1>4, <1>5, <1>6, <1>7, <1>8, <1>9, <1>10, <1>11, <1>12, <1>13,
     <1>14, <1>15 DEF Next

\* What earned a window was charged.
LEMMA CreditedAreCharged ==
  ASSUME ChargeInv, NEW u \in Users
  PROVE  /\ Credited(u) \subseteq Charged(u)
         /\ Cardinality(Credited(u)) <= Cardinality(Charged(u))
         /\ Cardinality(Charged(u)) \in Nat /\ Cardinality(Credited(u)) \in Nat
<1>1. Credited(u) \subseteq Charged(u)
  BY NoneAssumption DEF ChargeInv, OrderCharges, Credited, Charged
<1>2. IsFiniteSet(Charged(u))
  <2>1. Charged(u) \subseteq Orders
    BY DEF Charged
  <2> QED
    BY <2>1, FS_Subset
<1> QED
  BY <1>1, <1>2, FS_Subset, FS_CardinalityType

\* With the real gateway, confirm never gives away time: one window per
\* charged order at most, however requests, webhooks and crashes interleave.
THEOREM PaidTimeCorrect ==
  ASSUME MockMode = FALSE PROVE Spec => []PaidTimeBounded
<1>1. ChargeInv => PaidTimeBounded
  <2> SUFFICES ASSUME ChargeInv, NEW u \in Users
               PROVE  sub[u].periodEnd <= now + Window * Cardinality(Charged(u))
    BY DEF PaidTimeBounded
  <2> DEFINE n == Cardinality(Credited(u))
             m == Cardinality(Charged(u))
  <2>1. n \in Nat /\ m \in Nat /\ n <= m
    BY CreditedAreCharged
  <2>2. sub[u].periodEnd <= now + Window * n
    BY DEF ChargeInv, Periods, PaidUntilAtMost
  <2>3. now \in Nat /\ sub[u].periodEnd \in Int
    BY DEF ChargeInv, TypeOK, SubRow
  <2> HIDE DEF n, m
  <2>4. Window * n <= Window * m /\ Window * n \in Nat /\ Window * m \in Nat
    BY <2>1
  <2>5. sub[u].periodEnd <= now + Window * m
    BY <2>2, <2>3, <2>4
  <2> QED
    BY <2>5 DEF m
<1>2. ChargeInv /\ [Next]_vars => ChargeInv'
  BY ChargeStep
<1> QED
  BY <1>1, <1>2, ChargeInit, PTL DEF Spec

\* With the real gateway, a payment row records a key only for the order that
\* was charged with it, and whoever has or had access was charged.
THEOREM AccessCorrect ==
  ASSUME MockMode = FALSE PROVE Spec => []AccessWasCharged
<1>1. ChargeInv /\ LifecycleInv => AccessWasCharged
  <2> SUFFICES ASSUME ChargeInv, LifecycleInv PROVE AccessWasCharged
    OBVIOUS
  <2>1. \A o \in Orders : pay[o].key # None => approved[o] = pay[o].key
    BY DEF ChargeInv, OrderCharges
  <2>2. ASSUME NEW u \in Users, sub[u].status \in {"active", "grace", "expired"}
        PROVE  Charged(u) # {}
    <3>1. sub[u].periodEnd # NoDate
      BY <2>2 DEF LifecycleInv, LifecycleShape, RowShape
    <3> QED
      BY <3>1, CreditedAreCharged DEF ChargeInv, Periods
  <2> QED
    BY <2>1, <2>2 DEF AccessWasCharged
<1>2. ChargeInv /\ [Next]_vars => ChargeInv'
  BY ChargeStep
<1> QED
  BY <1>1, <1>2, ChargeInit, LifecycleInit, LifecycleStep, PTL DEF Spec

-----------------------------------------------------------------------------
(* One grace period *)

\* Requests live less long than the grace period and the window.
Brief == Patience < Grace /\ Patience <= Window

\* The instant at which a request came in.
Birth(r) == now - req[r].age

\* syncLifecycle is about to judge a row that had this status when it was read.
Syncs(r, status) == req[r].pc = "sync" /\ req[r].snap.status = status

\* A grace that ends at g, or a period that ends at p, is not over when r writes.
Late(r, g, p) == g >= Birth(r) + Grace \/ p >= Birth(r) + Window - Patience

Ages == \A r \in Requests : req[r].pc # "idle" => req[r].age <= Patience

(***************************************************************************)
(* A request that read an active row and finds it in grace or expired: the *)
(* grace began while the request was under way, or an older request wrote  *)
(* the end of a grace over a row that had been bought meanwhile, whose     *)
(* period has then hardly begun.                                           *)
(***************************************************************************)
RowsLate ==
    \A r \in Requests :
        Syncs(r, "active") /\ sub[req[r].user].status \in {"grace", "expired"}
            => Late(r, sub[req[r].user].graceEnd, sub[req[r].user].periodEnd)

\* The same of what another request has read and is going to write.
ReadLate ==
    \A q, r \in Requests :
        Syncs(q, "grace") /\ Syncs(r, "active") /\ req[q].user = req[r].user
            => Late(r, req[q].snap.graceEnd, sub[req[r].user].periodEnd)

\* A row that was in grace when it was read and is active was bought since.
BoughtSince ==
    \A q \in Requests :
        Syncs(q, "grace") /\ sub[req[q].user].status = "active"
            => sub[req[q].user].periodEnd >= Birth(q) + Window

GraceInv == Ages /\ RowsLate /\ ReadLate /\ BoughtSince

\* A request that goes on as it was, or that syncs nothing.
Same(x) ==
    /\ req'[x].pc = req[x].pc /\ req'[x].user = req[x].user /\ req'[x].snap = req[x].snap
    /\ Birth(x)' = Birth(x)

\* Nothing was bought, and no row entered or ended a grace.
Quiet(u) ==
    /\ sub'[u].status \in {sub[u].status, "inactive"}
    /\ sub'[u].graceEnd = sub[u].graceEnd /\ sub'[u].periodEnd = sub[u].periodEnd

\* What syncLifecycle makes of a row, when it makes anything of it.
LEMMA SyncedFate ==
  ASSUME NEW row \in SubRow, RowShape(row), now \in Nat, Synced(row, now) # row
  PROVE  \/ /\ row.status = "active" /\ row.periodEnd <= now
            /\ Synced(row, now).status = "grace" /\ Synced(row, now).graceEnd = now + Grace
         \/ /\ row.status = "grace"
            /\ Synced(row, now).status = "expired" /\ Synced(row, now).graceEnd = row.graceEnd
<1>1. CASE Lapsed(row, now)
  <2>1. GraceEndAt(row, now) = now + Grace /\ row.status = "active" /\ row.periodEnd <= now
    BY <1>1 DEF Lapsed, GraceEndAt, RowShape
  <2>2. ~GraceOver(row, now)
    BY <2>1 DEF GraceOver
  <2> QED
    BY <1>1, <2>1, <2>2 DEF Synced, SubRow
<1>2. CASE ~Lapsed(row, now)
  <2>1. GraceEndAt(row, now) = row.graceEnd
    BY <1>2 DEF GraceEndAt
  <2>2. CASE GraceOver(row, now)
    <3>1. row.status = "grace"
      BY <1>2, <2>2 DEF GraceOver
    <3> QED
      BY <2>1, <2>2, <3>1 DEF Synced, SubRow
  <2>3. CASE ~GraceOver(row, now)
    <3>1. Synced(row, now) = row
      BY <1>2, <2>1, <2>3 DEF Synced, SubRow
    <3> QED
      BY <3>1
  <2> QED
    BY <2>2, <2>3
<1> QED
  BY <1>1, <1>2

\* Requests come, go on and end, and the rows stay what they are.
LEMMA QuietStep ==
  ASSUME TypeOK, GraceInv, Ages',
         \A x \in Requests : Same(x) \/ req'[x].pc # "sync",
         \A u \in Users : Quiet(u)
  PROVE  GraceInv'
<1>1. ASSUME NEW x \in Requests, req'[x].pc = "sync"
      PROVE  Same(x) /\ req[x].user \in Users /\ Quiet(req[x].user)
  <2>1. Same(x)
    BY <1>1
  <2>2. req[x].user \in Users
    BY <1>1, <2>1 DEF Same, TypeOK, Carries
  <2> QED
    BY <2>1, <2>2
<1>2. RowsLate'
  BY <1>1 DEF GraceInv, RowsLate, Syncs, Late, Same, Quiet
<1>3. ASSUME NEW q \in Requests, NEW r \in Requests, Syncs(q, "grace")', Syncs(r, "active")',
             req'[q].user = req'[r].user
      PROVE  Late(r, req[q].snap.graceEnd, sub[req[r].user].periodEnd)'
  <2>1. /\ Syncs(q, "grace") /\ Syncs(r, "active") /\ req[q].user = req[r].user
        /\ Same(q) /\ Same(r) /\ Quiet(req[r].user)
    BY <1>1, <1>3 DEF Syncs, Same
  <2>2. Late(r, req[q].snap.graceEnd, sub[req[r].user].periodEnd)
    BY <2>1 DEF GraceInv, ReadLate
  <2> QED
    BY <2>1, <2>2 DEF Late, Same, Quiet
<1>4. BoughtSince'
  BY <1>1 DEF GraceInv, BoughtSince, Syncs, Same, Quiet
<1> QED
  BY <1>2, <1>3, <1>4 DEF GraceInv, ReadLate

\* A request reads a row that it will sync.
LEMMA ReadStep ==
  ASSUME TypeOK, GraceInv, Ages', Brief, now' = now, NEW r \in Requests, NEW u \in Users,
         \A x \in Requests \ {r} : req'[x] = req[x],
         req'[r].pc = "sync", req'[r].user = u, req'[r].snap = sub'[u], req'[r].age \in Nat,
         \A v \in Users : Quiet(v)
  PROVE  GraceInv'
<1>1. now \in Nat /\ Birth(r)' \in Int /\ Birth(r)' <= now /\ sub[u] \in SubRow /\ sub[u].periodEnd \in Int
  BY DEF TypeOK, Birth, SubRow
<1>2. ASSUME NEW x \in Requests \ {r}
      PROVE  /\ req'[x] = req[x] /\ Birth(x)' = Birth(x) /\ Birth(x) \in Int
             /\ (req[x].pc = "sync" => req[x].user \in Users /\ Quiet(req[x].user) /\ now - Patience <= Birth(x))
  <2>1. req[x] \in Request /\ (req[x].pc = "sync" => req[x].user \in Users)
    BY DEF TypeOK, Carries
  <2>2. req[x].age \in Nat /\ (req[x].pc = "sync" => req[x].age <= Patience)
    BY <2>1 DEF Request, GraceInv, Ages
  <2> QED
    BY <1>1, <2>1, <2>2 DEF Birth
<1>3. ASSUME NEW x \in Requests, Syncs(x, "active")',
             sub'[req'[x].user].status \in {"grace", "expired"}
      PROVE  Late(x, sub[req[x].user].graceEnd, sub[req[x].user].periodEnd)'
  <2>1. x # r
    BY <1>3 DEF Syncs
  <2>2. Late(x, sub[req[x].user].graceEnd, sub[req[x].user].periodEnd)
    BY <1>2, <1>3, <2>1 DEF GraceInv, RowsLate, Syncs, Quiet
  <2> QED
    BY <1>2, <1>3, <2>1, <2>2 DEF Late, Quiet, Syncs
<1>4. ASSUME NEW q \in Requests, NEW x \in Requests, Syncs(q, "grace")', Syncs(x, "active")',
             req'[q].user = req'[x].user
      PROVE  Late(x, req[q].snap.graceEnd, sub[req[x].user].periodEnd)'
  <2>1. CASE q # r /\ x # r
    <3>1. Late(x, req[q].snap.graceEnd, sub[req[x].user].periodEnd)
      BY <1>2, <1>4, <2>1 DEF GraceInv, ReadLate, Syncs
    <3> QED
      BY <1>2, <1>4, <2>1, <3>1 DEF Late, Quiet, Syncs
  <2>2. CASE q = r
    <3>1. x # r /\ req[x].user = u /\ sub'[u].status = "grace"
      BY <1>2, <1>4, <2>2 DEF Syncs
    <3>2. Late(x, sub[u].graceEnd, sub[u].periodEnd)
      BY <1>2, <1>4, <3>1 DEF GraceInv, RowsLate, Syncs, Quiet
    <3> QED
      BY <1>2, <2>2, <3>1, <3>2 DEF Late, Quiet
  <2>3. CASE x = r
    <3>1. q # r /\ req[q].user = u /\ sub'[u].status = "active"
      BY <1>2, <1>4, <2>3 DEF Syncs
    <3>2. sub[u].periodEnd >= Birth(q) + Window /\ now - Patience <= Birth(q) /\ Birth(q) \in Int
      BY <1>2, <1>4, <3>1 DEF GraceInv, BoughtSince, Syncs, Quiet
    <3>3. sub[u].periodEnd >= Birth(r)' + Window - Patience
      BY <1>1, <3>2
    <3> QED
      BY <2>3, <3>3 DEF Late, Quiet
  <2> QED
    BY <2>1, <2>2, <2>3
<1>5. ASSUME NEW q \in Requests, Syncs(q, "grace")', sub'[req'[q].user].status = "active"
      PROVE  (sub[req[q].user].periodEnd >= Birth(q) + Window)'
  <2>1. q # r
    BY <1>5 DEF Syncs
  <2> QED
    BY <1>2, <1>5, <2>1 DEF GraceInv, BoughtSince, Syncs, Quiet
<1> QED
  BY <1>3, <1>4, <1>5 DEF GraceInv, RowsLate, ReadLate, BoughtSince

\* A period is bought: it ends a window from now at the earliest.
LEMMA BuyStep ==
  ASSUME TypeOK, GraceInv, Ages', Brief, now' = now, NEW r \in Requests, NEW u \in Users,
         \A x \in Requests : req'[x] = req[x] \/ req'[x].pc # "sync",
         sub'[u].status = "active", sub'[u].periodEnd \in Int, sub'[u].periodEnd >= now + Window,
         \A v \in Users \ {u} : sub'[v] = sub[v]
  PROVE  GraceInv'
<1>1. ASSUME NEW x \in Requests, req'[x].pc = "sync"
      PROVE  /\ req'[x] = req[x] /\ req[x].user \in Users /\ Birth(x)' = Birth(x) /\ Birth(x) \in Int
             /\ now >= Birth(x)
  <2>1. req'[x] = req[x]
    BY <1>1
  <2>2. req[x] \in Request /\ req[x].user \in Users /\ now \in Nat
    BY <1>1, <2>1 DEF TypeOK, Carries
  <2> QED
    BY <2>1, <2>2 DEF Birth, Request
<1>2. now \in Nat
  BY DEF TypeOK
<1>3. ASSUME NEW x \in Requests, Syncs(x, "active")',
             sub'[req'[x].user].status \in {"grace", "expired"}
      PROVE  Late(x, sub[req[x].user].graceEnd, sub[req[x].user].periodEnd)'
  <2>1. req'[x] = req[x] /\ req[x].user \in Users \ {u} /\ Birth(x)' = Birth(x)
    BY <1>1, <1>3 DEF Syncs
  <2>2. Late(x, sub[req[x].user].graceEnd, sub[req[x].user].periodEnd)
    BY <1>3, <2>1 DEF GraceInv, RowsLate, Syncs
  <2> QED
    BY <2>1, <2>2 DEF Late
<1>4. ASSUME NEW q \in Requests, NEW x \in Requests, Syncs(q, "grace")', Syncs(x, "active")',
             req'[q].user = req'[x].user
      PROVE  Late(x, req[q].snap.graceEnd, sub[req[x].user].periodEnd)'
  <2>1. /\ req'[x] = req[x] /\ req[x].user \in Users /\ Birth(x)' = Birth(x) /\ Birth(x) \in Int
        /\ now >= Birth(x) /\ req'[q] = req[q]
    BY <1>1, <1>4 DEF Syncs
  <2>2. CASE req[x].user = u
    <3>1. sub'[u].periodEnd >= Birth(x) + Window - Patience
      BY <1>2, <2>1
    <3> QED
      BY <2>1, <2>2, <3>1 DEF Late
  <2>3. CASE req[x].user # u
    <3>1. Late(x, req[q].snap.graceEnd, sub[req[x].user].periodEnd)
      BY <1>4, <2>1 DEF GraceInv, ReadLate, Syncs
    <3> QED
      BY <2>1, <2>3, <3>1 DEF Late
  <2> QED
    BY <2>2, <2>3
<1>5. ASSUME NEW q \in Requests, Syncs(q, "grace")', sub'[req'[q].user].status = "active"
      PROVE  (sub[req[q].user].periodEnd >= Birth(q) + Window)'
  <2>1. req'[q] = req[q] /\ req[q].user \in Users /\ Birth(q)' = Birth(q) /\ Birth(q) \in Int /\ now >= Birth(q)
    BY <1>1, <1>5 DEF Syncs
  <2>2. CASE req[q].user = u
    BY <1>2, <2>1, <2>2
  <2>3. CASE req[q].user # u
    BY <1>5, <2>1, <2>3 DEF GraceInv, BoughtSince, Syncs
  <2> QED
    BY <2>2, <2>3
<1> QED
  BY <1>3, <1>4, <1>5 DEF GraceInv, RowsLate, ReadLate, BoughtSince

\* syncLifecycle writes what it made of the row it had read.
LEMMA LapseStep ==
  ASSUME TypeOK, GraceInv, Ages', Brief, now' = now, NEW q \in Requests, NEW u \in Users,
         req[q].pc = "sync", req[q].user = u,
         \A x \in Requests : req'[x] = req[x] \/ req'[x].pc # "sync", req'[q].pc # "sync",
         sub'[u].periodEnd = sub[u].periodEnd, sub'[u].status \in {"grace", "expired"},
         sub'[u].graceEnd = now + Grace \/ (Syncs(q, "grace") /\ sub'[u].graceEnd = req[q].snap.graceEnd),
         \A v \in Users \ {u} : sub'[v] = sub[v]
  PROVE  GraceInv'
<1>1. ASSUME NEW x \in Requests, req'[x].pc = "sync"
      PROVE  /\ req'[x] = req[x] /\ req[x].user \in Users /\ Birth(x)' = Birth(x) /\ Birth(x) \in Int
             /\ now >= Birth(x)
  <2>1. req'[x] = req[x]
    BY <1>1
  <2>2. req[x] \in Request /\ req[x].user \in Users /\ now \in Nat
    BY <1>1, <2>1 DEF TypeOK, Carries
  <2> QED
    BY <2>1, <2>2 DEF Birth, Request
<1>2. now \in Nat
  BY DEF TypeOK
<1>3. ASSUME NEW x \in Requests, Syncs(x, "active")',
             sub'[req'[x].user].status \in {"grace", "expired"}
      PROVE  Late(x, sub[req[x].user].graceEnd, sub[req[x].user].periodEnd)'
  <2>1. /\ req'[x] = req[x] /\ req[x].user \in Users /\ Birth(x)' = Birth(x) /\ Birth(x) \in Int
        /\ now >= Birth(x)
    BY <1>1, <1>3 DEF Syncs
  <2>2. CASE req[x].user = u /\ sub'[u].graceEnd = now + Grace
    <3>1. sub'[u].graceEnd >= Birth(x) + Grace
      BY <1>2, <2>1, <2>2
    <3> QED
      BY <2>1, <2>2, <3>1 DEF Late
  <2>3. CASE req[x].user = u /\ Syncs(q, "grace") /\ sub'[u].graceEnd = req[q].snap.graceEnd
    <3>1. Late(x, req[q].snap.graceEnd, sub[u].periodEnd)
      BY <1>3, <2>1, <2>3 DEF GraceInv, ReadLate, Syncs
    <3> QED
      BY <2>1, <2>3, <3>1 DEF Late
  <2>4. CASE req[x].user # u
    <3>1. Late(x, sub[req[x].user].graceEnd, sub[req[x].user].periodEnd)
      BY <1>3, <2>1, <2>4 DEF GraceInv, RowsLate, Syncs
    <3> QED
      BY <2>1, <2>4, <3>1 DEF Late
  <2> QED
    BY <2>2, <2>3, <2>4
<1>4. ASSUME NEW p \in Requests, NEW x \in Requests, Syncs(p, "grace")', Syncs(x, "active")',
             req'[p].user = req'[x].user
      PROVE  Late(x, req[p].snap.graceEnd, sub[req[x].user].periodEnd)'
  <2>1. /\ req'[x] = req[x] /\ req[x].user \in Users /\ Birth(x)' = Birth(x) /\ req'[p] = req[p]
    BY <1>1, <1>4 DEF Syncs
  <2>2. Late(x, req[p].snap.graceEnd, sub[req[x].user].periodEnd)
    BY <1>4, <2>1 DEF GraceInv, ReadLate, Syncs
  <2>3. sub'[req[x].user].periodEnd = sub[req[x].user].periodEnd
    BY <2>1
  <2> QED
    BY <2>1, <2>2, <2>3 DEF Late
<1>5. ASSUME NEW p \in Requests, Syncs(p, "grace")', sub'[req'[p].user].status = "active"
      PROVE  (sub[req[p].user].periodEnd >= Birth(p) + Window)'
  <2>1. req'[p] = req[p] /\ req[p].user \in Users \ {u} /\ Birth(p)' = Birth(p)
    BY <1>1, <1>5 DEF Syncs
  <2> QED
    BY <1>5, <2>1 DEF GraceInv, BoughtSince, Syncs
<1> QED
  BY <1>3, <1>4, <1>5 DEF GraceInv, RowsLate, ReadLate, BoughtSince

LEMMA GraceStep == ASSUME LifecycleInv, GraceInv, Brief, [Next]_vars PROVE GraceInv'
<1>1. /\ TypeOK /\ SnapshotShape /\ LifecycleShape /\ now \in Nat /\ Ages
      /\ req \in [Requests -> Request] /\ sub \in [Users -> SubRow]
      /\ \A r \in Requests : req[r] \in Request /\ Carries(req[r]) /\ req[r].age \in Nat
  BY DEF LifecycleInv, GraceInv, TypeOK, Request
<1>2. ASSUME NEW r \in Requests, \A x \in Requests \ {r} : req'[x] = req[x],
             req'[r].pc # "idle" => req'[r].age <= Patience
      PROVE  Ages'
  BY <1>1, <1>2 DEF Ages
<1>3. ASSUME NEW r \in Requests, End(r)
      PROVE  Ages' /\ req'[r].pc # "sync" /\ \A x \in Requests : req'[x] = req[x] \/ req'[x].pc # "sync"
  <2>1. req'[r] = Idle /\ (\A x \in Requests \ {r} : req'[x] = req[x]) /\ Idle.pc = "idle"
    BY <1>1, <1>3 DEF End, Idle
  <2>2. Ages'
    BY <1>2, <2>1
  <2> QED
    BY <2>1, <2>2
<1>4. ASSUME NEW r \in Requests, NEW pc, NEW u, NEW o, NEW k, NEW row, Begin(r, pc, u, o, k, row)
      PROVE  /\ Ages' /\ \A x \in Requests \ {r} : req'[x] = req[x]
             /\ req'[r].pc = pc /\ req'[r].user = u /\ req'[r].snap = row /\ req'[r].age = 0
  <2>1. /\ req'[r] = [pc |-> pc, user |-> u, order |-> o, key |-> k, snap |-> row, age |-> 0]
        /\ \A x \in Requests \ {r} : req'[x] = req[x]
    BY <1>1, <1>4 DEF Begin
  <2>2. Ages'
    BY <1>2, <2>1
  <2> QED
    BY <2>1, <2>2
<1>5. ASSUME now' = now, Ages', \A u \in Users : Quiet(u),
             \A x \in Requests : req'[x] = req[x] \/ req'[x].pc # "sync"
      PROVE  GraceInv'
  <2>1. \A x \in Requests : Same(x) \/ req'[x].pc # "sync"
    BY <1>5 DEF Same, Birth
  <2> QED
    BY <1>1, <1>5, <2>1, QuietStep
<1>6. ASSUME sub' = sub PROVE \A u \in Users : Quiet(u)
  BY <1>6 DEF Quiet
<1>7. ASSUME NEW r \in Requests, NEW pc, NEW u, NEW o, NEW k, NEW row, Begin(r, pc, u, o, k, row),
             pc # "sync", now' = now, \A v \in Users : Quiet(v)
      PROVE  GraceInv'
  <2>1. Ages' /\ req'[r].pc # "sync" /\ \A x \in Requests \ {r} : req'[x] = req[x]
    BY <1>4, <1>7
  <2>2. \A x \in Requests : req'[x] = req[x] \/ req'[x].pc # "sync"
    BY <2>1
  <2> QED
    BY <1>5, <1>7, <2>1, <2>2
<1>8. ASSUME NEW u \in Users, sub' = [sub EXCEPT ![u] = Ensured(sub[u])]
      PROVE  (\A v \in Users : Quiet(v)) /\ sub'[u] = Ensured(sub[u])
  <2>1. sub'[u] = Ensured(sub[u]) /\ \A v \in Users \ {u} : sub'[v] = sub[v]
    BY <1>1, <1>8
  <2>2. Quiet(u)
    BY <1>1, <2>1 DEF Ensured, Quiet, SubRow
  <2>3. \A v \in Users \ {u} : Quiet(v)
    BY <2>1 DEF Quiet
  <2> QED
    BY <2>1, <2>2, <2>3
<1>9. CASE Tick
  <2>1. ASSUME NEW x \in Requests
        PROVE  /\ Same(x) \/ req'[x].pc # "sync"
               /\ req'[x].pc # "idle" => req'[x].age <= Patience
    <3>1. CASE req[x].pc = "idle"
      BY <1>9, <3>1 DEF Tick
    <3>2. CASE req[x].pc # "idle"
      <4>1. req'[x] = [req[x] EXCEPT !.age = req[x].age + 1] /\ req[x].age < Patience /\ now' = now + 1
        BY <1>9, <3>2 DEF Tick
      <4>2. /\ req'[x].pc = req[x].pc /\ req'[x].user = req[x].user /\ req'[x].snap = req[x].snap
            /\ req'[x].age = req[x].age + 1
        BY <1>1, <4>1 DEF Request
      <4>3. now' - req'[x].age = now - req[x].age /\ req'[x].age <= Patience
        BY <1>1, <4>1, <4>2
      <4> QED
        BY <4>2, <4>3 DEF Same, Birth
    <3> QED
      BY <3>1, <3>2
  <2>2. \A u \in Users : Quiet(u)
    BY <1>6, <1>9 DEF Tick
  <2> QED
    BY <1>1, <2>1, <2>2, QuietStep DEF Ages
<1>10. ASSUME NEW r \in Requests, SyncWrite(r) PROVE GraceInv'
  <2> DEFINE u == req[r].user
             row == req[r].snap
             next == Synced(row, now)
  <2>1. /\ u \in Users /\ row \in SubRow /\ RowShape(row) /\ req[r].pc = "sync" /\ now' = now /\ End(r)
    BY <1>1, <1>10 DEF SyncWrite, SnapshotShape, SnapshotOK, Request, Carries
  <2>2. Ages' /\ req'[r].pc # "sync" /\ \A x \in Requests : req'[x] = req[x] \/ req'[x].pc # "sync"
    BY <1>3, <2>1
  <2>3. CASE next = row
    <3>1. sub' = sub
      BY <1>10, <2>3 DEF SyncWrite
    <3> QED
      BY <1>5, <1>6, <2>1, <2>2, <3>1
  <2>4. CASE next # row
    <3>1. /\ next.status \in {"grace", "expired"}
          /\ next.graceEnd = now + Grace \/ (row.status = "grace" /\ next.graceEnd = row.graceEnd)
      BY <1>1, <2>1, <2>4, SyncedFate
    <3>2. sub' = [sub EXCEPT ![u] = [sub[u] EXCEPT !.status = next.status, !.graceEnd = next.graceEnd]]
      BY <1>10, <2>4 DEF SyncWrite
    <3> HIDE DEF next
    <3>3. /\ sub'[u].periodEnd = sub[u].periodEnd /\ sub'[u].status = next.status
          /\ sub'[u].graceEnd = next.graceEnd /\ \A v \in Users \ {u} : sub'[v] = sub[v]
      BY <1>1, <2>1, <3>2 DEF SubRow
    <3>4. sub'[u].graceEnd = now + Grace \/ (Syncs(r, "grace") /\ sub'[u].graceEnd = req[r].snap.graceEnd)
      BY <2>1, <3>1, <3>3 DEF Syncs
    <3>5. sub'[u].status \in {"grace", "expired"}
      BY <3>1, <3>3
    <3> QED
      BY <1>1, <2>1, <2>2, <3>3, <3>4, <3>5, LapseStep
  <2> QED
    BY <2>3, <2>4
<1>11. ASSUME NEW r \in Requests, ConfirmReload(r) PROVE GraceInv'
  <2>1. /\ req'[r] = [req[r] EXCEPT !.pc = "sync", !.snap = sub[req[r].user]]
        /\ (\A x \in Requests \ {r} : req'[x] = req[x]) /\ now' = now /\ sub' = sub
        /\ req[r].user \in Users /\ req[r].age <= Patience
    BY <1>1, <1>11 DEF ConfirmReload, Carries, Ages
  <2>2. /\ req'[r].pc = "sync" /\ req'[r].user = req[r].user /\ req'[r].snap = sub'[req[r].user]
        /\ req'[r].age = req[r].age
    BY <1>1, <2>1 DEF Request
  <2>3. Ages'
    BY <1>2, <2>1, <2>2
  <2>4. \A v \in Users : Quiet(v)
    BY <1>6, <2>1
  <2> QED
    BY <1>1, <2>1, <2>2, <2>3, <2>4, ReadStep
<1>12. ASSUME NEW r \in Requests, NEW u \in Users, StatusRead(r, u) PROVE GraceInv'
  <2>1. /\ sub' = [sub EXCEPT ![u] = Ensured(sub[u])] /\ now' = now
        /\ Begin(r, "sync", u, None, None, Ensured(sub[u]))
    BY <1>12 DEF StatusRead
  <2>2. (\A v \in Users : Quiet(v)) /\ sub'[u] = Ensured(sub[u])
    BY <1>8, <2>1
  <2>3. /\ Ages' /\ \A x \in Requests \ {r} : req'[x] = req[x]
        /\ req'[r].pc = "sync" /\ req'[r].user = u /\ req'[r].snap = Ensured(sub[u]) /\ req'[r].age = 0
    BY <1>4, <2>1
  <2> QED
    BY <1>1, <2>1, <2>2, <2>3, ReadStep
<1>13. ASSUME NEW r \in Requests, NEW u \in Users, PrepareRead(r, u) PROVE GraceInv'
  <2>1. (\A v \in Users : Quiet(v)) /\ now' = now
    BY <1>8, <1>13 DEF PrepareRead
  <2>2. Begin(r, "prepare", u, None, None, Ensured(sub[u]))
    BY <1>13 DEF PrepareRead
  <2> QED
    BY <1>7, <2>1, <2>2
<1>14. ASSUME NEW r \in Requests, ConfirmCommit(r) PROVE GraceInv'
  <2> DEFINE u == req[r].user
             base == IF req[r].snap.periodEnd > now THEN req[r].snap.periodEnd ELSE now
  <2>1. u \in Users /\ now' = now /\ End(r) /\ req[r].snap.periodEnd \in Int
    BY <1>1, <1>14 DEF ConfirmCommit, Carries, Request, SubRow
  <2>2. base \in Int /\ base >= now
    BY <1>1, <2>1
  <2>3. sub' = [sub EXCEPT ![u] = [status |-> "active", periodEnd |-> base + Window,
                                   graceEnd |-> NoDate, cancelled |-> FALSE]]
    BY <1>14 DEF ConfirmCommit
  <2> HIDE DEF base
  <2>4. /\ sub'[u].status = "active" /\ sub'[u].periodEnd = base + Window
        /\ \A v \in Users \ {u} : sub'[v] = sub[v]
    BY <1>1, <2>1, <2>3
  <2>5. sub'[u].periodEnd \in Int /\ sub'[u].periodEnd >= now + Window
    BY <1>1, <2>2, <2>4
  <2>6. Ages' /\ \A x \in Requests : req'[x] = req[x] \/ req'[x].pc # "sync"
    BY <1>3, <2>1
  <2> QED
    BY <1>1, <2>1, <2>4, <2>5, <2>6, BuyStep
<1>15. ASSUME NEW r \in Requests, TossApprove(r) PROVE GraceInv'
  <2>1. /\ req'[r] = [req[r] EXCEPT !.pc = "commit"] /\ (\A x \in Requests \ {r} : req'[x] = req[x])
        /\ now' = now /\ sub' = sub /\ req[r].age <= Patience
    BY <1>1, <1>15 DEF TossApprove, Goto, Ages
  <2>2. req'[r].pc = "commit" /\ req'[r].age = req[r].age
    BY <1>1, <2>1 DEF Request
  <2>3. Ages'
    BY <1>2, <2>1, <2>2
  <2>4. \A x \in Requests : req'[x] = req[x] \/ req'[x].pc # "sync"
    BY <2>1, <2>2
  <2> QED
    BY <1>5, <1>6, <2>1, <2>3, <2>4
<1>16. ASSUME NEW r \in Requests,
              \/ TossReject(r) \/ WebhookWrite(r) \/ Fail(r) \/ \E o \in Orders : PrepareCreate(r, o)
       PROVE  GraceInv'
  <2>1. sub' = sub /\ now' = now /\ End(r)
    BY <1>16 DEF TossReject, WebhookWrite, Fail, PrepareCreate
  <2>2. Ages' /\ \A x \in Requests : req'[x] = req[x] \/ req'[x].pc # "sync"
    BY <1>3, <2>1
  <2> QED
    BY <1>5, <1>6, <2>1, <2>2
<1>17. ASSUME NEW r \in Requests, CancelWrite(r) \/ ResubscribeWrite(r) PROVE GraceInv'
  <2>1. now' = now /\ End(r) /\ req[r].user \in Users
    BY <1>1, <1>17 DEF CancelWrite, ResubscribeWrite, Carries
  <2>2. PICK c \in BOOLEAN : sub' = [sub EXCEPT ![req[r].user] = [sub[req[r].user] EXCEPT !.cancelled = c]]
    BY <1>17 DEF CancelWrite, ResubscribeWrite
  <2>3. \A v \in Users : Quiet(v)
    BY <1>1, <2>1, <2>2 DEF Quiet, SubRow
  <2>4. Ages' /\ \A x \in Requests : req'[x] = req[x] \/ req'[x].pc # "sync"
    BY <1>3, <2>1
  <2> QED
    BY <1>5, <2>1, <2>3, <2>4
<1>18. ASSUME NEW r \in Requests, NEW u \in Users, CancelRead(r, u) \/ ResubscribeRead(r, u) PROVE GraceInv'
  <2>1. sub' = sub /\ now' = now
    BY <1>18 DEF CancelRead, ResubscribeRead
  <2>2. Begin(r, "cancel", u, None, None, sub[u]) \/ Begin(r, "resubscribe", u, None, None, sub[u])
    BY <1>18 DEF CancelRead, ResubscribeRead
  <2> QED
    BY <1>6, <1>7, <2>1, <2>2
<1>19. ASSUME NEW r \in Requests, NEW o \in Orders, NEW kind \in HookKind, WebhookRead(r, o, kind) PROVE GraceInv'
  <2>1. sub' = sub /\ now' = now /\ Begin(r, kind, None, o, None, NewSub) /\ kind # "sync"
    BY <1>19 DEF WebhookRead, HookKind
  <2> QED
    BY <1>6, <1>7, <2>1
<1>20. ASSUME NEW r \in Requests, NEW o \in Orders, NEW u \in Users, NEW k \in Keys, ConfirmRead(r, u, o, k)
       PROVE  GraceInv'
  <2>1. sub' = sub /\ now' = now
    BY <1>20 DEF ConfirmRead
  <2>2. Begin(r, "reload", u, o, k, sub[u]) \/ Begin(r, "confirm", u, o, k, sub[u])
    BY <1>20 DEF ConfirmRead
  <2> QED
    BY <1>6, <1>7, <2>1, <2>2
<1>21. CASE UNCHANGED vars \/ \E o \in Orders : TossCancel(o)
  <2>1. UNCHANGED <<now, sub, req>>
    BY <1>21 DEF vars, TossCancel
  <2>2. Ages'
    BY <1>1, <2>1 DEF Ages
  <2> QED
    BY <1>5, <1>6, <2>1, <2>2
<1> QED
  BY <1>9, <1>10, <1>11, <1>12, <1>13, <1>14, <1>15, <1>16, <1>17, <1>18, <1>19, <1>20, <1>21 DEF Next

(***************************************************************************)
(* One grace period for each purchase: a slow status request that read the *)
(* row before it expired does not start the grace again, since requests    *)
(* live less long than the grace period and the window (syncLifecycle).    *)
(***************************************************************************)
THEOREM GraceCorrect == ASSUME Brief PROVE Spec => GraceOnce
<1>1. Init => GraceInv
  <2>1. Init => \A r \in Requests : req[r].pc = "idle"
    BY DEF Init, Idle
  <2> QED
    BY <2>1 DEF GraceInv, Ages, RowsLate, ReadLate, BoughtSince, Syncs
<1>2. LifecycleInv /\ GraceInv /\ [Next]_vars => GraceInv'
  BY GraceStep
<1>3. ASSUME LifecycleInv, GraceInv, [Next]_vars, NEW u \in Users,
             sub[u].status = "expired", sub[u].periodEnd + Grace <= now, sub'[u].status = "grace"
      PROVE  FALSE
  <2>1. /\ TypeOK /\ SnapshotShape /\ LifecycleShape /\ now \in Nat /\ sub \in [Users -> SubRow]
        /\ sub[u].periodEnd \in Int /\ sub[u].graceEnd <= now /\ sub[u].graceEnd \in Int
        /\ \A r \in Requests : req[r] \in Request /\ Carries(req[r])
    BY <1>3 DEF LifecycleInv, TypeOK, SubRow, LifecycleShape, RowShape
  <2>2. PICK r \in Requests : SyncWrite(r)
    <3>1. \A v \in Users : Ensured(sub[v]).status \in {sub[v].status, "inactive"}
      BY <2>1 DEF Ensured, SubRow
    <3>2. CASE Tick \/ UNCHANGED vars \/ \E o \in Orders : TossCancel(o)
      BY <1>3, <3>2 DEF Tick, TossCancel, vars
    <3>3. ASSUME NEW r \in Requests, NEW v \in Users, StatusRead(r, v) \/ PrepareRead(r, v) PROVE FALSE
      BY <1>3, <2>1, <3>1, <3>3 DEF StatusRead, PrepareRead
    <3>4. ASSUME NEW r \in Requests, ConfirmCommit(r) PROVE FALSE
      BY <1>3, <2>1, <3>4 DEF ConfirmCommit, Carries
    <3>5. ASSUME NEW r \in Requests, CancelWrite(r) \/ ResubscribeWrite(r) PROVE FALSE
      BY <1>3, <2>1, <3>5 DEF CancelWrite, ResubscribeWrite, SubRow
    <3>6. ASSUME NEW r \in Requests,
                 \/ ConfirmReload(r) \/ TossApprove(r) \/ TossReject(r) \/ WebhookWrite(r) \/ Fail(r)
                 \/ \E v \in Users : CancelRead(r, v) \/ ResubscribeRead(r, v)
                 \/ \E o \in Orders : \/ PrepareCreate(r, o)
                                      \/ \E kind \in HookKind : WebhookRead(r, o, kind)
                                      \/ \E v \in Users, k \in Keys : ConfirmRead(r, v, o, k)
          PROVE  FALSE
      BY <1>3, <3>6 DEF ConfirmReload, TossApprove, TossReject, WebhookWrite, Fail, CancelRead, ResubscribeRead,
                        PrepareCreate, WebhookRead, ConfirmRead
    <3> QED
      BY <1>3, <3>2, <3>3, <3>4, <3>5, <3>6 DEF Next
  <2> DEFINE row == req[r].snap
             next == Synced(row, now)
  <2>3. /\ req[r].pc = "sync" /\ req[r].user \in Users /\ row \in SubRow /\ RowShape(row)
        /\ req[r].age \in Nat /\ req[r].age <= Patience
    BY <1>3, <2>1, <2>2 DEF SyncWrite, SnapshotShape, SnapshotOK, Request, Carries, GraceInv, Ages
  <2>4. next # row
    BY <1>3, <2>2 DEF SyncWrite
  <2>5. sub' = [sub EXCEPT ![req[r].user] = [sub[req[r].user] EXCEPT !.status = next.status,
                                                                     !.graceEnd = next.graceEnd]]
    BY <2>2, <2>4 DEF SyncWrite
  <2>6. row.status = "active" \/ next.status = "expired"
    BY <2>1, <2>3, <2>4, SyncedFate
  <2> HIDE DEF next
  <2>7. req[r].user = u /\ next.status = "grace"
    BY <1>3, <2>1, <2>3, <2>5 DEF SubRow
  <2>8. Late(r, sub[u].graceEnd, sub[u].periodEnd)
    BY <1>3, <2>3, <2>6, <2>7 DEF GraceInv, RowsLate, Syncs
  <2>9. CASE sub[u].graceEnd >= Birth(r) + Grace
    BY <2>1, <2>3, <2>9 DEF Birth, Brief
  <2>10. CASE sub[u].periodEnd >= Birth(r) + Window - Patience
    BY <1>3, <2>1, <2>3, <2>10 DEF Birth, Brief
  <2> QED
    BY <2>8, <2>9, <2>10 DEF Late
<1>4. LifecycleInv /\ GraceInv /\ [Next]_vars =>
        [\A u \in Users : (sub[u].status = "expired" /\ sub[u].periodEnd + Grace <= now)
                            => sub'[u].status # "grace"]_vars
  BY <1>3
<1> QED
  BY <1>1, <1>2, <1>4, LifecycleInit, LifecycleStep, PTL DEF Spec, GraceOnce
=============================================================================
