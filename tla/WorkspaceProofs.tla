-------------------------- MODULE WorkspaceProofs --------------------------
(***************************************************************************)
(* Proofs about Workspace for every set of users, workspaces, invitations, *)
(* plans and requests, and every member limit.                             *)
(***************************************************************************)
EXTENDS Workspace, FiniteSetTheorems, TLAPS

USE NoneAssumption, LimitAssumption

-----------------------------------------------------------------------------
(* Types *)

\* The rows and the request the service starts from are well formed.
LEMMA NewRowTypes == NoInvite \in InviteRow /\ NoPlan \in PlanRow /\ Idle \in Request
  BY DEF NoInvite, NoPlan, Idle, InviteRow, PlanRow, Request, InviteStatus, PC

\* A free request slot carries nothing.
LEMMA IdleCarries == Carries(Idle)
  BY DEF Carries, Idle

RequestsOK == req \in [Requests -> Request] /\ \A r \in Requests : Carries(req[r])

\* Replacing one request by a well formed one keeps all requests well formed.
LEMMA RequestsType ==
  ASSUME RequestsOK, NEW r \in Requests, NEW q \in Request, Carries(q),
         req' = [req EXCEPT ![r] = q]
  PROVE  RequestsOK'
  BY DEF RequestsOK

\* A handler that returns or throws leaves well formed requests.
LEMMA EndType == ASSUME RequestsOK, NEW r \in Requests, End(r) PROVE RequestsOK'
  BY NewRowTypes, IdleCarries, RequestsType DEF End

\* A handler that begins does, with the fields its first await needs.
LEMMA BeginType ==
  ASSUME RequestsOK, NEW r \in Requests, NEW q \in Request, Carries(q), Begin(r, q)
  PROVE  RequestsOK'
  BY RequestsType DEF Begin

\* A request that moves on keeps its fields; they must suffice for its next await.
LEMMA GotoType ==
  ASSUME RequestsOK, NEW r \in Requests, NEW pc \in PC, Goto(r, pc),
         Carries([req[r] EXCEPT !.pc = pc])
  PROVE  RequestsOK'
<1>1. [req[r] EXCEPT !.pc = pc] \in Request
  BY DEF RequestsOK, Request
<1> QED
  BY <1>1, RequestsType DEF Goto

MembersOK ==
    /\ paid \in [Users -> BOOLEAN]
    /\ owner \in [Workspaces -> Users \union {None}]
    /\ dissolved \subseteq Workspaces
    /\ member \in [Users -> Workspaces \union {None}]

InviteOK(row) == row \in InviteRow /\ (row.status # "none" => row.ws \in Workspaces /\ row.to \in Users)

InvitesOK == inv \in [Invites -> InviteRow] /\ \A i \in Invites : InviteOK(inv[i])

PlansOK == plan \in [Plans -> PlanRow] /\ copies \in [Workspaces -> [Plans -> [Users -> Nat]]]

TablesOK == MembersOK /\ InvitesOK /\ PlansOK

\* What the handlers write into the rows of the invitations and the plans.
LEMMA RowsWritten ==
  /\ \A row \in InviteRow : InviteOK(row) =>
        /\ row.status # "none" => InviteOK([row EXCEPT !.status = "accepted"])
        /\ InviteOK([row EXCEPT !.expired = TRUE])
  /\ \A row \in PlanRow, w \in Workspaces \union {None} : [row EXCEPT !.ws = w] \in PlanRow
  /\ \A row \in PlanRow : [row EXCEPT !.status = "deleted", !.ws = None] \in PlanRow
<1>1. ASSUME NEW row \in InviteRow, InviteOK(row), row.status # "none"
      PROVE  InviteOK([row EXCEPT !.status = "accepted"])
  BY <1>1 DEF InviteOK, InviteRow, InviteStatus
<1>2. ASSUME NEW row \in InviteRow, InviteOK(row) PROVE InviteOK([row EXCEPT !.expired = TRUE])
  BY <1>2 DEF InviteOK, InviteRow
<1>3. \A row \in PlanRow, w \in Workspaces \union {None} : [row EXCEPT !.ws = w] \in PlanRow
  BY DEF PlanRow
<1>4. \A row \in PlanRow : [row EXCEPT !.status = "deleted", !.ws = None] \in PlanRow
  BY DEF PlanRow
<1> QED
  BY <1>1, <1>2, <1>3, <1>4

\* Replacing one invitation by a well formed one keeps all of them well formed.
LEMMA InviteReplaced ==
  ASSUME InvitesOK, NEW i \in Invites, NEW row, InviteOK(row), inv' = [inv EXCEPT ![i] = row]
  PROVE  InvitesOK'
  BY DEF InvitesOK, InviteOK

\* TypeOK is not inductive: join copies the columns of the invitation it reads,
\* so an invitation that exists must name a workspace and a user.
TypeInv == TablesOK /\ RequestsOK

\* The inductive type invariant implies TypeOK.
LEMMA TypeParts == TypeInv => TypeOK
  BY DEF TypeOK, TypeInv, TablesOK, MembersOK, InvitesOK, PlansOK, RequestsOK

\* The empty tables and the idle service are well formed.
LEMMA TypeInit == Init => TypeInv
<1> SUFFICES ASSUME Init PROVE TypeInv
  OBVIOUS
<1>1. MembersOK
  BY DEF Init, MembersOK
<1>2. InviteOK(NoInvite)
  BY NewRowTypes DEF InviteOK, NoInvite
<1>3. InvitesOK
  BY <1>2 DEF Init, InvitesOK, InviteOK
<1>4. PlansOK
  BY NewRowTypes DEF Init, PlansOK
<1>5. RequestsOK
  BY NewRowTypes, IdleCarries DEF Init, RequestsOK
<1> QED
  BY <1>1, <1>3, <1>4, <1>5 DEF TypeInv, TablesOK

\* A step that only reads keeps the tables well formed.
LEMMA ReadType ==
  ASSUME TablesOK, UNCHANGED <<paid, owner, dissolved, member, inv, plan, copies>>
  PROVE  TablesOK'
  BY DEF TablesOK, MembersOK, InvitesOK, PlansOK

\* Every handler and the environment keep the state well formed.
LEMMA TypeStep == TypeInv /\ [Next]_vars => TypeInv'
<1> SUFFICES ASSUME TablesOK, RequestsOK, [Next]_vars PROVE TablesOK' /\ RequestsOK'
  BY DEF TypeInv
<1>1. ASSUME NEW u \in Users, AccessChanges(u) PROVE TablesOK' /\ RequestsOK'
  BY <1>1 DEF AccessChanges, TablesOK, MembersOK, InvitesOK, PlansOK, RequestsOK
<1>2. ASSUME NEW u \in Users, NEW p \in Plans, NewPersonalPlan(u, p)
      PROVE  TablesOK' /\ RequestsOK'
  BY <1>2 DEF NewPersonalPlan, TablesOK, MembersOK, InvitesOK, PlansOK, RequestsOK, PlanRow
<1>3. ASSUME NEW i \in Invites, ExpireInvite(i) PROVE TablesOK' /\ RequestsOK'
  <2> DEFINE row == [inv[i] EXCEPT !.expired = TRUE]
  <2>1. InviteOK(row)
    BY RowsWritten DEF TablesOK, InvitesOK
  <2>2. inv' = [inv EXCEPT ![i] = row]
    BY <1>3 DEF ExpireInvite
  <2>3. InvitesOK'
    BY <2>1, <2>2, InviteReplaced DEF TablesOK
  <2> QED
    BY <1>3, <2>3 DEF ExpireInvite, TablesOK, MembersOK, PlansOK, RequestsOK
<1>4. ASSUME NEW r \in Requests, CreateCheck(r) PROVE TablesOK' /\ RequestsOK'
  <2>1. /\ Goto(r, "createWrite") /\ req[r].pc = "createCheck"
        /\ UNCHANGED <<paid, owner, dissolved, member, inv, plan, copies>>
    BY <1>4 DEF CreateCheck
  <2>2. Carries([req[r] EXCEPT !.pc = "createWrite"])
    BY <2>1 DEF RequestsOK, Carries, Request
  <2> QED
    BY <2>1, <2>2, ReadType, GotoType DEF PC
<1>5. ASSUME NEW r \in Requests, InviteCheck(r) PROVE TablesOK' /\ RequestsOK'
  <2>1. /\ Goto(r, "inviteWrite") /\ req[r].pc = "inviteCheck"
        /\ UNCHANGED <<paid, owner, dissolved, member, inv, plan, copies>>
    BY <1>5 DEF InviteCheck
  <2>2. Carries([req[r] EXCEPT !.pc = "inviteWrite"])
    BY <2>1 DEF RequestsOK, Carries, Request
  <2> QED
    BY <2>1, <2>2, ReadType, GotoType DEF PC
<1>6. ASSUME NEW r \in Requests, JoinPaid(r) PROVE TablesOK' /\ RequestsOK'
  <2>1. /\ Goto(r, "joinCheck") /\ req[r].pc = "joinPaid"
        /\ UNCHANGED <<paid, owner, dissolved, member, inv, plan, copies>>
    BY <1>6 DEF JoinPaid
  <2>2. Carries([req[r] EXCEPT !.pc = "joinCheck"])
    BY <2>1 DEF RequestsOK, Carries, Request
  <2> QED
    BY <2>1, <2>2, ReadType, GotoType DEF PC
<1>7. ASSUME NEW r \in Requests, JoinCheck(r) PROVE TablesOK' /\ RequestsOK'
  <2>1. /\ Goto(r, "joinWrite") /\ req[r].pc = "joinCheck"
        /\ UNCHANGED <<paid, owner, dissolved, member, inv, plan, copies>>
    BY <1>7 DEF JoinCheck
  <2>2. Carries([req[r] EXCEPT !.pc = "joinWrite"])
    BY <2>1 DEF RequestsOK, Carries, Request
  <2> QED
    BY <2>1, <2>2, ReadType, GotoType DEF PC
<1>8. ASSUME NEW r \in Requests, JoinWrite(r) PROVE TablesOK' /\ RequestsOK'
  <2>1. req[r].ws \in Workspaces /\ req[r].inv \in Invites
    BY <1>8 DEF JoinWrite, RequestsOK, Carries
  <2> DEFINE row == [inv[req[r].inv] EXCEPT !.status = "accepted"]
  <2>2. InviteOK(row)
    BY <1>8, <2>1, RowsWritten DEF JoinWrite, TablesOK, InvitesOK
  <2>3. inv' = [inv EXCEPT ![req[r].inv] = row]
    BY <1>8 DEF JoinWrite
  <2>4. InvitesOK'
    BY <2>1, <2>2, <2>3, InviteReplaced DEF TablesOK
  <2>5. MembersOK' /\ PlansOK'
    BY <1>8, <2>1 DEF JoinWrite, TablesOK, MembersOK, PlansOK
  <2> QED
    BY <1>8, <2>4, <2>5, EndType DEF JoinWrite, TablesOK
<1>9. ASSUME NEW r \in Requests, ShareCheck(r) PROVE TablesOK' /\ RequestsOK'
  <2> DEFINE w == member[req[r].user]
             q == [req[r] EXCEPT !.pc = "shareWrite", !.ws = w]
  <2>1. req[r].user \in Users /\ req[r].plan \in Plans
    BY <1>9 DEF ShareCheck, RequestsOK, Carries
  <2>2. w \in Workspaces
    BY <1>9, <2>1 DEF ShareCheck, TablesOK, MembersOK
  <2>3. req[r] \in Request
    BY DEF RequestsOK
  <2> HIDE DEF w
  <2>4. q \in Request
    BY <2>2, <2>3 DEF Request, PC
  <2>5. Carries(q)
    BY <2>1, <2>2, <2>3 DEF Request, Carries
  <2>6. req' = [req EXCEPT ![r] = q]
    BY <1>9 DEF ShareCheck, RequestsOK, w
  <2> QED
    BY <1>9, <2>4, <2>5, <2>6, RequestsType, ReadType DEF ShareCheck
<1>10. ASSUME NEW r \in Requests, ShareWrite(r) PROVE TablesOK' /\ RequestsOK'
  <2>1. req[r].ws \in Workspaces
    BY <1>10 DEF ShareWrite, RequestsOK, Carries
  <2>2. TablesOK'
    BY <1>10, <2>1, RowsWritten DEF ShareWrite, TablesOK, MembersOK, InvitesOK, PlansOK
  <2> QED
    BY <1>10, <2>2, EndType DEF ShareWrite
<1>11. ASSUME NEW r \in Requests, DeleteWrite(r) PROVE TablesOK' /\ RequestsOK'
  <2>1. TablesOK'
    BY <1>11, RowsWritten DEF DeleteWrite, TablesOK, MembersOK, InvitesOK, PlansOK
  <2> QED
    BY <1>11, <2>1, EndType DEF DeleteWrite
<1>12. ASSUME NEW r \in Requests, DissolvePlans(r) PROVE TablesOK' /\ RequestsOK'
  <2> DEFINE q == [req[r] EXCEPT !.pc = "dissolveWrite",
                                 !.plans = {x \in Plans \X Users :
                                            /\ plan[x[1]].ws = req[r].ws
                                            /\ plan[x[1]].owner = x[2]}]
  <2>1. req[r] \in Request /\ Carries(req[r]) /\ req[r].pc = "dissolvePlans"
    BY <1>12 DEF DissolvePlans, RequestsOK
  <2>2. q \in Request
    BY <2>1 DEF Request, PC
  <2>3. Carries(q)
    BY <2>1 DEF Carries, Request
  <2>4. req' = [req EXCEPT ![r] = q]
    BY <1>12 DEF DissolvePlans, RequestsOK
  <2> QED
    BY <1>12, <2>2, <2>3, <2>4, RequestsType, ReadType DEF DissolvePlans
<1>13. ASSUME NEW r \in Requests, DissolveWrite(r) PROVE TablesOK' /\ RequestsOK'
  <2>1. req[r].ws \in Workspaces
    BY <1>13 DEF DissolveWrite, RequestsOK, Carries
  <2>2. CopiesAfter(req[r]) \in [Workspaces -> [Plans -> [Users -> Nat]]]
    BY <2>1 DEF CopiesAfter, TablesOK, PlansOK
  <2>3. plan' \in [Plans -> PlanRow]
    BY <1>13, RowsWritten DEF DissolveWrite, TablesOK, PlansOK
  <2>4. InvitesOK'
    BY <1>13, NewRowTypes DEF DissolveWrite, TablesOK, InvitesOK, InviteOK, NoInvite
  <2>5. MembersOK'
    BY <1>13, <2>1 DEF DissolveWrite, TablesOK, MembersOK
  <2>6. PlansOK'
    BY <1>13, <2>2, <2>3 DEF DissolveWrite, PlansOK
  <2> QED
    BY <1>13, <2>4, <2>5, <2>6, EndType DEF DissolveWrite, TablesOK
<1>14. ASSUME NEW r \in Requests, Fail(r) PROVE TablesOK' /\ RequestsOK'
  BY <1>14, EndType, ReadType DEF Fail
<1>15. ASSUME NEW r \in Requests, NEW w \in Workspaces, CreateWrite(r, w)
       PROVE  TablesOK' /\ RequestsOK'
  <2>1. req[r].user \in Users
    BY <1>15 DEF CreateWrite, RequestsOK, Carries
  <2>2. TablesOK'
    BY <1>15, <2>1 DEF CreateWrite, TablesOK, MembersOK, InvitesOK, PlansOK
  <2> QED
    BY <1>15, <2>2, EndType DEF CreateWrite
<1>16. ASSUME NEW r \in Requests, NEW i \in Invites, InviteWrite(r, i)
       PROVE  TablesOK' /\ RequestsOK'
  <2>1. req[r].ws \in Workspaces /\ req[r].to \in Users
    BY <1>16 DEF InviteWrite, RequestsOK, Carries
  <2> DEFINE row == [ws |-> req[r].ws, to |-> req[r].to, status |-> "pending", expired |-> FALSE]
  <2>2. InviteOK(row)
    BY <2>1 DEF InviteOK, InviteRow, InviteStatus
  <2>3. inv' = [inv EXCEPT ![i] = row]
    BY <1>16 DEF InviteWrite
  <2>4. InvitesOK'
    BY <2>2, <2>3, InviteReplaced DEF TablesOK
  <2> QED
    BY <1>16, <2>4, EndType DEF InviteWrite, TablesOK, MembersOK, PlansOK
<1>17. ASSUME NEW r \in Requests, NEW p \in Plans, NewPlanWrite(r, p)
       PROVE  TablesOK' /\ RequestsOK'
  <2>1. req[r].ws \in Workspaces /\ req[r].user \in Users
    BY <1>17 DEF NewPlanWrite, RequestsOK, Carries
  <2>2. TablesOK'
    BY <1>17, <2>1 DEF NewPlanWrite, TablesOK, MembersOK, InvitesOK, PlansOK, PlanRow
  <2> QED
    BY <1>17, <2>2, EndType DEF NewPlanWrite
<1>18. ASSUME NEW r \in Requests, NEW u \in Users, CreatePaid(r, u)
       PROVE  TablesOK' /\ RequestsOK'
  <2> DEFINE q == [Idle EXCEPT !.pc = "createCheck", !.user = u]
  <2>1. q \in Request /\ Carries(q)
    BY DEF Idle, Request, Carries, PC
  <2> QED
    BY <1>18, <2>1, BeginType, ReadType DEF CreatePaid
<1>19. ASSUME NEW r \in Requests, NEW u \in Users, NewPlanCheck(r, u)
       PROVE  TablesOK' /\ RequestsOK'
  <2> DEFINE q == [Idle EXCEPT !.pc = "newPlan", !.user = u, !.ws = member[u]]
  <2>1. member[u] \in Workspaces
    BY <1>19 DEF NewPlanCheck, TablesOK, MembersOK
  <2>2. q \in Request /\ Carries(q)
    BY <2>1 DEF Idle, Request, Carries, PC
  <2> QED
    BY <1>19, <2>2, BeginType, ReadType DEF NewPlanCheck
<1>20. ASSUME NEW r \in Requests, NEW u \in Users, NEW i \in Invites, JoinRead(r, u, i)
       PROVE  TablesOK' /\ RequestsOK'
  <2> DEFINE q == [Idle EXCEPT !.pc = "joinPaid", !.user = u, !.inv = i, !.ws = inv[i].ws,
                               !.to = inv[i].to, !.members = Members(inv[i].ws)]
  <2>1. inv[i].ws \in Workspaces /\ inv[i].to \in Users
    BY <1>20 DEF JoinRead, TablesOK, InvitesOK, InviteOK
  <2>2. q \in Request /\ Carries(q)
    BY <2>1 DEF Idle, Request, Carries, PC, Members
  <2> QED
    BY <1>20, <2>2, BeginType, ReadType DEF JoinRead
<1>21. ASSUME NEW r \in Requests, NEW u \in Users, NEW p \in Plans, ShareRead(r, u, p)
       PROVE  TablesOK' /\ RequestsOK'
  <2> DEFINE q == [Idle EXCEPT !.pc = "shareCheck", !.user = u, !.plan = p]
  <2>1. q \in Request /\ Carries(q)
    BY DEF Idle, Request, Carries, PC
  <2> QED
    BY <1>21, <2>1, BeginType, ReadType DEF ShareRead
<1>22. ASSUME NEW r \in Requests, NEW u \in Users, NEW p \in Plans, DeleteRead(r, u, p)
       PROVE  TablesOK' /\ RequestsOK'
  <2> DEFINE q == [Idle EXCEPT !.pc = "deletePlan", !.user = u, !.plan = p]
  <2>1. q \in Request /\ Carries(q)
    BY DEF Idle, Request, Carries, PC
  <2> QED
    BY <1>22, <2>1, BeginType, ReadType DEF DeleteRead
<1>23. ASSUME NEW r \in Requests, NEW u \in Users, NEW w \in Workspaces, DissolveRead(r, u, w)
       PROVE  TablesOK' /\ RequestsOK'
  <2> DEFINE q == [Idle EXCEPT !.pc = "dissolvePlans", !.user = u, !.ws = w,
                               !.members = Members(w)]
  <2>1. q \in Request /\ Carries(q)
    BY DEF Idle, Request, Carries, PC, Members
  <2> QED
    BY <1>23, <2>1, BeginType, ReadType DEF DissolveRead
<1>24. ASSUME NEW r \in Requests, NEW u \in Users, NEW w \in Workspaces, NEW to \in Users,
              InvitePaid(r, u, w, to)
       PROVE  TablesOK' /\ RequestsOK'
  <2> DEFINE q == [Idle EXCEPT !.pc = "inviteCheck", !.user = u, !.ws = w, !.to = to]
  <2>1. q \in Request /\ Carries(q)
    BY DEF Idle, Request, Carries, PC
  <2> QED
    BY <1>24, <2>1, BeginType, ReadType DEF InvitePaid
<1>25. CASE UNCHANGED vars
  BY <1>25, ReadType DEF vars, RequestsOK
<1> QED
  BY <1>1, <1>2, <1>3, <1>4, <1>5, <1>6, <1>7, <1>8, <1>9, <1>10, <1>11, <1>12, <1>13,
     <1>14, <1>15, <1>16, <1>17, <1>18, <1>19, <1>20, <1>21, <1>22, <1>23, <1>24, <1>25
     DEF Next

\* Every reachable state is well typed: rows have the columns' types and a
\* request carries the fields its next await needs.
THEOREM TypeCorrect == Spec => []TypeOK
<1>1. Spec => []TypeInv
  BY TypeInit, TypeStep, PTL DEF Spec
<1> QED
  BY <1>1, TypeParts, PTL

-----------------------------------------------------------------------------
(* Members, owners and invitations *)

(***************************************************************************)
(* Neither property is inductive without what a join in flight relies on:  *)
(* the invitation it read is still there, and still says the same, as long *)
(* as the workspace exists, and an id of a workspace never comes back.     *)
(***************************************************************************)
Joining == {"joinPaid", "joinCheck", "joinWrite"}

JoinOK(q) ==
    /\ q.pc \in Joining => /\ owner[q.ws] # None \/ q.ws \in dissolved
                           /\ owner[q.ws] # None => /\ inv[q.inv].status # "none"
                                                    /\ inv[q.inv].ws = q.ws
                                                    /\ inv[q.inv].to = q.to
    /\ q.pc = "joinWrite" => q.user = q.to

Joins == \A r \in Requests : JoinOK(req[r])

InvitesLive == \A i \in Invites : inv[i].status # "none" => owner[inv[i].ws] # None

MembershipInv == TypeInv /\ OwnersAreMembers /\ InvitesLive /\ Joins /\ InvitesMatchMembers

Rest == OwnersAreMembers /\ InvitesLive /\ Joins /\ InvitesMatchMembers

\* A step that changes no membership and no invitation, and one request at most.
LEMMA QuietStep ==
  ASSUME MembershipInv, UNCHANGED <<owner, dissolved, member, inv>>,
         NEW r \in Requests, NEW q, JoinOK(q), req' = [req EXCEPT ![r] = q]
  PROVE  Rest'
<1>1. OwnersAreMembers' /\ InvitesLive' /\ InvitesMatchMembers'
  BY DEF MembershipInv, OwnersAreMembers, InvitesLive, InvitesMatchMembers
<1>2. ASSUME NEW p \in Requests PROVE JoinOK(req[p])'
  <2>1. JoinOK(req'[p])
    BY DEF MembershipInv, Joins, TypeInv, RequestsOK
  <2> QED
    BY <2>1 DEF JoinOK
<1> QED
  BY <1>1, <1>2 DEF Rest, Joins

\* A request that ends without touching memberships and invitations.
LEMMA QuietEnd ==
  ASSUME MembershipInv, UNCHANGED <<owner, dissolved, member, inv>>,
         NEW r \in Requests, End(r)
  PROVE  Rest'
<1>1. JoinOK(Idle)
  BY DEF JoinOK, Idle, Joining
<1> QED
  BY <1>1, QuietStep DEF End

\* A request other than join that begins or moves on without touching them.
LEMMA QuietOther ==
  ASSUME MembershipInv, UNCHANGED <<owner, dissolved, member, inv>>,
         NEW r \in Requests, NEW q, q.pc \notin Joining, req' = [req EXCEPT ![r] = q]
  PROVE  Rest'
<1>1. JoinOK(q)
  BY DEF JoinOK, Joining
<1> QED
  BY <1>1, QuietStep

\* A request other than join that moves on to another step of its own.
LEMMA QuietGoto ==
  ASSUME MembershipInv, UNCHANGED <<owner, dissolved, member, inv>>,
         NEW r \in Requests, NEW pc \in PC \ Joining, Goto(r, pc)
  PROVE  Rest'
<1> DEFINE q == [req[r] EXCEPT !.pc = pc]
<1>1. q.pc = pc
  BY DEF MembershipInv, TypeInv, RequestsOK, Request
<1>2. req' = [req EXCEPT ![r] = q]
  BY DEF Goto
<1> HIDE DEF q
<1> QED
  BY <1>1, <1>2, QuietOther

\* A join keeps what it relies on while it checks.
LEMMA QuietJoin ==
  ASSUME MembershipInv, UNCHANGED <<owner, dissolved, member, inv>>,
         NEW r \in Requests, NEW pc \in Joining, req[r].pc \in Joining, Goto(r, pc),
         pc = "joinWrite" => req[r].user = req[r].to
  PROVE  Rest'
<1> DEFINE q == [req[r] EXCEPT !.pc = pc]
<1>1. JoinOK(q)
  <2>1. JoinOK(req[r]) /\ req[r] \in Request
    BY DEF MembershipInv, Joins, TypeInv, RequestsOK
  <2> QED
    BY <2>1 DEF JoinOK, Request
<1>2. req' = [req EXCEPT ![r] = q]
  BY DEF Goto
<1> HIDE DEF q
<1> QED
  BY <1>1, <1>2, QuietStep

\* create: the new workspace has no member but its owner and no invitation.
LEMMA CreateKeepsMembership ==
  ASSUME MembershipInv, NEW r \in Requests, NEW w \in Workspaces, CreateWrite(r, w)
  PROVE  Rest'
<1> DEFINE u == req[r].user
<1>1. u \in Users
  BY DEF CreateWrite, MembershipInv, TypeInv, RequestsOK, Carries
<1>2. /\ owner[w] = None /\ w \notin dissolved /\ member[u] = None
      /\ owner' = [owner EXCEPT ![w] = u] /\ member' = [member EXCEPT ![u] = w]
      /\ UNCHANGED <<dissolved, inv>> /\ End(r)
  BY DEF CreateWrite
<1>3. /\ owner \in [Workspaces -> Users \union {None}]
      /\ member \in [Users -> Workspaces \union {None}]
  BY DEF MembershipInv, TypeInv, TablesOK, MembersOK
<1>4. OwnersAreMembers /\ InvitesLive /\ Joins /\ InvitesMatchMembers
  BY DEF MembershipInv
<1>5. None \notin Users /\ None \notin Workspaces
  OBVIOUS
<1> HIDE DEF u
<1>6. OwnersAreMembers'
  BY <1>1, <1>2, <1>3, <1>4, <1>5 DEF OwnersAreMembers
<1>7. \A i \in Invites : inv[i].status # "none" => inv[i].ws \in Workspaces
  BY DEF MembershipInv, TypeInv, TablesOK, InvitesOK, InviteOK
<1>8. InvitesLive'
  BY <1>1, <1>2, <1>3, <1>4, <1>5, <1>7 DEF InvitesLive
<1>9. Joins'
  <2> SUFFICES ASSUME NEW p \in Requests PROVE JoinOK(req[p])'
    BY DEF Joins
  <2>1. CASE p = r
    BY <1>2, <2>1 DEF End, JoinOK, Idle, Joining, MembershipInv, TypeInv, RequestsOK
  <2>2. CASE p # r
    <3>1. req'[p] = req[p] /\ JoinOK(req[p])
      BY <1>2, <1>4, <2>2 DEF End, Joins, MembershipInv, TypeInv, RequestsOK
    <3>2. req[p].pc \in Joining => req[p].ws \in Workspaces
      BY DEF MembershipInv, TypeInv, RequestsOK, Carries, Joining
    <3> QED
      BY <1>2, <1>3, <3>1, <3>2 DEF JoinOK
  <2> QED
    BY <2>1, <2>2
<1>10. InvitesMatchMembers'
  <2> SUFFICES ASSUME NEW v \in Workspaces, NEW x \in Users,
                      owner'[v] # None, owner'[v] # x
               PROVE  member'[x] = v <=> \E i \in Invites : /\ inv[i].status = "accepted"
                                                            /\ inv[i].ws = v
                                                            /\ inv[i].to = x
    BY <1>2 DEF InvitesMatchMembers
  <2>1. CASE v = w
    <3>1. x # u
      BY <1>2, <1>3, <2>1
    <3>2. member'[x] # w
      BY <1>2, <1>3, <1>4, <1>5, <3>1 DEF OwnersAreMembers
    <3>3. \A i \in Invites : inv[i].status = "accepted" => inv[i].ws # w
      BY <1>2, <1>4 DEF InvitesLive
    <3> QED
      BY <2>1, <3>2, <3>3
  <2>2. CASE v # w
    <3>1. owner[v] # None /\ owner[v] # x
      BY <1>2, <1>3, <2>2
    <3>2. member'[x] = v <=> member[x] = v
      BY <1>1, <1>2, <1>3, <1>5, <2>2
    <3> QED
      BY <1>4, <3>1, <3>2 DEF InvitesMatchMembers
  <2> QED
    BY <2>1, <2>2
<1> QED
  BY <1>6, <1>8, <1>9, <1>10 DEF Rest

\* invite: a pending invitation makes nobody a member, and a join in flight
\* holds an invitation that is there.
LEMMA InviteKeepsMembership ==
  ASSUME MembershipInv, NEW r \in Requests, NEW i \in Invites, InviteWrite(r, i)
  PROVE  Rest'
<1> DEFINE row == [ws |-> req[r].ws, to |-> req[r].to, status |-> "pending", expired |-> FALSE]
<1>1. /\ owner[req[r].ws] # None /\ inv[i].status = "none"
      /\ inv' = [inv EXCEPT ![i] = row] /\ UNCHANGED <<owner, dissolved, member>> /\ End(r)
  BY DEF InviteWrite
<1>2. inv \in [Invites -> InviteRow]
  BY DEF MembershipInv, TypeInv, TablesOK, InvitesOK
<1>3. OwnersAreMembers /\ InvitesLive /\ Joins /\ InvitesMatchMembers
  BY DEF MembershipInv
<1>4. OwnersAreMembers'
  BY <1>1, <1>3 DEF OwnersAreMembers
<1>5. InvitesLive'
  BY <1>1, <1>2, <1>3 DEF InvitesLive
<1>6. Joins'
  <2> SUFFICES ASSUME NEW p \in Requests PROVE JoinOK(req[p])'
    BY DEF Joins
  <2>1. CASE p = r
    BY <1>1, <2>1 DEF End, JoinOK, Idle, Joining, MembershipInv, TypeInv, RequestsOK
  <2>2. CASE p # r
    <3>1. req'[p] = req[p] /\ JoinOK(req[p])
      BY <1>1, <1>3, <2>2 DEF End, Joins, MembershipInv, TypeInv, RequestsOK
    <3>2. req[p].pc \in Joining => req[p].inv \in Invites
      BY DEF MembershipInv, TypeInv, RequestsOK, Carries, Joining
    <3> QED
      BY <1>1, <1>2, <3>1, <3>2 DEF JoinOK
  <2> QED
    BY <2>1, <2>2
<1>7. \A j \in Invites : inv'[j].status = "accepted" => inv'[j] = inv[j]
  BY <1>1, <1>2
<1>8. \A j \in Invites : inv[j].status = "accepted" => inv'[j] = inv[j]
  BY <1>1, <1>2
<1>9. InvitesMatchMembers'
  BY <1>1, <1>3, <1>7, <1>8 DEF InvitesMatchMembers
<1> QED
  BY <1>4, <1>5, <1>6, <1>9 DEF Rest

\* The clock passes the expiry of an invitation.
LEMMA ExpireKeepsMembership ==
  ASSUME MembershipInv, NEW i \in Invites, ExpireInvite(i)
  PROVE  Rest'
<1>1. \A j \in Invites : /\ inv'[j].status = inv[j].status
                         /\ inv'[j].ws = inv[j].ws
                         /\ inv'[j].to = inv[j].to
  BY DEF ExpireInvite, MembershipInv, TypeInv, TablesOK, InvitesOK, InviteRow
<1>2. UNCHANGED <<owner, dissolved, member, req>>
  BY DEF ExpireInvite
<1>3. \A p \in Requests : req[p].pc \in Joining => req[p].inv \in Invites
  BY DEF MembershipInv, TypeInv, RequestsOK, Carries, Joining
<1>4. OwnersAreMembers' /\ InvitesLive'
  BY <1>1, <1>2 DEF MembershipInv, OwnersAreMembers, InvitesLive
<1>5. Joins'
  BY <1>1, <1>2, <1>3 DEF MembershipInv, Joins, JoinOK
<1>6. InvitesMatchMembers'
  BY <1>1, <1>2 DEF MembershipInv, InvitesMatchMembers
<1> QED
  BY <1>4, <1>5, <1>6 DEF Rest

\* join: the member and the accepted invitation appear together.
LEMMA JoinKeepsMembership ==
  ASSUME MembershipInv, NEW r \in Requests, JoinWrite(r)
  PROVE  Rest'
<1> DEFINE u == req[r].user
           w == req[r].ws
           i == req[r].inv
<1>1. /\ member[u] = None /\ owner[w] # None /\ inv[i].status # "none"
      /\ member' = [member EXCEPT ![u] = w]
      /\ inv' = [inv EXCEPT ![i].status = "accepted"]
      /\ UNCHANGED <<owner, dissolved>> /\ End(r) /\ req[r].pc = "joinWrite"
  BY DEF JoinWrite
<1>2. u \in Users /\ w \in Workspaces /\ i \in Invites
  BY <1>1 DEF MembershipInv, TypeInv, RequestsOK, Carries
<1>3. /\ owner \in [Workspaces -> Users \union {None}]
      /\ member \in [Users -> Workspaces \union {None}]
      /\ inv \in [Invites -> InviteRow]
  BY DEF MembershipInv, TypeInv, TablesOK, MembersOK, InvitesOK
<1>4. OwnersAreMembers /\ InvitesLive /\ Joins /\ InvitesMatchMembers
  BY DEF MembershipInv
<1>5. inv[i].ws = w /\ inv[i].to = u
  BY <1>1, <1>4 DEF Joins, JoinOK, Joining
<1>6. None \notin Users /\ None \notin Workspaces
  OBVIOUS
<1>7. \A p \in Requests : req[p].pc \in Joining => req[p].inv \in Invites
  BY DEF MembershipInv, TypeInv, RequestsOK, Carries, Joining
<1> HIDE DEF u, w, i
<1>8. OwnersAreMembers'
  BY <1>1, <1>2, <1>3, <1>4, <1>6 DEF OwnersAreMembers
<1>9. /\ \A j \in Invites : inv'[j].ws = inv[j].ws /\ inv'[j].to = inv[j].to
      /\ \A j \in Invites \ {i} : inv'[j].status = inv[j].status
      /\ inv'[i].status = "accepted"
  BY <1>1, <1>2, <1>3 DEF InviteRow
<1>10. InvitesLive'
  BY <1>1, <1>2, <1>4, <1>5, <1>9 DEF InvitesLive
<1>11. Joins'
  <2> SUFFICES ASSUME NEW p \in Requests PROVE JoinOK(req[p])'
    BY DEF Joins
  <2>1. CASE p = r
    BY <1>1, <2>1 DEF End, JoinOK, Idle, Joining, MembershipInv, TypeInv, RequestsOK
  <2>2. CASE p # r
    <3>1. req'[p] = req[p] /\ JoinOK(req[p])
      BY <1>1, <1>4, <2>2 DEF End, Joins, MembershipInv, TypeInv, RequestsOK
    <3>2. req[p].pc \in Joining /\ inv[req[p].inv].status # "none"
            => inv'[req[p].inv].status # "none"
      BY <1>7, <1>9
    <3> QED
      BY <1>1, <1>7, <1>9, <3>1, <3>2 DEF JoinOK
  <2> QED
    BY <2>1, <2>2
<1>12. InvitesMatchMembers'
  <2> SUFFICES ASSUME NEW v \in Workspaces, NEW x \in Users,
                      owner[v] # None, owner[v] # x
               PROVE  member'[x] = v <=> \E j \in Invites : /\ inv'[j].status = "accepted"
                                                            /\ inv'[j].ws = v
                                                            /\ inv'[j].to = x
    BY <1>1 DEF InvitesMatchMembers
  <2>1. CASE x = u /\ v = w
    <3>1. member'[x] = v
      BY <1>1, <1>2, <1>3, <2>1
    <3> QED
      BY <1>2, <1>5, <1>9, <2>1, <3>1
  <2>2. CASE ~(x = u /\ v = w)
    <3>1. member'[x] = v <=> member[x] = v
      BY <1>1, <1>2, <1>3, <1>6, <2>2
    <3>2. \A j \in Invites :
            (inv'[j].status = "accepted" /\ inv'[j].ws = v /\ inv'[j].to = x)
              <=> (inv[j].status = "accepted" /\ inv[j].ws = v /\ inv[j].to = x)
      BY <1>5, <1>9, <2>2
    <3> QED
      BY <1>4, <3>1, <3>2 DEF InvitesMatchMembers
  <2> QED
    BY <2>1, <2>2
<1> QED
  BY <1>8, <1>10, <1>11, <1>12 DEF Rest

\* dissolve: the workspace, its members and its invitations go together.
LEMMA DissolveKeepsMembership ==
  ASSUME MembershipInv, NEW r \in Requests, DissolveWrite(r)
  PROVE  Rest'
<1> DEFINE w == req[r].ws
<1>1. /\ owner[w] # None
      /\ owner' = [owner EXCEPT ![w] = None]
      /\ dissolved' = dissolved \union {w}
      /\ member' = [x \in Users |-> IF member[x] = w THEN None ELSE member[x]]
      /\ inv' = [j \in Invites |-> IF inv[j].ws = w THEN NoInvite ELSE inv[j]]
      /\ End(r)
  BY DEF DissolveWrite
<1>2. w \in Workspaces
  BY DEF DissolveWrite, MembershipInv, TypeInv, RequestsOK, Carries
<1>3. /\ owner \in [Workspaces -> Users \union {None}]
      /\ member \in [Users -> Workspaces \union {None}]
  BY DEF MembershipInv, TypeInv, TablesOK, MembersOK
<1>4. OwnersAreMembers /\ InvitesLive /\ Joins /\ InvitesMatchMembers
  BY DEF MembershipInv
<1>5. None \notin Users /\ None \notin Workspaces
  OBVIOUS
<1>6. \A i \in Invites : inv[i].status # "none" => inv[i].ws \in Workspaces
  BY DEF MembershipInv, TypeInv, TablesOK, InvitesOK, InviteOK
<1>7. NoInvite.status = "none"
  BY DEF NoInvite
<1> HIDE DEF w
<1>8. OwnersAreMembers'
  BY <1>1, <1>2, <1>3, <1>4, <1>5 DEF OwnersAreMembers
<1>9. \A i \in Invites : inv'[i].status # "none" => inv'[i] = inv[i] /\ inv[i].ws # w
  BY <1>1, <1>7
<1>10. InvitesLive'
  BY <1>1, <1>2, <1>3, <1>4, <1>6, <1>9 DEF InvitesLive
<1>11. Joins'
  <2> SUFFICES ASSUME NEW p \in Requests PROVE JoinOK(req[p])'
    BY DEF Joins
  <2>1. CASE p = r
    BY <1>1, <2>1 DEF End, JoinOK, Idle, Joining, MembershipInv, TypeInv, RequestsOK
  <2>2. CASE p # r
    <3>1. req'[p] = req[p] /\ JoinOK(req[p])
      BY <1>1, <1>4, <2>2 DEF End, Joins, MembershipInv, TypeInv, RequestsOK
    <3>2. req[p].pc \in Joining => req[p].ws \in Workspaces /\ req[p].inv \in Invites
      BY DEF MembershipInv, TypeInv, RequestsOK, Carries, Joining
    <3> QED
      BY <1>1, <1>2, <1>3, <3>1, <3>2 DEF JoinOK
  <2> QED
    BY <2>1, <2>2
<1>12. InvitesMatchMembers'
  <2> SUFFICES ASSUME NEW v \in Workspaces, NEW x \in Users,
                      owner'[v] # None, owner'[v] # x
               PROVE  member'[x] = v <=> \E j \in Invites : /\ inv'[j].status = "accepted"
                                                            /\ inv'[j].ws = v
                                                            /\ inv'[j].to = x
    BY DEF InvitesMatchMembers
  <2>1. v # w /\ owner[v] # None /\ owner[v] # x
    BY <1>1, <1>2, <1>3
  <2>2. member'[x] = v <=> member[x] = v
    BY <1>1, <1>3, <1>5, <2>1
  <2>3. \A j \in Invites : inv[j].ws = v => inv'[j] = inv[j]
    BY <1>1, <2>1
  <2>4. \A j \in Invites : inv'[j].status = "accepted" => inv'[j] = inv[j]
    BY <1>9
  <2> QED
    BY <1>4, <2>1, <2>2, <2>3, <2>4 DEF InvitesMatchMembers
<1> QED
  BY <1>8, <1>10, <1>11, <1>12 DEF Rest

\* The membership invariant holds of the empty tables.
LEMMA MembershipInit == Init => MembershipInv
<1> SUFFICES ASSUME Init PROVE MembershipInv
  OBVIOUS
<1>1. TypeInv
  BY TypeInit
<1>2. OwnersAreMembers /\ InvitesMatchMembers
  BY DEF Init, OwnersAreMembers, InvitesMatchMembers
<1>3. InvitesLive
  BY DEF Init, InvitesLive, NoInvite
<1>4. Joins
  BY DEF Init, Joins, JoinOK, Idle, Joining
<1> QED
  BY <1>1, <1>2, <1>3, <1>4 DEF MembershipInv

\* Every step keeps the membership invariant.
LEMMA MembershipStep == MembershipInv /\ [Next]_vars => MembershipInv'
<1> SUFFICES ASSUME MembershipInv, [Next]_vars PROVE Rest'
  BY TypeStep DEF MembershipInv, Rest
<1>1. ASSUME NEW u \in Users, AccessChanges(u) \/ \E p \in Plans : NewPersonalPlan(u, p)
      PROVE  Rest'
  BY <1>1 DEF AccessChanges, NewPersonalPlan, MembershipInv, Rest, OwnersAreMembers,
              InvitesLive, Joins, JoinOK, InvitesMatchMembers
<1>2. ASSUME NEW i \in Invites, ExpireInvite(i) PROVE Rest'
  BY <1>2, ExpireKeepsMembership
<1>3. ASSUME NEW r \in Requests, CreateCheck(r) PROVE Rest'
  BY <1>3, QuietGoto DEF CreateCheck, PC, Joining
<1>4. ASSUME NEW r \in Requests, InviteCheck(r) PROVE Rest'
  BY <1>4, QuietGoto DEF InviteCheck, PC, Joining
<1>5. ASSUME NEW r \in Requests, JoinPaid(r) PROVE Rest'
  BY <1>5, QuietJoin DEF JoinPaid, Joining
<1>6. ASSUME NEW r \in Requests, JoinCheck(r) PROVE Rest'
  BY <1>6, QuietJoin DEF JoinCheck, Joining
<1>7. ASSUME NEW r \in Requests, JoinWrite(r) PROVE Rest'
  BY <1>7, JoinKeepsMembership
<1>8. ASSUME NEW r \in Requests, ShareCheck(r) PROVE Rest'
  <2> DEFINE q == [req[r] EXCEPT !.pc = "shareWrite", !.ws = member[req[r].user]]
  <2>1. q.pc = "shareWrite"
    BY DEF MembershipInv, TypeInv, RequestsOK, Request
  <2>2. req' = [req EXCEPT ![r] = q]
    BY <1>8 DEF ShareCheck, MembershipInv, TypeInv, RequestsOK
  <2> HIDE DEF q
  <2> QED
    BY <1>8, <2>1, <2>2, QuietOther DEF ShareCheck, Joining
<1>9. ASSUME NEW r \in Requests, ShareWrite(r) \/ DeleteWrite(r) \/ Fail(r) PROVE Rest'
  BY <1>9, QuietEnd DEF ShareWrite, DeleteWrite, Fail
<1>10. ASSUME NEW r \in Requests, DissolvePlans(r) PROVE Rest'
  <2> DEFINE q == [req[r] EXCEPT !.pc = "dissolveWrite",
                                 !.plans = {x \in Plans \X Users :
                                            /\ plan[x[1]].ws = req[r].ws
                                            /\ plan[x[1]].owner = x[2]}]
  <2>1. q.pc = "dissolveWrite"
    BY DEF MembershipInv, TypeInv, RequestsOK, Request
  <2>2. req' = [req EXCEPT ![r] = q]
    BY <1>10 DEF DissolvePlans, MembershipInv, TypeInv, RequestsOK
  <2> HIDE DEF q
  <2> QED
    BY <1>10, <2>1, <2>2, QuietOther DEF DissolvePlans, Joining
<1>11. ASSUME NEW r \in Requests, DissolveWrite(r) PROVE Rest'
  BY <1>11, DissolveKeepsMembership
<1>12. ASSUME NEW r \in Requests, NEW w \in Workspaces, CreateWrite(r, w) PROVE Rest'
  BY <1>12, CreateKeepsMembership
<1>13. ASSUME NEW r \in Requests, NEW i \in Invites, InviteWrite(r, i) PROVE Rest'
  BY <1>13, InviteKeepsMembership
<1>14. ASSUME NEW r \in Requests, NEW p \in Plans, NewPlanWrite(r, p) PROVE Rest'
  BY <1>14, QuietEnd DEF NewPlanWrite
<1>15. ASSUME NEW r \in Requests, NEW u \in Users, CreatePaid(r, u) PROVE Rest'
  BY <1>15, QuietOther DEF CreatePaid, Begin, Idle, Joining
<1>16. ASSUME NEW r \in Requests, NEW u \in Users, NewPlanCheck(r, u) PROVE Rest'
  BY <1>16, QuietOther DEF NewPlanCheck, Begin, Idle, Joining
<1>17. ASSUME NEW r \in Requests, NEW u \in Users, NEW i \in Invites, JoinRead(r, u, i)
       PROVE  Rest'
  <2> DEFINE q == [Idle EXCEPT !.pc = "joinPaid", !.user = u, !.inv = i, !.ws = inv[i].ws,
                               !.to = inv[i].to, !.members = Members(inv[i].ws)]
  <2>1. inv[i].status # "none" /\ owner[inv[i].ws] # None
    BY <1>17 DEF JoinRead, MembershipInv, InvitesLive
  <2>2. JoinOK(q)
    BY <2>1 DEF JoinOK, Idle, Joining
  <2>3. req' = [req EXCEPT ![r] = q]
    BY <1>17 DEF JoinRead, Begin
  <2> HIDE DEF q
  <2> QED
    BY <1>17, <2>2, <2>3, QuietStep DEF JoinRead
<1>18. ASSUME NEW r \in Requests, NEW u \in Users, NEW p \in Plans,
              ShareRead(r, u, p) \/ DeleteRead(r, u, p)
       PROVE  Rest'
  BY <1>18, QuietOther DEF ShareRead, DeleteRead, Begin, Idle, Joining
<1>19. ASSUME NEW r \in Requests, NEW u \in Users, NEW w \in Workspaces, DissolveRead(r, u, w)
       PROVE  Rest'
  BY <1>19, QuietOther DEF DissolveRead, Begin, Idle, Joining
<1>20. ASSUME NEW r \in Requests, NEW u \in Users, NEW w \in Workspaces, NEW to \in Users,
              InvitePaid(r, u, w, to)
       PROVE  Rest'
  BY <1>20, QuietOther DEF InvitePaid, Begin, Idle, Joining
<1>21. CASE UNCHANGED vars
  BY <1>21 DEF vars, MembershipInv, Rest, OwnersAreMembers, InvitesLive, Joins, JoinOK,
               InvitesMatchMembers
<1> QED
  BY <1>1, <1>2, <1>3, <1>4, <1>5, <1>6, <1>7, <1>8, <1>9, <1>10, <1>11, <1>12, <1>13,
     <1>14, <1>15, <1>16, <1>17, <1>18, <1>19, <1>20, <1>21 DEF Next

\* The membership invariant holds in every reachable state.
LEMMA MembershipAlways == Spec => []MembershipInv
  BY MembershipInit, MembershipStep, PTL DEF Spec

\* A workspace exists exactly as long as its owner is a member of it, whichever
\* create, join and dissolve requests overlap.
THEOREM OwnersCorrect == Spec => []OwnersAreMembers
<1>1. MembershipInv => OwnersAreMembers
  BY DEF MembershipInv
<1> QED
  BY <1>1, MembershipAlways, PTL

\* The members of a workspace besides its owner are exactly the users who
\* accepted an invitation addressed to them.
THEOREM InvitesCorrect == Spec => []InvitesMatchMembers
<1>1. MembershipInv => InvitesMatchMembers
  BY DEF MembershipInv
<1> QED
  BY <1>1, MembershipAlways, PTL
-----------------------------------------------------------------------------
(* Plans and copies *)

(***************************************************************************)
(* OwnerReachesPlan speaks of the memberships of now, but a plan is shared *)
(* by requests that looked at the membership earlier.  What they rely on   *)
(* is that a membership ends only with its workspace, that an id of a      *)
(* workspace never comes back, and that a plan keeps its owner.            *)
(***************************************************************************)
Belongs(u, w) ==
    /\ owner[w] # None \/ w \in dissolved
    /\ owner[w] # None => member[u] = w

PlanShared(p) ==
    plan[p].status = "live"
    => /\ plan[p].owner \in Users
       /\ plan[p].ws # None => member[plan[p].owner] = plan[p].ws

Sharing == {"shareCheck", "shareWrite"}

\* share, saveDraft and generate, between their checks and their writes.
SharerOK(q) ==
    /\ q.pc \in {"newPlan", "shareWrite"} => Belongs(q.user, q.ws)
    /\ q.pc \in Sharing => plan[q.plan].status # "none" /\ plan[q.plan].owner = q.user

PlansShared == \A p \in Plans : PlanShared(p)
Sharers     == \A r \in Requests : SharerOK(req[r])

\* A workspace that has not been dissolved has given no copies.
NoCopiesYet ==
    \A w \in Workspaces \ dissolved, p \in Plans, u \in Users : copies[w][p][u] = 0

SharingInv == MembershipInv /\ PlansShared /\ Sharers /\ NoCopiesYet /\ CopiedOnce

\* Only create, join and dissolve change who is a member of what.
LEMMA MembershipMoves ==
  ASSUME [Next]_vars
  PROVE  \/ UNCHANGED <<owner, dissolved, member>>
         \/ \E r \in Requests : \/ \E w \in Workspaces : CreateWrite(r, w)
                                \/ JoinWrite(r) \/ DissolveWrite(r)
<1> DEFINE Still == UNCHANGED <<owner, dissolved, member>>
<1>1. ASSUME NEW u \in Users, AccessChanges(u) \/ \E p \in Plans : NewPersonalPlan(u, p)
      PROVE  Still
  BY <1>1 DEF AccessChanges, NewPersonalPlan
<1>2. ASSUME NEW i \in Invites, ExpireInvite(i) PROVE Still
  BY <1>2 DEF ExpireInvite
<1>3. ASSUME NEW r \in Requests,
             \/ CreateCheck(r) \/ InviteCheck(r) \/ JoinPaid(r) \/ JoinCheck(r) \/ ShareCheck(r)
             \/ ShareWrite(r) \/ DeleteWrite(r) \/ DissolvePlans(r) \/ Fail(r)
             \/ \E i \in Invites : InviteWrite(r, i)
             \/ \E p \in Plans : NewPlanWrite(r, p)
      PROVE  Still
  BY <1>3 DEF CreateCheck, InviteCheck, JoinPaid, JoinCheck, ShareCheck, ShareWrite,
              DeleteWrite, DissolvePlans, Fail, InviteWrite, NewPlanWrite
<1>4. ASSUME NEW r \in Requests, NEW u \in Users,
             \/ CreatePaid(r, u) \/ NewPlanCheck(r, u)
             \/ \E i \in Invites : JoinRead(r, u, i)
             \/ \E p \in Plans : ShareRead(r, u, p) \/ DeleteRead(r, u, p)
             \/ \E w \in Workspaces : \/ DissolveRead(r, u, w)
                                      \/ \E to \in Users : InvitePaid(r, u, w, to)
      PROVE  Still
  BY <1>4 DEF CreatePaid, NewPlanCheck, JoinRead, ShareRead, DeleteRead, DissolveRead, InvitePaid
<1>5. CASE UNCHANGED vars
  BY <1>5 DEF vars
<1> QED
  BY <1>1, <1>2, <1>3, <1>4, <1>5 DEF Next

\* Who belongs to a workspace does so until it is dissolved.
LEMMA BelongsKept ==
  ASSUME MembershipInv, [Next]_vars, NEW u \in Users, NEW w \in Workspaces, Belongs(u, w)
  PROVE  Belongs(u, w)'
<1>1. /\ owner \in [Workspaces -> Users \union {None}]
      /\ member \in [Users -> Workspaces \union {None}]
      /\ dissolved \subseteq Workspaces /\ OwnersAreMembers
      /\ None \notin Users /\ None \notin Workspaces
  BY DEF MembershipInv, TypeInv, TablesOK, MembersOK
<1>2. CASE UNCHANGED <<owner, dissolved, member>>
  BY <1>2 DEF Belongs
<1>3. ASSUME NEW r \in Requests, NEW v \in Workspaces, CreateWrite(r, v)
      PROVE  Belongs(u, w)'
  <2>1. /\ owner[v] = None /\ v \notin dissolved /\ member[req[r].user] = None
        /\ owner' = [owner EXCEPT ![v] = req[r].user]
        /\ member' = [member EXCEPT ![req[r].user] = v] /\ UNCHANGED dissolved
    BY <1>3 DEF CreateWrite
  <2>2. v # w
    BY <2>1 DEF Belongs
  <2> QED
    BY <1>1, <2>1, <2>2 DEF Belongs
<1>4. ASSUME NEW r \in Requests, JoinWrite(r) PROVE Belongs(u, w)'
  <2>1. /\ member[req[r].user] = None /\ UNCHANGED <<owner, dissolved>>
        /\ member' = [member EXCEPT ![req[r].user] = req[r].ws]
    BY <1>4 DEF JoinWrite
  <2> QED
    BY <1>1, <2>1 DEF Belongs
<1>5. ASSUME NEW r \in Requests, DissolveWrite(r) PROVE Belongs(u, w)'
  <2> DEFINE v == req[r].ws
  <2>1. /\ owner' = [owner EXCEPT ![v] = None] /\ dissolved' = dissolved \union {v}
        /\ member' = [x \in Users |-> IF member[x] = v THEN None ELSE member[x]]
    BY <1>5 DEF DissolveWrite
  <2> HIDE DEF v
  <2> QED
    BY <1>1, <2>1 DEF Belongs
<1> QED
  BY <1>2, <1>3, <1>4, <1>5, MembershipMoves

\* Only five steps write plans, and the last of them copies.
LEMMA PlanMoves ==
  ASSUME [Next]_vars
  PROVE  \/ UNCHANGED <<plan, copies>>
         \/ \E u \in Users, p \in Plans : NewPersonalPlan(u, p)
         \/ \E r \in Requests : ShareWrite(r) \/ DeleteWrite(r) \/ DissolveWrite(r)
         \/ \E r \in Requests, p \in Plans : NewPlanWrite(r, p)
<1>1. ASSUME NEW u \in Users, AccessChanges(u) PROVE UNCHANGED <<plan, copies>>
  BY <1>1 DEF AccessChanges
<1>2. ASSUME NEW i \in Invites, ExpireInvite(i) PROVE UNCHANGED <<plan, copies>>
  BY <1>2 DEF ExpireInvite
<1>3. ASSUME NEW r \in Requests,
             \/ CreateCheck(r) \/ InviteCheck(r) \/ JoinPaid(r) \/ JoinCheck(r) \/ JoinWrite(r)
             \/ ShareCheck(r) \/ DissolvePlans(r) \/ Fail(r)
             \/ \E w \in Workspaces : CreateWrite(r, w)
             \/ \E i \in Invites : InviteWrite(r, i)
      PROVE  UNCHANGED <<plan, copies>>
  BY <1>3 DEF CreateCheck, InviteCheck, JoinPaid, JoinCheck, JoinWrite, ShareCheck,
              DissolvePlans, Fail, CreateWrite, InviteWrite
<1>4. ASSUME NEW r \in Requests, NEW u \in Users,
             \/ CreatePaid(r, u) \/ NewPlanCheck(r, u)
             \/ \E i \in Invites : JoinRead(r, u, i)
             \/ \E x \in Plans : ShareRead(r, u, x) \/ DeleteRead(r, u, x)
             \/ \E w \in Workspaces : \/ DissolveRead(r, u, w)
                                      \/ \E to \in Users : InvitePaid(r, u, w, to)
      PROVE  UNCHANGED <<plan, copies>>
  BY <1>4 DEF CreatePaid, NewPlanCheck, JoinRead, ShareRead, DeleteRead, DissolveRead,
              InvitePaid
<1>5. CASE UNCHANGED vars
  BY <1>5 DEF vars
<1> QED
  BY <1>1, <1>2, <1>3, <1>4, <1>5 DEF Next

\* A plan, deleted or not, keeps its owner, and its row stays.
LEMMA PlanOwnerKept ==
  ASSUME TypeInv, [Next]_vars, NEW p \in Plans, plan[p].status # "none"
  PROVE  plan'[p].status # "none" /\ plan'[p].owner = plan[p].owner
<1>1. plan \in [Plans -> PlanRow]
  BY DEF TypeInv, TablesOK, PlansOK
<1>2. ASSUME NEW u \in Users, NEW x \in Plans, NewPersonalPlan(u, x)
      PROVE  plan'[p] = plan[p]
  BY <1>1, <1>2 DEF NewPersonalPlan
<1>3. ASSUME NEW r \in Requests, NEW x \in Plans, NewPlanWrite(r, x)
      PROVE  plan'[p] = plan[p]
  BY <1>1, <1>3 DEF NewPlanWrite
<1>4. ASSUME NEW r \in Requests, ShareWrite(r)
      PROVE  plan'[p].status = plan[p].status /\ plan'[p].owner = plan[p].owner
  BY <1>1, <1>4 DEF ShareWrite, PlanRow
<1>5. ASSUME NEW r \in Requests, DeleteWrite(r)
      PROVE  plan'[p].status # "none" /\ plan'[p].owner = plan[p].owner
  BY <1>1, <1>5 DEF DeleteWrite, PlanRow
<1>6. ASSUME NEW r \in Requests, DissolveWrite(r)
      PROVE  plan'[p].status = plan[p].status /\ plan'[p].owner = plan[p].owner
  BY <1>1, <1>6 DEF DissolveWrite, PlanRow
<1>7. CASE UNCHANGED plan
  BY <1>7
<1> QED
  BY <1>2, <1>3, <1>4, <1>5, <1>6, <1>7, PlanMoves

\* What a request does in one step: nothing, it goes on with something that no
\* sharing relies on, or it takes one of the three steps that look at a plan or
\* at a membership.
LEMMA RequestMoves ==
  ASSUME TypeInv, [Next]_vars, NEW r \in Requests
  PROVE  \/ req'[r] = req[r]
         \/ req'[r].pc \notin {"newPlan"} \union Sharing
         \/ \E u \in Users : NewPlanCheck(r, u) \/ \E p \in Plans : ShareRead(r, u, p)
         \/ ShareCheck(r)
<1> DEFINE Away(q) == q'[r] = q[r] \/ q'[r].pc \notin {"newPlan"} \union Sharing
<1>1. req \in [Requests -> Request]
  BY DEF TypeInv, RequestsOK
<1>2. Idle.pc = "idle"
  BY DEF Idle
<1>3. CASE UNCHANGED req
  BY <1>3
<1>4. ASSUME NEW x \in Requests,
             \/ JoinWrite(x) \/ ShareWrite(x) \/ DeleteWrite(x) \/ DissolveWrite(x) \/ Fail(x)
             \/ \E w \in Workspaces : CreateWrite(x, w)
             \/ \E i \in Invites : InviteWrite(x, i)
             \/ \E p \in Plans : NewPlanWrite(x, p)
      PROVE  Away(req)
  <2>1. End(x)
    BY <1>4 DEF JoinWrite, ShareWrite, DeleteWrite, DissolveWrite, Fail, CreateWrite,
                InviteWrite, NewPlanWrite
  <2> QED
    BY <1>1, <1>2, <2>1 DEF End, Sharing
<1>5. ASSUME NEW x \in Requests,
             CreateCheck(x) \/ InviteCheck(x) \/ JoinPaid(x) \/ JoinCheck(x) \/ DissolvePlans(x)
      PROVE  Away(req)
  <2>1. \E pc \in {"createWrite", "inviteWrite", "joinCheck", "joinWrite", "dissolveWrite"} :
          \/ req' = [req EXCEPT ![x].pc = pc]
          \/ \E plans : req' = [req EXCEPT ![x].pc = pc, ![x].plans = plans]
    BY <1>5 DEF CreateCheck, InviteCheck, JoinPaid, JoinCheck, DissolvePlans, Goto
  <2> QED
    BY <1>1, <2>1 DEF Request, Sharing
<1>6. ASSUME NEW x \in Requests, NEW u \in Users,
             \/ CreatePaid(x, u)
             \/ \E i \in Invites : JoinRead(x, u, i)
             \/ \E p \in Plans : DeleteRead(x, u, p)
             \/ \E w \in Workspaces : \/ DissolveRead(x, u, w)
                                      \/ \E to \in Users : InvitePaid(x, u, w, to)
      PROVE  Away(req)
  <2> DEFINE Begun == \E q : q.pc \notin {"newPlan"} \union Sharing /\ req' = [req EXCEPT ![x] = q]
  <2>1. Begun
    <3>1. CASE CreatePaid(x, u)
      BY <3>1 DEF CreatePaid, Begin, Idle, Sharing
    <3>2. ASSUME NEW i \in Invites, JoinRead(x, u, i) PROVE Begun
      BY <3>2 DEF JoinRead, Begin, Idle, Sharing
    <3>3. ASSUME NEW p \in Plans, DeleteRead(x, u, p) PROVE Begun
      BY <3>3 DEF DeleteRead, Begin, Idle, Sharing
    <3>4. ASSUME NEW w \in Workspaces, DissolveRead(x, u, w) PROVE Begun
      BY <3>4 DEF DissolveRead, Begin, Idle, Sharing
    <3>5. ASSUME NEW w \in Workspaces, NEW to \in Users, InvitePaid(x, u, w, to) PROVE Begun
      BY <3>5 DEF InvitePaid, Begin, Idle, Sharing
    <3> QED
      BY <1>6, <3>1, <3>2, <3>3, <3>4, <3>5
  <2> QED
    BY <1>1, <2>1
<1>7. ASSUME NEW x \in Requests, NEW u \in Users,
             NewPlanCheck(x, u) \/ \E p \in Plans : ShareRead(x, u, p)
      PROVE  x = r \/ req'[r] = req[r]
  BY <1>1, <1>7 DEF NewPlanCheck, ShareRead, Begin
<1>8. ASSUME NEW x \in Requests, ShareCheck(x) PROVE x = r \/ req'[r] = req[r]
  BY <1>1, <1>8 DEF ShareCheck
<1>9. ASSUME NEW u \in Users, AccessChanges(u) \/ \E p \in Plans : NewPersonalPlan(u, p)
      PROVE  UNCHANGED req
  BY <1>9 DEF AccessChanges, NewPersonalPlan
<1>10. ASSUME NEW i \in Invites, ExpireInvite(i) PROVE UNCHANGED req
  BY <1>10 DEF ExpireInvite
<1>11. CASE UNCHANGED vars
  BY <1>11 DEF vars
<1> QED
  BY <1>3, <1>4, <1>5, <1>6, <1>7, <1>8, <1>9, <1>10, <1>11 DEF Next

\* A request that shares a plan keeps what it relies on.
LEMMA SharersKept == SharingInv /\ [Next]_vars => Sharers'
<1> SUFFICES ASSUME SharingInv, [Next]_vars, NEW r \in Requests PROVE SharerOK(req[r])'
  BY DEF Sharers
<1>1. /\ req \in [Requests -> Request] /\ Carries(req[r]) /\ SharerOK(req[r])
      /\ MembershipInv /\ TypeInv
      /\ None \notin Users /\ None \notin Workspaces
      /\ member \in [Users -> Workspaces \union {None}]
  BY DEF SharingInv, Sharers, MembershipInv, TypeInv, RequestsOK, TablesOK, MembersOK
<1>2. CASE req'[r] = req[r]
  <2> DEFINE q == req[r]
  <2>1. ASSUME q.pc \in {"newPlan", "shareWrite"} PROVE Belongs(q.user, q.ws)'
    <3>1. q.user \in Users /\ q.ws \in Workspaces
      BY <1>1, <2>1 DEF Carries
    <3>2. Belongs(q.user, q.ws)
      BY <1>1, <2>1 DEF SharerOK
    <3>3. \A u \in Users, w \in Workspaces : Belongs(u, w) => Belongs(u, w)'
      BY <1>1, BelongsKept
    <3> QED
      BY <1>2, <3>1, <3>2, <3>3 DEF Belongs
  <2>2. ASSUME q.pc \in Sharing
        PROVE  plan'[q.plan].status # "none" /\ plan'[q.plan].owner = q.user
    <3>1. q.plan \in Plans
      BY <1>1, <2>2 DEF Carries, Sharing
    <3> QED
      BY <1>1, <2>2, <3>1, PlanOwnerKept DEF SharerOK
  <2> QED
    BY <1>2, <2>1, <2>2 DEF SharerOK, Belongs
<1>3. CASE req'[r].pc \notin {"newPlan"} \union Sharing
  BY <1>3 DEF SharerOK, Sharing
<1>4. ASSUME NEW u \in Users, NewPlanCheck(r, u) PROVE SharerOK(req[r])'
  <2>1. /\ member[u] # None /\ UNCHANGED <<owner, dissolved, member, plan>>
        /\ req'[r] = [Idle EXCEPT !.pc = "newPlan", !.user = u, !.ws = member[u]]
    BY <1>1, <1>4 DEF NewPlanCheck, Begin
  <2>2. Belongs(u, member[u])
    BY <1>1, <2>1 DEF MembershipInv, OwnersAreMembers, Belongs
  <2> QED
    BY <2>1, <2>2 DEF SharerOK, Belongs, Idle, Sharing
<1>5. ASSUME NEW u \in Users, NEW p \in Plans, ShareRead(r, u, p) PROVE SharerOK(req[r])'
  <2>1. /\ plan[p].status = "live" /\ plan[p].owner = u /\ UNCHANGED plan
        /\ req'[r] = [Idle EXCEPT !.pc = "shareCheck", !.user = u, !.plan = p]
    BY <1>1, <1>5 DEF ShareRead, Begin
  <2> QED
    BY <2>1 DEF SharerOK, Idle, Sharing
<1>6. CASE ShareCheck(r)
  <2> DEFINE u == req[r].user
  <2>1. /\ member[u] # None /\ UNCHANGED <<owner, dissolved, member, plan>>
        /\ req'[r] = [req[r] EXCEPT !.pc = "shareWrite", !.ws = member[u]]
        /\ req[r].pc = "shareCheck"
    BY <1>1, <1>6 DEF ShareCheck
  <2>2. /\ req'[r].user = u /\ req'[r].plan = req[r].plan /\ req'[r].ws = member[u]
        /\ u \in Users
    BY <1>1, <2>1 DEF Request, Carries
  <2>3. Belongs(u, member[u])
    BY <1>1, <2>1, <2>2 DEF MembershipInv, OwnersAreMembers, Belongs
  <2>4. plan[req[r].plan].status # "none" /\ plan[req[r].plan].owner = u
    BY <1>1, <2>1 DEF SharerOK, Sharing
  <2> QED
    BY <2>1, <2>2, <2>3, <2>4 DEF SharerOK, Belongs
<1> QED
  BY <1>1, <1>2, <1>3, <1>4, <1>5, <1>6, RequestMoves

\* Every step leaves each live plan where its owner reaches it.
LEMMA PlansSharedKept == SharingInv /\ [Next]_vars => PlansShared'
<1> SUFFICES ASSUME SharingInv, [Next]_vars, NEW p \in Plans PROVE PlanShared(p)'
  BY DEF PlansShared
<1>1. /\ req \in [Requests -> Request] /\ RequestsOK /\ Sharers /\ PlanShared(p)
      /\ MembershipInv /\ TypeInv
      /\ None \notin Users /\ None \notin Workspaces
      /\ member \in [Users -> Workspaces \union {None}] /\ plan \in [Plans -> PlanRow]
  BY DEF SharingInv, PlansShared, MembershipInv, TypeInv, RequestsOK, TablesOK, MembersOK, PlansOK
<1>2. CASE UNCHANGED <<plan, member>>
  BY <1>1, <1>2 DEF PlanShared
<1>3. ASSUME NEW r \in Requests, JoinWrite(r) \/ \E w \in Workspaces : CreateWrite(r, w)
      PROVE  PlanShared(p)'
  <2>1. /\ UNCHANGED plan /\ member[req[r].user] = None
        /\ \E w : member' = [member EXCEPT ![req[r].user] = w]
    BY <1>3 DEF JoinWrite, CreateWrite
  <2> QED
    BY <1>1, <2>1 DEF PlanShared
<1>4. ASSUME NEW u \in Users, NEW x \in Plans, NewPersonalPlan(u, x) PROVE PlanShared(p)'
  BY <1>1, <1>4 DEF NewPersonalPlan, PlanShared
<1>5. ASSUME NEW r \in Requests, NEW x \in Plans, NewPlanWrite(r, x) PROVE PlanShared(p)'
  <2>1. req[r].user \in Users /\ req[r].ws \in Workspaces /\ member[req[r].user] = req[r].ws
    BY <1>1, <1>5 DEF NewPlanWrite, Sharers, SharerOK, Belongs, RequestsOK, Carries
  <2> QED
    BY <1>1, <1>5, <2>1 DEF NewPlanWrite, PlanShared
<1>6. ASSUME NEW r \in Requests, ShareWrite(r) PROVE PlanShared(p)'
  <2>1. /\ req[r].user \in Users /\ req[r].plan \in Plans
        /\ member[req[r].user] = req[r].ws /\ plan[req[r].plan].owner = req[r].user
    BY <1>1, <1>6 DEF ShareWrite, Sharers, SharerOK, Belongs, Sharing, RequestsOK, Carries
  <2> QED
    BY <1>1, <1>6, <2>1 DEF ShareWrite, PlanShared, PlanRow
<1>7. ASSUME NEW r \in Requests, DeleteWrite(r) PROVE PlanShared(p)'
  BY <1>1, <1>7 DEF DeleteWrite, PlanShared, PlanRow
<1>8. ASSUME NEW r \in Requests, DissolveWrite(r) PROVE PlanShared(p)'
  <2>1. /\ plan' = [x \in Plans |-> IF plan[x].ws = req[r].ws
                                    THEN [plan[x] EXCEPT !.ws = None] ELSE plan[x]]
        /\ member' = [u \in Users |-> IF member[u] = req[r].ws THEN None ELSE member[u]]
    BY <1>8 DEF DissolveWrite
  <2>2. CASE plan[p].ws = req[r].ws
    BY <1>1, <2>1, <2>2 DEF PlanShared, PlanRow
  <2>3. CASE plan[p].ws # req[r].ws
    BY <1>1, <2>1, <2>3 DEF PlanShared
  <2> QED
    BY <2>2, <2>3
<1>9. \/ UNCHANGED plan
      \/ \E u \in Users, x \in Plans : NewPersonalPlan(u, x)
      \/ \E r \in Requests : ShareWrite(r) \/ DeleteWrite(r) \/ DissolveWrite(r)
      \/ \E r \in Requests, x \in Plans : NewPlanWrite(r, x)
  BY PlanMoves
<1> QED
  BY <1>2, <1>3, <1>4, <1>5, <1>6, <1>7, <1>8, <1>9, MembershipMoves

\* Only dissolve gives copies, and only of a workspace that is still there.
LEMMA CopiesKept == SharingInv /\ [Next]_vars => NoCopiesYet' /\ CopiedOnce'
<1> SUFFICES ASSUME SharingInv, [Next]_vars PROVE NoCopiesYet' /\ CopiedOnce'
  OBVIOUS
<1>1. /\ copies \in [Workspaces -> [Plans -> [Users -> Nat]]]
      /\ NoCopiesYet /\ CopiedOnce /\ OwnersAreMembers /\ RequestsOK
  BY DEF SharingInv, MembershipInv, TypeInv, TablesOK, PlansOK
<1>2. CASE UNCHANGED copies /\ dissolved \subseteq dissolved'
  BY <1>1, <1>2 DEF NoCopiesYet, CopiedOnce
<1>3. ASSUME NEW r \in Requests, DissolveWrite(r) PROVE NoCopiesYet' /\ CopiedOnce'
  <2> DEFINE v == req[r].ws
             gives(p, u) == IF u \in req[r].members /\ \E x \in Users \ {u} : <<p, x>> \in req[r].plans
                            THEN 1 ELSE 0
  <2>1. v \in Workspaces /\ v \notin dissolved /\ dissolved' = dissolved \union {v}
    BY <1>1, <1>3 DEF DissolveWrite, OwnersAreMembers, RequestsOK, Carries
  <2>2. copies' = [copies EXCEPT ![v] = [p \in Plans |-> [u \in Users |-> @[p][u] + gives(p, u)]]]
    BY <1>3 DEF DissolveWrite, CopiesAfter
  <2>3. \A p \in Plans, u \in Users : copies'[v][p][u] <= 1
    <3>1. \A p, u : gives(p, u) \in 0 .. 1
      OBVIOUS
    <3> HIDE DEF gives
    <3>2. \A p \in Plans, u \in Users : copies'[v][p][u] = copies[v][p][u] + gives(p, u)
      BY <1>1, <2>1, <2>2
    <3> QED
      BY <1>1, <2>1, <3>1, <3>2 DEF NoCopiesYet
  <2> HIDE DEF v, gives
  <2>4. \A w \in Workspaces \ {v} : copies'[w] = copies[w]
    BY <1>1, <2>1, <2>2
  <2> QED
    BY <1>1, <2>1, <2>3, <2>4 DEF NoCopiesYet, CopiedOnce
<1>4. UNCHANGED copies \/ \E r \in Requests : DissolveWrite(r)
  BY PlanMoves DEF NewPersonalPlan, NewPlanWrite, ShareWrite, DeleteWrite
<1>5. dissolved \subseteq dissolved'
  BY MembershipMoves DEF CreateWrite, JoinWrite, DissolveWrite
<1> QED
  BY <1>2, <1>3, <1>4, <1>5

\* Nothing is shared at first.
LEMMA SharingInit == Init => SharingInv
<1> SUFFICES ASSUME Init PROVE SharingInv
  OBVIOUS
<1>1. MembershipInv
  BY MembershipInit
<1>2. PlansShared /\ Sharers
  BY DEF Init, PlansShared, PlanShared, NoPlan, Sharers, SharerOK, Idle, Sharing
<1>3. NoCopiesYet /\ CopiedOnce
  BY DEF Init, NoCopiesYet, CopiedOnce
<1> QED
  BY <1>1, <1>2, <1>3 DEF SharingInv

\* Every step keeps it.
LEMMA SharingStep == SharingInv /\ [Next]_vars => SharingInv'
<1> SUFFICES ASSUME SharingInv, [Next]_vars PROVE SharingInv'
  OBVIOUS
<1>1. MembershipInv'
  BY MembershipStep DEF SharingInv
<1>2. PlansShared' /\ Sharers' /\ NoCopiesYet' /\ CopiedOnce'
  BY PlansSharedKept, SharersKept, CopiesKept
<1> QED
  BY <1>1, <1>2 DEF SharingInv

\* What the next two theorems rest on holds in every reachable state.
LEMMA SharingAlways == Spec => []SharingInv
  BY SharingInit, SharingStep, PTL DEF Spec

\* The owner of a plan never loses it: a live plan is personal, or shared in the
\* workspace its owner is a member of now.
THEOREM PlansReached == Spec => []OwnerReachesPlan
<1>1. SharingInv => OwnerReachesPlan
  BY DEF SharingInv, PlansShared, PlanShared, OwnerReachesPlan, Accessible
<1> QED
  BY <1>1, SharingAlways, PTL

\* Overlapping requests to dissolve a workspace give nobody a second copy.
THEOREM CopiesCorrect == Spec => []CopiedOnce
<1>1. SharingInv => CopiedOnce
  BY DEF SharingInv
<1> QED
  BY <1>1, SharingAlways, PTL

-----------------------------------------------------------------------------
(* The refinement of Couple *)

(***************************************************************************)
(* dissolve copies what it read for whom it read.  Whoever it read belongs *)
(* to the workspace, or it is gone, and then the write fails; a plan it    *)
(* read is still its owner's, and the owner belongs to the workspace.      *)
(***************************************************************************)
Dissolving == {"dissolvePlans", "dissolveWrite"}

DissolverOK(q) ==
    /\ q.pc \in Dissolving => \A u \in q.members : Belongs(u, q.ws)
    /\ q.pc = "dissolveWrite" => \A x \in q.plans : /\ plan[x[1]].status # "none"
                                                    /\ plan[x[1]].owner = x[2]
                                                    /\ Belongs(x[2], q.ws)

Dissolvers == \A r \in Requests : DissolverOK(req[r])

\* Only live plans are shared.
SharedLive == \A p \in Plans : plan[p].ws # None => plan[p].status = "live"

CoupleInv == SharingInv /\ Dissolvers /\ SharedLive

\* What holds of types and memberships in a state of CoupleInv.
LEMMA CoupleFacts ==
  ASSUME CoupleInv
  PROVE  /\ MembershipInv /\ TypeInv /\ RequestsOK /\ OwnersAreMembers /\ InvitesLive
         /\ Joins /\ PlansShared /\ Sharers /\ NoCopiesYet
         /\ req \in [Requests -> Request] /\ plan \in [Plans -> PlanRow]
         /\ inv \in [Invites -> InviteRow]
         /\ owner \in [Workspaces -> Users \union {None}]
         /\ member \in [Users -> Workspaces \union {None}]
         /\ copies \in [Workspaces -> [Plans -> [Users -> Nat]]]
         /\ None \notin Users /\ None \notin Workspaces
BY DEF CoupleInv, SharingInv, MembershipInv, TypeInv, RequestsOK, TablesOK, MembersOK, InvitesOK, PlansOK

\* A member of a workspace belongs to it.
LEMMA MemberBelongs ==
  ASSUME OwnersAreMembers, NEW u \in Users, NEW w \in Workspaces, member[u] = w
  PROVE  Belongs(u, w)
BY DEF OwnersAreMembers, Belongs

\* A request that ends or goes on does not take part in dissolving, unless it is
\* at one of the two reads of dissolve.
LEMMA DissolverMoves ==
  ASSUME TypeInv, [Next]_vars, NEW r \in Requests
  PROVE  \/ req'[r] = req[r]
         \/ req'[r].pc \notin Dissolving
         \/ \E u \in Users, w \in Workspaces : DissolveRead(r, u, w)
         \/ DissolvePlans(r)
<1> DEFINE Away == req'[r] = req[r] \/ req'[r].pc \notin Dissolving
<1>1. req \in [Requests -> Request]
  BY DEF TypeInv, RequestsOK
<1>2. CASE UNCHANGED req
  BY <1>2
<1>3. ASSUME NEW x \in Requests,
             \/ JoinWrite(x) \/ ShareWrite(x) \/ DeleteWrite(x) \/ DissolveWrite(x) \/ Fail(x)
             \/ \E w \in Workspaces : CreateWrite(x, w)
             \/ \E i \in Invites : InviteWrite(x, i)
             \/ \E p \in Plans : NewPlanWrite(x, p)
      PROVE  Away
  <2>1. End(x)
    BY <1>3 DEF JoinWrite, ShareWrite, DeleteWrite, DissolveWrite, Fail, CreateWrite,
                InviteWrite, NewPlanWrite
  <2>2. Idle.pc = "idle"
    BY DEF Idle
  <2> QED
    BY <1>1, <2>1, <2>2 DEF End, Dissolving
<1>4. ASSUME NEW x \in Requests,
             CreateCheck(x) \/ InviteCheck(x) \/ JoinPaid(x) \/ JoinCheck(x) \/ ShareCheck(x)
      PROVE  Away
  <2>1. \E pc \in {"createWrite", "inviteWrite", "joinCheck", "joinWrite", "shareWrite"} :
          \/ req' = [req EXCEPT ![x].pc = pc]
          \/ \E ws : req' = [req EXCEPT ![x].pc = pc, ![x].ws = ws]
    BY <1>4 DEF CreateCheck, InviteCheck, JoinPaid, JoinCheck, ShareCheck, Goto
  <2> QED
    BY <1>1, <2>1 DEF Request, Dissolving
<1>5. ASSUME NEW x \in Requests, NEW u \in Users,
             \/ CreatePaid(x, u) \/ NewPlanCheck(x, u)
             \/ \E i \in Invites : JoinRead(x, u, i)
             \/ \E p \in Plans : ShareRead(x, u, p) \/ DeleteRead(x, u, p)
             \/ \E w \in Workspaces, to \in Users : InvitePaid(x, u, w, to)
      PROVE  Away
  <2> DEFINE Begun == \E q : q.pc \notin Dissolving /\ req' = [req EXCEPT ![x] = q]
  <2>1. Begun
    <3>1. CASE CreatePaid(x, u)
      BY <3>1 DEF CreatePaid, Begin, Idle, Dissolving
    <3>2. CASE NewPlanCheck(x, u)
      BY <3>2 DEF NewPlanCheck, Begin, Idle, Dissolving
    <3>3. ASSUME NEW i \in Invites, JoinRead(x, u, i) PROVE Begun
      BY <3>3 DEF JoinRead, Begin, Idle, Dissolving
    <3>4. ASSUME NEW p \in Plans, ShareRead(x, u, p) PROVE Begun
      BY <3>4 DEF ShareRead, Begin, Idle, Dissolving
    <3>5. ASSUME NEW p \in Plans, DeleteRead(x, u, p) PROVE Begun
      BY <3>5 DEF DeleteRead, Begin, Idle, Dissolving
    <3>6. ASSUME NEW w \in Workspaces, NEW to \in Users, InvitePaid(x, u, w, to) PROVE Begun
      BY <3>6 DEF InvitePaid, Begin, Idle, Dissolving
    <3> QED
      BY <1>5, <3>1, <3>2, <3>3, <3>4, <3>5, <3>6
  <2> QED
    BY <1>1, <2>1
<1>6. ASSUME NEW x \in Requests, NEW u \in Users, NEW w \in Workspaces, DissolveRead(x, u, w)
      PROVE  x = r \/ req'[r] = req[r]
  BY <1>1, <1>6 DEF DissolveRead, Begin
<1>7. ASSUME NEW x \in Requests, DissolvePlans(x) PROVE x = r \/ req'[r] = req[r]
  BY <1>1, <1>7 DEF DissolvePlans
<1>8. ASSUME NEW u \in Users, AccessChanges(u) \/ \E p \in Plans : NewPersonalPlan(u, p)
      PROVE  UNCHANGED req
  BY <1>8 DEF AccessChanges, NewPersonalPlan
<1>9. ASSUME NEW i \in Invites, ExpireInvite(i) PROVE UNCHANGED req
  BY <1>9 DEF ExpireInvite
<1>10. CASE UNCHANGED vars
  BY <1>10 DEF vars
<1> QED
  BY <1>2, <1>3, <1>4, <1>5, <1>6, <1>7, <1>8, <1>9, <1>10 DEF Next

\* A dissolve in flight keeps what it relies on.
LEMMA DissolversKept == CoupleInv /\ [Next]_vars => Dissolvers'
<1> SUFFICES ASSUME CoupleInv, [Next]_vars, NEW r \in Requests PROVE DissolverOK(req[r])'
  BY DEF Dissolvers
<1>1. /\ MembershipInv /\ TypeInv /\ OwnersAreMembers /\ PlansShared
      /\ req \in [Requests -> Request] /\ plan \in [Plans -> PlanRow]
      /\ None \notin Users /\ None \notin Workspaces
  BY CoupleFacts
<1>2. req[r] \in Request /\ Carries(req[r]) /\ DissolverOK(req[r]) /\ SharedLive
  BY <1>1 DEF CoupleInv, Dissolvers, TypeInv, RequestsOK
<1>3. CASE req'[r] = req[r]
  <2>0. PICK q \in Request : q = req[r]
    BY <1>2
  <2>1. \A u \in Users, w \in Workspaces : Belongs(u, w) => Belongs(u, w)'
    BY <1>1, BelongsKept
  <2>2. q.members \subseteq Users /\ q.plans \subseteq Plans \X Users
        /\ (q.pc \in Dissolving => q.ws \in Workspaces)
    BY <1>2, <2>0 DEF Request, Carries, Dissolving
  <2>3. q.pc \in Dissolving => \A u \in q.members : Belongs(u, q.ws)'
    BY <1>2, <2>0, <2>1, <2>2 DEF DissolverOK
  <2>4. ASSUME q.pc = "dissolveWrite", NEW x \in q.plans
        PROVE  plan'[x[1]].status # "none" /\ plan'[x[1]].owner = x[2] /\ Belongs(x[2], q.ws)'
    <3>1. x[1] \in Plans /\ x[2] \in Users /\ q.ws \in Workspaces
      BY <2>2, <2>4 DEF Dissolving
    <3>2. plan[x[1]].status # "none" /\ plan[x[1]].owner = x[2] /\ Belongs(x[2], q.ws)
      BY <1>2, <2>0, <2>4 DEF DissolverOK
    <3> QED
      BY <1>1, <2>1, <3>1, <3>2, PlanOwnerKept
  <2>5. req'[r] = q
    BY <1>3, <2>0
  <2> QED
    BY <2>3, <2>4, <2>5 DEF DissolverOK, Belongs
<1>4. CASE req'[r].pc \notin Dissolving
  BY <1>4 DEF DissolverOK, Dissolving
<1>5. ASSUME NEW u \in Users, NEW w \in Workspaces, DissolveRead(r, u, w)
      PROVE  DissolverOK(req[r])'
  <2>1. /\ req'[r] = [Idle EXCEPT !.pc = "dissolvePlans", !.user = u, !.ws = w,
                                  !.members = Members(w)]
        /\ UNCHANGED <<owner, dissolved, member>>
    BY <1>1, <1>5 DEF DissolveRead, Begin
  <2>2. req'[r].pc = "dissolvePlans" /\ req'[r].ws = w /\ req'[r].members = Members(w)
    BY <2>1 DEF Idle
  <2>3. \A v \in Members(w) : Belongs(v, w)
    BY <1>1, MemberBelongs DEF Members
  <2> QED
    BY <2>1, <2>2, <2>3 DEF DissolverOK, Belongs
<1>6. CASE DissolvePlans(r)
  <2> DEFINE read == {x \in Plans \X Users : plan[x[1]].ws = req[r].ws /\ plan[x[1]].owner = x[2]}
  <2>1. /\ req'[r] = [req[r] EXCEPT !.pc = "dissolveWrite", !.plans = read]
        /\ req[r].pc = "dissolvePlans" /\ UNCHANGED <<owner, dissolved, member, plan>>
    BY <1>1, <1>6 DEF DissolvePlans
  <2> HIDE DEF read
  <2>2. /\ req'[r].pc = "dissolveWrite" /\ req'[r].ws = req[r].ws
        /\ req'[r].members = req[r].members /\ req'[r].plans = read
    BY <1>2, <2>1 DEF Request
  <2>3. req[r].ws \in Workspaces /\ \A u \in req[r].members : Belongs(u, req[r].ws)
    BY <1>2, <2>1 DEF Carries, DissolverOK, Dissolving
  <2>4. ASSUME NEW x \in read
        PROVE  plan[x[1]].status # "none" /\ plan[x[1]].owner = x[2] /\ Belongs(x[2], req[r].ws)
    <3>1. /\ x[1] \in Plans /\ x[2] \in Users
          /\ plan[x[1]].ws = req[r].ws /\ plan[x[1]].owner = x[2]
      BY DEF read
    <3>2. plan[x[1]].status = "live"
      BY <1>1, <1>2, <2>3, <3>1 DEF SharedLive
    <3>3. member[x[2]] = req[r].ws
      BY <1>1, <2>3, <3>1, <3>2 DEF PlansShared, PlanShared
    <3> QED
      BY <1>1, <2>3, <3>1, <3>2, <3>3, MemberBelongs
  <2> QED
    BY <2>1, <2>2, <2>3, <2>4 DEF DissolverOK, Belongs
<1> QED
  BY <1>1, <1>3, <1>4, <1>5, <1>6, DissolverMoves

\* A plan is shared while it is live, and deleting takes it out.
LEMMA SharedLiveKept == CoupleInv /\ [Next]_vars => SharedLive'
<1> SUFFICES ASSUME CoupleInv, [Next]_vars, NEW p \in Plans PROVE plan'[p].ws # None => plan'[p].status = "live"
  BY DEF SharedLive
<1>1. plan \in [Plans -> PlanRow] /\ RequestsOK /\ (plan[p].ws # None => plan[p].status = "live")
  BY CoupleFacts DEF CoupleInv, SharedLive
<1>2. ASSUME NEW u \in Users, NEW x \in Plans, NewPersonalPlan(u, x)
      PROVE  plan'[p].ws # None => plan'[p].status = "live"
  BY <1>1, <1>2 DEF NewPersonalPlan
<1>3. ASSUME NEW r \in Requests, NEW x \in Plans, NewPlanWrite(r, x)
      PROVE  plan'[p].ws # None => plan'[p].status = "live"
  BY <1>1, <1>3 DEF NewPlanWrite
<1>4. ASSUME NEW r \in Requests, ShareWrite(r)
      PROVE  plan'[p].ws # None => plan'[p].status = "live"
  BY <1>1, <1>4 DEF ShareWrite, PlanRow
<1>5. ASSUME NEW r \in Requests, DeleteWrite(r)
      PROVE  plan'[p].ws # None => plan'[p].status = "live"
  BY <1>1, <1>5 DEF DeleteWrite, PlanRow
<1>6. ASSUME NEW r \in Requests, DissolveWrite(r)
      PROVE  plan'[p].ws # None => plan'[p].status = "live"
  BY <1>1, <1>6 DEF DissolveWrite, PlanRow
<1>7. CASE UNCHANGED plan
  BY <1>1, <1>7
<1> QED
  BY <1>2, <1>3, <1>4, <1>5, <1>6, <1>7, PlanMoves

\* What the refinement rests on holds in every reachable state.
LEMMA CoupleAlways == Spec => []CoupleInv
<1>1. Init => CoupleInv
  <2> SUFFICES ASSUME Init PROVE CoupleInv
    OBVIOUS
  <2>1. Dissolvers /\ SharedLive
    BY DEF Init, Dissolvers, DissolverOK, Idle, Dissolving, SharedLive, NoPlan
  <2> QED
    BY <2>1, SharingInit DEF CoupleInv
<1>2. SharingInv /\ [Next]_vars => SharingInv'
  BY SharingStep
<1>3. CoupleInv /\ [Next]_vars => CoupleInv'
  BY <1>2, DissolversKept, SharedLiveKept DEF CoupleInv
<1> QED
  BY <1>1, <1>3, PTL DEF Spec

\* create is Found.
LEMMA FoundMap ==
  ASSUME CoupleInv, NEW r \in Requests, NEW w \in Workspaces, CreateWrite(r, w)
  PROVE  C!Next
<1>1. req[r].user \in Users
  BY CoupleFacts DEF CreateWrite, RequestsOK, Carries
<1>2. Invited' = Invited
  BY DEF CreateWrite, Invited
<1>3. C!Found(req[r].user, w)
  BY <1>2 DEF CreateWrite, C!Found
<1> QED
  BY <1>1, <1>3 DEF C!Next

\* invite is Invite.
LEMMA InviteMap ==
  ASSUME CoupleInv, NEW r \in Requests, NEW i \in Invites, InviteWrite(r, i)
  PROVE  C!Next
<1> DEFINE w == req[r].ws
           u == req[r].to
<1>1. w \in Workspaces /\ u \in Users /\ inv \in [Invites -> InviteRow]
  BY CoupleFacts DEF InviteWrite, RequestsOK, Carries
<1>2. /\ owner[w] # None /\ inv[i].status = "none"
      /\ inv' = [inv EXCEPT ![i] = [ws |-> w, to |-> u, status |-> "pending", expired |-> FALSE]]
      /\ UNCHANGED <<owner, dissolved, member, plan, copies>>
  BY DEF InviteWrite
<1> HIDE DEF w, u
<1>3. inv'[i].status = "pending" /\ inv'[i].ws = w /\ inv'[i].to = u
  BY <1>1, <1>2
<1>4. \A j \in Invites \ {i} : inv'[j] = inv[j]
  BY <1>1, <1>2
<1>5. ASSUME NEW v \in Workspaces, NEW x \in Users
      PROVE  <<v, x>> \in Invited' <=> <<v, x>> \in Invited \/ <<v, x>> = <<w, u>>
  <2>1. <<v, x>> \in Invited'
          <=> \E j \in Invites : inv'[j].status # "none" /\ inv'[j].ws = v /\ inv'[j].to = x
    BY DEF Invited
  <2>2. <<v, x>> \in Invited
          <=> \E j \in Invites : inv[j].status # "none" /\ inv[j].ws = v /\ inv[j].to = x
    BY DEF Invited
  <2> QED
    BY <1>2, <1>3, <1>4, <2>1, <2>2
<1>6. Invited' = Invited \union {<<w, u>>}
  <2>1. Invited \subseteq Workspaces \X Users /\ Invited' \subseteq Workspaces \X Users
    BY DEF Invited
  <2> QED
    BY <1>1, <1>5, <2>1
<1>7. C!Invite(w, u)
  BY <1>2, <1>6 DEF C!Invite
<1> QED
  BY <1>1, <1>7 DEF C!Next

\* What join needs of Couple: invitations keep what they say.
LEMMA InvitedSame ==
  ASSUME \A j \in Invites : /\ inv'[j].ws = inv[j].ws /\ inv'[j].to = inv[j].to
                            /\ inv'[j].status # "none" <=> inv[j].status # "none"
  PROVE  Invited' = Invited
<1>1. \A v \in Workspaces, x \in Users :
        (\E j \in Invites : inv'[j].status # "none" /\ inv'[j].ws = v /\ inv'[j].to = x)
          <=> (\E j \in Invites : inv[j].status # "none" /\ inv[j].ws = v /\ inv[j].to = x)
  OBVIOUS
<1> QED
  BY <1>1 DEF Invited

\* join is Join.
LEMMA JoinMap ==
  ASSUME CoupleInv, NEW r \in Requests, JoinWrite(r)
  PROVE  C!Next
<1> DEFINE u == req[r].user
           w == req[r].ws
           i == req[r].inv
<1>1. u \in Users /\ w \in Workspaces /\ i \in Invites /\ inv \in [Invites -> InviteRow]
  BY CoupleFacts DEF JoinWrite, RequestsOK, Carries
<1>2. /\ member[u] = None /\ owner[w] # None /\ inv[i].status # "none"
      /\ member' = [member EXCEPT ![u] = w]
      /\ inv' = [inv EXCEPT ![i].status = "accepted"]
      /\ UNCHANGED <<owner, dissolved, plan, copies>>
  BY DEF JoinWrite
<1>3. inv[i].ws = w /\ inv[i].to = u
  BY CoupleFacts DEF JoinWrite, Joins, JoinOK, Joining
<1> HIDE DEF u, w, i
<1>4. <<w, u>> \in Invited
  BY <1>1, <1>2, <1>3 DEF Invited
<1>5. Invited' = Invited
  <2>1. \A j \in Invites : /\ inv'[j].ws = inv[j].ws /\ inv'[j].to = inv[j].to
                           /\ inv'[j].status # "none" <=> inv[j].status # "none"
    BY <1>1, <1>2 DEF InviteRow
  <2> QED
    BY <2>1, InvitedSame
<1>6. C!Join(u, w)
  BY <1>2, <1>4, <1>5 DEF C!Join
<1> QED
  BY <1>1, <1>6 DEF C!Next

\* generate and saveDraft are Make: a personal plan, or one for the workspace that
\* its author belongs to when it is written.
LEMMA MakeMap ==
  ASSUME CoupleInv, NEW p \in Plans,
         (\E u \in Users : NewPersonalPlan(u, p)) \/ \E r \in Requests : NewPlanWrite(r, p)
  PROVE  C!Next
<1>1. Invited' = Invited
  BY DEF NewPersonalPlan, NewPlanWrite, Invited
<1>2. ASSUME NEW u \in Users, NewPersonalPlan(u, p) PROVE C!Next
  <2>1. C!Make(u, p, None)
    BY <1>1, <1>2 DEF NewPersonalPlan, C!Make
  <2> QED
    BY <2>1 DEF C!Next
<1>3. ASSUME NEW r \in Requests, NewPlanWrite(r, p) PROVE C!Next
  <2>1. /\ req[r].user \in Users /\ req[r].ws \in Workspaces
        /\ member[req[r].user] = req[r].ws
    BY <1>3, CoupleFacts DEF NewPlanWrite, Sharers, SharerOK, Belongs, RequestsOK, Carries
  <2>2. C!Make(req[r].user, p, req[r].ws)
    BY <1>1, <1>3, <2>1 DEF NewPlanWrite, C!Make
  <2> QED
    BY <2>1, <2>2 DEF C!Next
<1> QED
  BY <1>2, <1>3

\* share is Share, delete is Delete.
LEMMA ShareMap ==
  ASSUME CoupleInv, NEW r \in Requests, ShareWrite(r) \/ DeleteWrite(r)
  PROVE  C!Next
<1>1. Invited' = Invited
  BY DEF ShareWrite, DeleteWrite, Invited
<1>2. CASE ShareWrite(r)
  <2>1. /\ req[r].plan \in Plans /\ req[r].ws # None
        /\ member[req[r].user] = req[r].ws /\ plan[req[r].plan].owner = req[r].user
    BY <1>2, CoupleFacts DEF ShareWrite, Sharers, SharerOK, Belongs, Sharing, RequestsOK, Carries
  <2>2. C!Share(req[r].plan)
    BY <1>1, <1>2, <2>1 DEF ShareWrite, C!Share
  <2> QED
    BY <2>1, <2>2 DEF C!Next
<1>3. CASE DeleteWrite(r)
  <2>1. req[r].plan \in Plans
    BY <1>3, CoupleFacts DEF DeleteWrite, RequestsOK, Carries
  <2>2. C!Delete(req[r].plan)
    BY <1>1, <1>3 DEF DeleteWrite, C!Delete
  <2> QED
    BY <2>1, <2>2 DEF C!Next
<1> QED
  BY <1>2, <1>3

\* dissolve is Part: nobody is given a copy but members, of other members' plans.
LEMMA PartMap ==
  ASSUME CoupleInv, NEW r \in Requests, DissolveWrite(r)
  PROVE  C!Next
<1> DEFINE q == req[r]
           w == q.ws
           G == {g \in Plans \X Users : g[2] \in q.members
                                        /\ \E v \in Users \ {g[2]} : <<g[1], v>> \in q.plans}
<1>1. /\ w \in Workspaces /\ owner[w] # None /\ q.pc = "dissolveWrite" /\ q \in Request
      /\ plan \in [Plans -> PlanRow] /\ copies \in [Workspaces -> [Plans -> [Users -> Nat]]]
  BY CoupleFacts DEF DissolveWrite, RequestsOK, Carries
<1>2. /\ copies' = CopiesAfter(q)
      /\ plan' = [p \in Plans |-> IF plan[p].ws = w THEN [plan[p] EXCEPT !.ws = None] ELSE plan[p]]
      /\ owner' = [owner EXCEPT ![w] = None] /\ dissolved' = dissolved \union {w}
      /\ member' = [u \in Users |-> IF member[u] = w THEN None ELSE member[u]]
      /\ inv' = [i \in Invites |-> IF inv[i].ws = w THEN NoInvite ELSE inv[i]]
  BY DEF DissolveWrite
<1>3. DissolverOK(q)
  BY DEF CoupleInv, Dissolvers
<1>4. \A g \in G : C!Gift(w, g[1], g[2])
  <2> SUFFICES ASSUME NEW g \in G PROVE C!Gift(w, g[1], g[2])
    OBVIOUS
  <2>1. g[2] \in q.members /\ \E v \in Users \ {g[2]} : <<g[1], v>> \in q.plans
    OBVIOUS
  <2>2. PICK v \in Users \ {g[2]} : <<g[1], v>> \in q.plans
    BY <2>1
  <2>3. Belongs(g[2], w)
    BY <1>1, <1>3, <2>1 DEF DissolverOK, Dissolving
  <2>4. plan[g[1]].status # "none" /\ plan[g[1]].owner = v /\ Belongs(v, w)
    <3>1. \A x \in q.plans : /\ plan[x[1]].status # "none" /\ plan[x[1]].owner = x[2]
                             /\ Belongs(x[2], q.ws)
      BY <1>1, <1>3 DEF DissolverOK
    <3> QED
      BY <2>2, <3>1
  <2>5. member[g[2]] = w /\ member[v] = w
    BY <1>1, <2>3, <2>4 DEF Belongs
  <2> QED
    BY <2>2, <2>4, <2>5 DEF C!Gift
<1>5. copies' = [copies EXCEPT ![w] = [p \in Plans |-> [u \in Users |-> IF <<p, u>> \in G THEN 1 ELSE 0]]]
  <2>1. \A p \in Plans, u \in Users : copies[w][p][u] = 0
    BY <1>1, CoupleFacts DEF NoCopiesYet, OwnersAreMembers
  <2>2. \A p \in Plans, u \in Users :
          <<p, u>> \in G <=> u \in q.members /\ \E v \in Users \ {u} : <<p, v>> \in q.plans
    OBVIOUS
  <2>3. copies' = [copies EXCEPT ![w] = [p \in Plans |-> [u \in Users |->
           copies[w][p][u] + IF u \in q.members /\ \E v \in Users \ {u} : <<p, v>> \in q.plans
                             THEN 1 ELSE 0]]]
    BY <1>1, <1>2 DEF CopiesAfter
  <2> DEFINE given(p, u) == IF u \in q.members /\ \E v \in Users \ {u} : <<p, v>> \in q.plans
                            THEN 1 ELSE 0
             listed(p, u) == IF <<p, u>> \in G THEN 1 ELSE 0
  <2>4. \A p \in Plans, u \in Users : given(p, u) \in Nat /\ given(p, u) = listed(p, u)
    BY <2>2
  <2>5. copies' = [copies EXCEPT ![w] = [p \in Plans |-> [u \in Users |-> copies[w][p][u] + given(p, u)]]]
    BY <2>3
  <2> HIDE DEF given, listed, G
  <2>6. \A p \in Plans, u \in Users : copies[w][p][u] + given(p, u) = listed(p, u)
    BY <2>1, <2>4
  <2>7. copies' = [copies EXCEPT ![w] = [p \in Plans |-> [u \in Users |-> listed(p, u)]]]
    BY <2>5, <2>6
  <2> QED
    BY <2>7 DEF listed
<1>6. Invited' = {x \in Invited : x[1] # w}
  <2>1. \A j \in Invites : /\ inv'[j].status # "none" <=> inv[j].status # "none" /\ inv[j].ws # w
                           /\ inv'[j].status # "none" => inv'[j] = inv[j]
    BY <1>2 DEF NoInvite
  <2>2. ASSUME NEW v \in Workspaces, NEW x \in Users
        PROVE  (\E j \in Invites : inv'[j].status # "none" /\ inv'[j].ws = v /\ inv'[j].to = x)
                 <=> v # w /\ \E j \in Invites : inv[j].status # "none" /\ inv[j].ws = v /\ inv[j].to = x
    BY <2>1
  <2> QED
    BY <2>2 DEF Invited
<1> HIDE DEF G
<1>7. C!Part(w, G)
  BY <1>1, <1>2, <1>4, <1>5, <1>6 DEF C!Part
<1>8. G \in SUBSET (Plans \X Users)
  BY DEF G
<1> QED
  BY <1>1, <1>7, <1>8 DEF C!Next

\* An invitation that expires, and every read and check, is nothing to Couple.
LEMMA NothingMap ==
  ASSUME TypeInv, UNCHANGED <<owner, dissolved, member, plan, copies>>,
         UNCHANGED inv \/ \E i \in Invites : ExpireInvite(i)
  PROVE  UNCHANGED C!vars
<1>1. Invited' = Invited
  <2>1. CASE UNCHANGED inv
    BY <2>1 DEF Invited
  <2>2. ASSUME NEW i \in Invites, ExpireInvite(i) PROVE Invited' = Invited
    <3>1. inv \in [Invites -> InviteRow] /\ inv' = [inv EXCEPT ![i].expired = TRUE]
      BY <2>2 DEF ExpireInvite, TypeInv, TablesOK, InvitesOK
    <3>2. \A j \in Invites : /\ inv'[j].ws = inv[j].ws /\ inv'[j].to = inv[j].to
                             /\ inv'[j].status # "none" <=> inv[j].status # "none"
      BY <3>1 DEF InviteRow
    <3> QED
      BY <3>2, InvitedSame
  <2> QED
    BY <2>1, <2>2
<1> QED
  BY <1>1 DEF C!vars

\* Every step of the workspace is one of Couple, or nothing to it.
LEMMA CoupleStep ==
  ASSUME CoupleInv, [Next]_vars
  PROVE  [C!Next]_(C!vars)
<1>1. TypeInv
  BY CoupleFacts
<1>2. ASSUME UNCHANGED <<owner, dissolved, member, plan, copies>>,
             UNCHANGED inv \/ \E i \in Invites : ExpireInvite(i)
      PROVE  [C!Next]_(C!vars)
  BY <1>1, <1>2, NothingMap
<1>3. ASSUME NEW u \in Users, AccessChanges(u) PROVE [C!Next]_(C!vars)
  BY <1>2, <1>3 DEF AccessChanges
<1>4. ASSUME NEW i \in Invites, ExpireInvite(i) PROVE [C!Next]_(C!vars)
  BY <1>2, <1>4 DEF ExpireInvite
<1>5. ASSUME NEW p \in Plans, (\E u \in Users : NewPersonalPlan(u, p)) \/ \E r \in Requests : NewPlanWrite(r, p)
      PROVE  C!Next
  BY <1>5, MakeMap
<1>6. ASSUME NEW r \in Requests, ShareWrite(r) \/ DeleteWrite(r) PROVE C!Next
  BY <1>6, ShareMap
<1>7. ASSUME NEW r \in Requests, JoinWrite(r) PROVE C!Next
  BY <1>7, JoinMap
<1>8. ASSUME NEW r \in Requests, DissolveWrite(r) PROVE C!Next
  BY <1>8, PartMap
<1>9. ASSUME NEW r \in Requests, NEW w \in Workspaces, CreateWrite(r, w) PROVE C!Next
  BY <1>9, FoundMap
<1>10. ASSUME NEW r \in Requests, NEW i \in Invites, InviteWrite(r, i) PROVE C!Next
  BY <1>10, InviteMap
<1>11. ASSUME NEW r \in Requests,
              \/ CreateCheck(r) \/ InviteCheck(r) \/ JoinPaid(r) \/ JoinCheck(r) \/ ShareCheck(r)
              \/ DissolvePlans(r) \/ Fail(r)
       PROVE  [C!Next]_(C!vars)
  BY <1>2, <1>11 DEF CreateCheck, InviteCheck, JoinPaid, JoinCheck, ShareCheck, DissolvePlans, Fail
<1>12. ASSUME NEW r \in Requests, NEW u \in Users,
              \/ CreatePaid(r, u) \/ NewPlanCheck(r, u)
              \/ \E i \in Invites : JoinRead(r, u, i)
              \/ \E p \in Plans : ShareRead(r, u, p) \/ DeleteRead(r, u, p)
              \/ \E w \in Workspaces : \/ DissolveRead(r, u, w)
                                       \/ \E to \in Users : InvitePaid(r, u, w, to)
       PROVE  [C!Next]_(C!vars)
  BY <1>2, <1>12 DEF CreatePaid, NewPlanCheck, JoinRead, ShareRead, DeleteRead, DissolveRead, InvitePaid
<1>13. CASE UNCHANGED vars
  BY <1>2, <1>13 DEF vars
<1> QED
  BY <1>3, <1>4, <1>5, <1>6, <1>7, <1>8, <1>9, <1>10, <1>11, <1>12, <1>13 DEF Next

\* Couples: the workspace, whose operations are chains of queries that overlap,
\* implements Couple, whose operations are single steps.
THEOREM CouplesCorrect == Spec => Couples
<1>1. Init => C!Init
  <2> SUFFICES ASSUME Init PROVE C!Init
    OBVIOUS
  <2>1. Invited = {}
    BY DEF Init, Invited, NoInvite
  <2> QED
    BY <2>1 DEF Init, C!Init, NoPlan
<1>2. CoupleInv /\ [Next]_vars => [C!Next]_(C!vars)
  BY CoupleStep
<1> QED
  BY <1>1, <1>2, CoupleAlways, PTL DEF Spec, Couples, C!Spec

-----------------------------------------------------------------------------
(* The member limit *)

(***************************************************************************)
(* A join judges the room by the members it read first, so that every join *)
(* in flight that found room may still add a member.  Each of them counts  *)
(* as one: a join that reads finds the workspace with room, and there are  *)
(* no more joins than requests.                                            *)
(***************************************************************************)
FoundRoom(w) ==
    {r \in Requests : req[r].pc \in Joining /\ req[r].ws = w /\ Cardinality(req[r].members) < Limit}

Checked == \A r \in Requests : req[r].pc = "joinWrite" => Cardinality(req[r].members) < Limit

RoomLeft ==
    \A w \in Workspaces :
        /\ IsFiniteSet(Members(w))
        /\ Cardinality(Members(w)) + Cardinality(FoundRoom(w)) <= Limit - 1 + Cardinality(Requests)

RoomInv == MembershipInv /\ Checked /\ RoomLeft

\* What the requests in flight are to the limit: finitely many.
LEMMA RoomCounts ==
  ASSUME NEW S \in SUBSET Requests
  PROVE  /\ IsFiniteSet(S) /\ Cardinality(S) \in Nat /\ Cardinality(Requests) \in Nat
         /\ Cardinality(S) <= Cardinality(Requests)
BY RequestsAssumption, FS_Subset, FS_CardinalityType

\* A request that found room joins no other workspace, and only the read of join
\* lets it find room.
LEMMA JoinMoves ==
  ASSUME TypeInv, [Next]_vars, NEW r \in Requests
  PROVE  \/ req'[r] = req[r]
         \/ req'[r].pc \notin Joining
         \/ \E u \in Users, i \in Invites : JoinRead(r, u, i)
         \/ JoinPaid(r) \/ JoinCheck(r)
<1> DEFINE Away == req'[r] = req[r] \/ req'[r].pc \notin Joining
<1>1. req \in [Requests -> Request]
  BY DEF TypeInv, RequestsOK
<1>2. CASE UNCHANGED req
  BY <1>2
<1>3. ASSUME NEW x \in Requests,
             \/ JoinWrite(x) \/ ShareWrite(x) \/ DeleteWrite(x) \/ DissolveWrite(x) \/ Fail(x)
             \/ \E w \in Workspaces : CreateWrite(x, w)
             \/ \E i \in Invites : InviteWrite(x, i)
             \/ \E p \in Plans : NewPlanWrite(x, p)
      PROVE  Away
  <2>1. End(x)
    BY <1>3 DEF JoinWrite, ShareWrite, DeleteWrite, DissolveWrite, Fail, CreateWrite,
                InviteWrite, NewPlanWrite
  <2>2. Idle.pc = "idle"
    BY DEF Idle
  <2> QED
    BY <1>1, <2>1, <2>2 DEF End, Joining
<1>4. ASSUME NEW x \in Requests,
             CreateCheck(x) \/ InviteCheck(x) \/ ShareCheck(x) \/ DissolvePlans(x)
      PROVE  Away
  <2>1. \E pc \in {"createWrite", "inviteWrite", "shareWrite", "dissolveWrite"} :
          \/ req' = [req EXCEPT ![x].pc = pc]
          \/ \E ws : req' = [req EXCEPT ![x].pc = pc, ![x].ws = ws]
          \/ \E plans : req' = [req EXCEPT ![x].pc = pc, ![x].plans = plans]
    BY <1>4 DEF CreateCheck, InviteCheck, ShareCheck, DissolvePlans, Goto
  <2> QED
    BY <1>1, <2>1 DEF Request, Joining
<1>5. ASSUME NEW x \in Requests, NEW u \in Users,
             \/ CreatePaid(x, u) \/ NewPlanCheck(x, u)
             \/ \E p \in Plans : ShareRead(x, u, p) \/ DeleteRead(x, u, p)
             \/ \E w \in Workspaces : \/ DissolveRead(x, u, w)
                                      \/ \E to \in Users : InvitePaid(x, u, w, to)
      PROVE  Away
  <2> DEFINE Begun == \E q : q.pc \notin Joining /\ req' = [req EXCEPT ![x] = q]
  <2>1. Begun
    <3>1. CASE CreatePaid(x, u)
      BY <3>1 DEF CreatePaid, Begin, Idle, Joining
    <3>2. CASE NewPlanCheck(x, u)
      BY <3>2 DEF NewPlanCheck, Begin, Idle, Joining
    <3>3. ASSUME NEW w \in Workspaces, DissolveRead(x, u, w) PROVE Begun
      BY <3>3 DEF DissolveRead, Begin, Idle, Joining
    <3>4. ASSUME NEW p \in Plans, ShareRead(x, u, p) PROVE Begun
      BY <3>4 DEF ShareRead, Begin, Idle, Joining
    <3>5. ASSUME NEW p \in Plans, DeleteRead(x, u, p) PROVE Begun
      BY <3>5 DEF DeleteRead, Begin, Idle, Joining
    <3>6. ASSUME NEW w \in Workspaces, NEW to \in Users, InvitePaid(x, u, w, to) PROVE Begun
      BY <3>6 DEF InvitePaid, Begin, Idle, Joining
    <3> QED
      BY <1>5, <3>1, <3>2, <3>3, <3>4, <3>5, <3>6
  <2> QED
    BY <1>1, <2>1
<1>6. ASSUME NEW x \in Requests, NEW u \in Users, NEW i \in Invites, JoinRead(x, u, i)
      PROVE  x = r \/ req'[r] = req[r]
  BY <1>1, <1>6 DEF JoinRead, Begin
<1>7. ASSUME NEW x \in Requests, JoinPaid(x) \/ JoinCheck(x) PROVE x = r \/ req'[r] = req[r]
  BY <1>1, <1>7 DEF JoinPaid, JoinCheck, Goto
<1>8. ASSUME NEW u \in Users, AccessChanges(u) \/ \E p \in Plans : NewPersonalPlan(u, p)
      PROVE  UNCHANGED req
  BY <1>8 DEF AccessChanges, NewPersonalPlan
<1>9. ASSUME NEW i \in Invites, ExpireInvite(i) PROVE UNCHANGED req
  BY <1>9 DEF ExpireInvite
<1>10. CASE UNCHANGED vars
  BY <1>10 DEF vars
<1> QED
  BY <1>2, <1>3, <1>4, <1>5, <1>6, <1>7, <1>8, <1>9, <1>10 DEF Next

\* Whoever is about to write a membership found room.
LEMMA CheckedKept == RoomInv /\ [Next]_vars => Checked'
<1> SUFFICES ASSUME RoomInv, [Next]_vars, NEW r \in Requests, req'[r].pc = "joinWrite"
             PROVE  Cardinality(req'[r].members) < Limit
  BY DEF Checked
<1>1. TypeInv /\ req[r] \in Request /\ req \in [Requests -> Request]
      /\ (req[r].pc = "joinWrite" => Cardinality(req[r].members) < Limit)
  BY DEF RoomInv, MembershipInv, TypeInv, RequestsOK, Checked
<1>2. CASE req'[r] = req[r]
  BY <1>1, <1>2
<1>3. ASSUME NEW u \in Users, NEW i \in Invites, JoinRead(r, u, i) PROVE FALSE
  BY <1>1, <1>3 DEF JoinRead, Begin, Idle
<1>4. CASE JoinPaid(r)
  BY <1>1, <1>4 DEF JoinPaid, Goto, Request
<1>5. CASE JoinCheck(r)
  BY <1>1, <1>5 DEF JoinCheck, Goto, Request
<1> QED
  BY <1>1, <1>2, <1>3, <1>4, <1>5, JoinMoves DEF Joining

\* Only the read of join lets a request find room, when there is room.
LEMMA FoundRoomMoves ==
  ASSUME RoomInv, [Next]_vars, NEW w \in Workspaces
  PROVE  \/ FoundRoom(w)' \subseteq FoundRoom(w)
         \/ UNCHANGED member /\ Cardinality(Members(w)) < Limit
<1> SUFFICES ASSUME NEW r \in Requests, r \in FoundRoom(w)', r \notin FoundRoom(w)
             PROVE  UNCHANGED member /\ Cardinality(Members(w)) < Limit
  BY DEF FoundRoom
<1>1. TypeInv /\ req[r] \in Request /\ req \in [Requests -> Request]
  BY DEF RoomInv, MembershipInv, TypeInv, RequestsOK
<1>2. req'[r].pc \in Joining /\ req'[r].ws = w /\ Cardinality(req'[r].members) < Limit
  BY DEF FoundRoom
<1>3. req'[r] # req[r]
  BY <1>2 DEF FoundRoom
<1>4. ASSUME JoinPaid(r) \/ JoinCheck(r) PROVE FALSE
  <2>1. /\ req[r].pc \in Joining
        /\ req'[r].ws = req[r].ws /\ req'[r].members = req[r].members
    BY <1>1, <1>4 DEF JoinPaid, JoinCheck, Goto, Request, Joining
  <2> QED
    BY <1>2, <2>1 DEF FoundRoom
<1>5. PICK u \in Users, i \in Invites : JoinRead(r, u, i)
  BY <1>1, <1>2, <1>3, <1>4, JoinMoves
<1>6. /\ req'[r] = [Idle EXCEPT !.pc = "joinPaid", !.user = u, !.inv = i,
                                !.ws = inv[i].ws, !.to = inv[i].to,
                                !.members = Members(inv[i].ws)]
      /\ UNCHANGED member
  BY <1>1, <1>5 DEF JoinRead, Begin
<1>7. req'[r].ws = inv[i].ws /\ req'[r].members = Members(inv[i].ws)
  BY <1>6 DEF Idle
<1> QED
  BY <1>2, <1>6, <1>7

\* Every step leaves the members of a workspace, and those who may still join it,
\* within the bound.
LEMMA RoomLeftKept == RoomInv /\ [Next]_vars => RoomLeft'
<1> SUFFICES ASSUME RoomInv, [Next]_vars, NEW w \in Workspaces
             PROVE  /\ IsFiniteSet(Members(w)')
                    /\ Cardinality(Members(w)') + Cardinality(FoundRoom(w)')
                          <= Limit - 1 + Cardinality(Requests)
  BY DEF RoomLeft
<1> DEFINE M == Members(w)
           F == FoundRoom(w)
           M2 == Members(w)'
           F2 == FoundRoom(w)'
           n == Cardinality(Requests)
<1> SUFFICES IsFiniteSet(M2) /\ Cardinality(M2) + Cardinality(F2) <= Limit - 1 + n
  OBVIOUS
<1>1. /\ IsFiniteSet(M) /\ Cardinality(M) \in Nat /\ n \in Nat /\ Limit \in Nat \ {0}
      /\ Cardinality(M) + Cardinality(F) <= Limit - 1 + n
  BY RoomCounts, FS_CardinalityType DEF RoomInv, RoomLeft
<1>2. /\ F \subseteq Requests /\ F2 \subseteq Requests
      /\ IsFiniteSet(F) /\ Cardinality(F) \in Nat
      /\ IsFiniteSet(F2) /\ Cardinality(F2) \in Nat /\ Cardinality(F2) <= n
  <2>1. F \subseteq Requests /\ F2 \subseteq Requests
    BY DEF FoundRoom
  <2> HIDE DEF F, F2
  <2> QED
    BY <2>1, RoomCounts
<1>3. F2 \subseteq F => Cardinality(F2) <= Cardinality(F)
  BY <1>2, FS_Subset
<1>4. /\ member \in [Users -> Workspaces \union {None}] /\ req \in [Requests -> Request]
      /\ owner \in [Workspaces -> Users \union {None}]
      /\ OwnersAreMembers /\ Joins /\ RequestsOK /\ None \notin Workspaces /\ None \notin Users
  BY DEF RoomInv, MembershipInv, TypeInv, RequestsOK, TablesOK, MembersOK
<1>5. CASE UNCHANGED member
  <2>1. M2 = M
    BY <1>5 DEF Members
  <2>2. F2 \subseteq F \/ Cardinality(M) < Limit
    BY FoundRoomMoves
  <2> HIDE DEF M, F, M2, F2, n
  <2> QED
    BY <1>1, <1>2, <1>3, <2>1, <2>2
<1>6. CASE ~UNCHANGED member /\ M2 \subseteq M
  <2>1. F2 \subseteq F
    BY <1>6, FoundRoomMoves
  <2>2. IsFiniteSet(M2) /\ Cardinality(M2) \in Nat /\ Cardinality(M2) <= Cardinality(M)
    BY <1>1, <1>6, FS_Subset, FS_CardinalityType
  <2> HIDE DEF M, F, M2, F2, n
  <2> QED
    BY <1>1, <1>2, <1>3, <2>1, <2>2
<1>7. ASSUME NEW r \in Requests, JoinWrite(r)
      PROVE  IsFiniteSet(M2) /\ Cardinality(M2) + Cardinality(F2) <= Limit - 1 + n
  <2>1. /\ req[r].user \in Users /\ req[r].ws \in Workspaces
        /\ req[r].pc = "joinWrite" /\ member[req[r].user] = None
        /\ member' = [member EXCEPT ![req[r].user] = req[r].ws]
        /\ req' = [req EXCEPT ![r] = Idle]
    BY <1>4, <1>7 DEF JoinWrite, RequestsOK, Carries, End
  <2>2. CASE req[r].ws # w
    <3>1. M2 \subseteq M
      BY <1>4, <2>1, <2>2 DEF Members
    <3> QED
      BY <1>5, <1>6, <3>1
  <2>3. CASE req[r].ws = w
    <3>1. M2 = M \union {req[r].user} /\ req[r].user \notin M
      BY <1>4, <2>1, <2>3 DEF Members
    <3>2. IsFiniteSet(M2) /\ Cardinality(M2) = Cardinality(M) + 1
      <4> HIDE DEF M, M2
      <4> QED
        BY <1>1, <3>1, FS_AddElement
    <3>3. r \in F /\ r \notin F2
      BY <1>4, <2>1, <2>3 DEF FoundRoom, RoomInv, Checked, Joining, Idle
    <3>4. ~UNCHANGED member
      BY <1>4, <2>1
    <3>5. F2 \subseteq F \ {r}
      BY <3>3, <3>4, FoundRoomMoves
    <3>6. IsFiniteSet(F \ {r}) /\ Cardinality(F \ {r}) = Cardinality(F) - 1
      <4> HIDE DEF F, F2
      <4> QED
        BY <1>2, <3>3, FS_RemoveElement
    <3>7. Cardinality(F2) <= Cardinality(F) - 1
      <4> HIDE DEF F, F2
      <4> QED
        BY <3>5, <3>6, FS_Subset
    <3> HIDE DEF M, F, M2, F2, n
    <3> QED
      BY <1>1, <1>2, <3>2, <3>7
  <2> QED
    BY <2>2, <2>3
<1>8. ASSUME NEW r \in Requests, NEW v \in Workspaces, CreateWrite(r, v)
      PROVE  IsFiniteSet(M2) /\ Cardinality(M2) + Cardinality(F2) <= Limit - 1 + n
  <2>1. /\ req[r].user \in Users /\ member[req[r].user] = None
        /\ owner[v] = None /\ v \notin dissolved
        /\ member' = [member EXCEPT ![req[r].user] = v]
    BY <1>4, <1>8 DEF CreateWrite, RequestsOK, Carries
  <2>2. CASE v # w
    <3>1. M2 \subseteq M
      BY <1>4, <2>1, <2>2 DEF Members
    <3> QED
      BY <1>5, <1>6, <3>1
  <2>3. CASE v = w
    <3>1. M = {}
      BY <1>4, <2>1, <2>3 DEF Members, OwnersAreMembers
    <3>2. M2 = {req[r].user}
      BY <1>4, <2>1, <2>3, <3>1 DEF Members
    <3>3. F = {}
      BY <1>4, <2>1, <2>3 DEF FoundRoom, Joins, JoinOK
    <3>4. ~UNCHANGED member
      BY <1>4, <2>1
    <3>5. F2 = {}
      BY <3>3, <3>4, FoundRoomMoves
    <3>6. IsFiniteSet(M2) /\ Cardinality(M2) = 1 /\ Cardinality(F2) = 0
      <4> HIDE DEF M2, F2
      <4> QED
        BY <3>2, <3>5, FS_Singleton, FS_EmptySet
    <3>7. n >= 1
      <4>1. IsFiniteSet(Requests) /\ n # 0
        BY RequestsAssumption, FS_EmptySet
      <4> HIDE DEF n
      <4> QED
        BY <1>1, <4>1
    <3> HIDE DEF M, F, M2, F2, n
    <3> QED
      BY <1>1, <3>6, <3>7
  <2> QED
    BY <2>2, <2>3
<1>9. ASSUME NEW r \in Requests, DissolveWrite(r)
      PROVE  IsFiniteSet(M2) /\ Cardinality(M2) + Cardinality(F2) <= Limit - 1 + n
  <2>1. M2 \subseteq M
    BY <1>4, <1>9 DEF DissolveWrite, Members
  <2> QED
    BY <1>5, <1>6, <2>1
<1> QED
  BY <1>5, <1>7, <1>8, <1>9, MembershipMoves

\* Overlapping joins take a workspace over its limit, but each request at most by
\* one: with n requests at a time it has Limit - 1 + n members at most.
THEOREM MembersCorrect == Spec => []MembersBounded
<1>1. Init => RoomInv
  <2> SUFFICES ASSUME Init PROVE RoomInv
    OBVIOUS
  <2>1. \A w \in Workspaces : Members(w) = {} /\ FoundRoom(w) = {}
    BY DEF Init, Members, FoundRoom, Idle, Joining
  <2>2. RoomLeft
    BY <2>1, RoomCounts, FS_EmptySet DEF RoomLeft
  <2>3. Checked
    BY DEF Init, Checked, Idle
  <2> QED
    BY <2>2, <2>3, MembershipInit DEF RoomInv
<1>2. RoomInv /\ [Next]_vars => RoomInv'
  BY MembershipStep, CheckedKept, RoomLeftKept DEF RoomInv
<1>3. RoomInv => MembersBounded
  <2> SUFFICES ASSUME RoomInv, NEW w \in Workspaces
               PROVE  Cardinality(Members(w)) <= Limit - 1 + Cardinality(Requests)
    BY DEF MembersBounded
  <2>1. FoundRoom(w) \subseteq Requests
    BY DEF FoundRoom
  <2>2. /\ Cardinality(FoundRoom(w)) \in Nat /\ Cardinality(Requests) \in Nat
        /\ Cardinality(Members(w)) \in Nat
        /\ Cardinality(Members(w)) + Cardinality(FoundRoom(w)) <= Limit - 1 + Cardinality(Requests)
    BY <2>1, RoomCounts, FS_CardinalityType DEF RoomInv, RoomLeft
  <2> QED
    BY <2>2
<1> QED
  BY <1>1, <1>2, <1>3, PTL DEF Spec
=============================================================================
