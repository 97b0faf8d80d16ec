----------------------------- MODULE Workspace -----------------------------
(***************************************************************************)
(* The shared workspace ("couple plan"): WorkspaceService of the backend   *)
(* (src/backend/src/modules/workspace/workspace.service.ts) with the       *)
(* operations of PlanService that move plans in and out of a workspace     *)
(* (src/backend/src/modules/plan/plan.service.ts).                         *)
(*                                                                         *)
(* As in Subscription, a request is a record with a program counter and    *)
(* each of its steps ends with one query.  PaymentService.getStatus is one *)
(* read here (Subscription models its inside): the environment decides at  *)
(* any time who has paid.                                                  *)
(***************************************************************************)
EXTENDS Naturals, FiniteSets

CONSTANTS
    Users,       \* accounts; an invited e-mail address is the account it names
    Workspaces,  \* workspace ids
    Invites,     \* invitation tokens
    Plans,       \* ids of plans, the copies made by dissolve aside
    Requests,    \* HTTP requests that may be in flight at the same time
    None,        \* SQL NULL, an unused field
    Limit        \* WORKSPACE_MEMBER_LIMIT

ASSUME NoneAssumption == None \notin Users \union Workspaces \union Invites \union Plans
ASSUME LimitAssumption == Limit \in Nat \ {0}
ASSUME RequestsAssumption == IsFiniteSet(Requests)

VARIABLES
    paid,     \* what getStatus answers for each user: hasAccess
    owner,    \* Workspace.ownerId, None when there is no such row
    dissolved, \* ids of the workspaces that were deleted; ids are never reused
    member,   \* the workspace of the user's only WorkspaceMember row, or None
    inv,      \* the WorkspaceInvite rows
    plan,     \* the Plan rows: who owns a plan and where it is shared
    copies,   \* copies[w][p][u]: copies of p that dissolving w gave to u
    req

vars == <<paid, owner, dissolved, member, inv, plan, copies, req>>

-----------------------------------------------------------------------------
InviteStatus == {"none", "pending", "accepted"}
InviteRow == [ws: Workspaces \union {None}, to: Users \union {None},
              status: InviteStatus, expired: BOOLEAN]
PlanRow == [status: {"none", "live", "deleted"}, owner: Users \union {None},
            ws: Workspaces \union {None}]

NoInvite == [ws |-> None, to |-> None, status |-> "none", expired |-> FALSE]
NoPlan   == [status |-> "none", owner |-> None, ws |-> None]

Members(w) == {u \in Users : member[u] = w}

\* A membership row has role "owner" exactly when its user is the ownerId.
IsOwner(u, w) == member[u] = w /\ owner[w] = u

PC == {"idle", "createCheck", "createWrite", "inviteCheck", "inviteWrite",
       "joinPaid", "joinCheck", "joinWrite", "shareCheck", "shareWrite",
       "newPlan", "deletePlan", "dissolvePlans", "dissolveWrite"}

\* members and plans: the member ids, and the ids of plans with their owners,
\* that the request read and still holds.
Request == [pc: PC, user: Users \union {None}, ws: Workspaces \union {None},
            inv: Invites \union {None}, plan: Plans \union {None},
            to: Users \union {None}, members: SUBSET Users, plans: SUBSET (Plans \X Users)]

Idle == [pc |-> "idle", user |-> None, ws |-> None, inv |-> None, plan |-> None,
         to |-> None, members |-> {}, plans |-> {}]

Begin(r, q) == req[r].pc = "idle" /\ req' = [req EXCEPT ![r] = q]
Goto(r, pc) == req' = [req EXCEPT ![r].pc = pc]
End(r)      == req' = [req EXCEPT ![r] = Idle]

Init ==
    /\ paid = [u \in Users |-> FALSE]
    /\ dissolved = {}
    /\ owner = [w \in Workspaces |-> None]
    /\ member = [u \in Users |-> None]
    /\ inv = [i \in Invites |-> NoInvite]
    /\ plan = [p \in Plans |-> NoPlan]
    /\ copies = [w \in Workspaces |-> [p \in Plans |-> [u \in Users |-> 0]]]
    /\ req = [r \in Requests |-> Idle]

-----------------------------------------------------------------------------
(* create *)

CreatePaid(r, u) ==
    /\ paid[u]
    /\ Begin(r, [Idle EXCEPT !.pc = "createCheck", !.user = u])
    /\ UNCHANGED <<paid, owner, dissolved, member, inv, plan, copies>>

CreateCheck(r) ==
    /\ req[r].pc = "createCheck"
    /\ member[req[r].user] = None
    /\ Goto(r, "createWrite")
    /\ UNCHANGED <<paid, owner, dissolved, member, inv, plan, copies>>

\* Mutated form: the membership has no unique index.
CreateWriteTwice(r, w) ==
    LET u == req[r].user
    IN  /\ req[r].pc = "createWrite"
        /\ owner[w] = None
        /\ w \notin dissolved
        /\ owner' = [owner EXCEPT ![w] = u]
        /\ member' = [member EXCEPT ![u] = w]
        /\ End(r)
        /\ UNCHANGED <<paid, dissolved, inv, plan, copies>>

\* The workspace and the owner's membership are created in one statement; a
\* second membership of the user breaks a unique index.
CreateWrite(r, w) ==
    LET u == req[r].user
    IN  /\ req[r].pc = "createWrite"
        /\ owner[w] = None
        /\ w \notin dissolved
        /\ member[u] = None
        /\ owner' = [owner EXCEPT ![w] = u]
        /\ member' = [member EXCEPT ![u] = w]
        /\ End(r)
        /\ UNCHANGED <<paid, dissolved, inv, plan, copies>>

-----------------------------------------------------------------------------
(* invite *)

InvitePaid(r, u, w, to) ==
    /\ paid[u]
    /\ Begin(r, [Idle EXCEPT !.pc = "inviteCheck", !.user = u, !.ws = w, !.to = to])
    /\ UNCHANGED <<paid, owner, dissolved, member, inv, plan, copies>>

\* Only the owner invites, while there is room, and nobody who is a member.
InviteCheck(r) ==
    LET q == req[r]
    IN  /\ q.pc = "inviteCheck"
        /\ IsOwner(q.user, q.ws)
        /\ Cardinality(Members(q.ws)) < Limit
        /\ q.to \notin Members(q.ws)
        /\ Goto(r, "inviteWrite")
        /\ UNCHANGED <<paid, owner, dissolved, member, inv, plan, copies>>

\* The row refers to the workspace, which must still exist.
InviteWrite(r, i) ==
    LET q == req[r]
    IN  /\ q.pc = "inviteWrite"
        /\ owner[q.ws] # None
        /\ inv[i].status = "none"
        /\ inv' = [inv EXCEPT ![i] = [ws |-> q.ws, to |-> q.to,
                                      status |-> "pending", expired |-> FALSE]]
        /\ End(r)
        /\ UNCHANGED <<paid, owner, dissolved, member, plan, copies>>

-----------------------------------------------------------------------------
(* join *)

\* The invitation is read with its workspace and the members it has NOW.
JoinRead(r, u, i) ==
    /\ inv[i].status = "pending"
    /\ Begin(r, [Idle EXCEPT !.pc = "joinPaid", !.user = u, !.inv = i,
                             !.ws = inv[i].ws, !.to = inv[i].to,
                             !.members = Members(inv[i].ws)])
    /\ UNCHANGED <<paid, owner, dissolved, member, inv, plan, copies>>

\* getStatus of the owner that was read (owners never change), then the
\* expiry of the invitation; a workspace that has gone is noticed by JoinWrite.
JoinPaid(r) ==
    LET q == req[r]
    IN  /\ q.pc = "joinPaid"
        /\ owner[q.ws] # None => paid[owner[q.ws]]
        /\ ~inv[q.inv].expired
        /\ Goto(r, "joinCheck")
        /\ UNCHANGED <<paid, owner, dissolved, member, inv, plan, copies>>

\* The address must be the invited one; a user with a membership is answered
\* without a write; the room is judged by the members read at the beginning.
JoinCheck(r) ==
    LET q == req[r]
    IN  /\ q.pc = "joinCheck"
        /\ q.user = q.to
        /\ member[q.user] = None
        /\ Cardinality(q.members) < Limit
        /\ Goto(r, "joinWrite")
        /\ UNCHANGED <<paid, owner, dissolved, member, inv, plan, copies>>

\* Mutated form: the invitation is accepted outside the transaction.
JoinWriteApart(r) ==
    LET q == req[r]
    IN  /\ q.pc = "joinWrite"
        /\ owner[q.ws] # None
        /\ inv[q.inv].status # "none"
        /\ member' = [member EXCEPT ![q.user] = IF @ = None THEN q.ws ELSE @]
        /\ inv' = [inv EXCEPT ![q.inv].status = "accepted"]
        /\ End(r)
        /\ UNCHANGED <<paid, owner, dissolved, plan, copies>>

\* The transaction; it fails as a whole when the user has become a member of
\* some workspace, or the workspace (and its invitations) has gone.
JoinWrite(r) ==
    LET q == req[r]
    IN  /\ q.pc = "joinWrite"
        /\ member[q.user] = None
        /\ owner[q.ws] # None
        /\ inv[q.inv].status # "none"
        /\ member' = [member EXCEPT ![q.user] = q.ws]
        /\ inv' = [inv EXCEPT ![q.inv].status = "accepted"]
        /\ End(r)
        /\ UNCHANGED <<paid, owner, dissolved, plan, copies>>

-----------------------------------------------------------------------------
(* Plans: create, share, delete *)

\* PlanService.create of a personal plan.
NewPersonalPlan(u, p) ==
    /\ plan[p].status = "none"
    /\ plan' = [plan EXCEPT ![p] = [status |-> "live", owner |-> u, ws |-> None]]
    /\ UNCHANGED <<paid, owner, dissolved, member, inv, copies, req>>

\* saveDraft (shared) and generate: assertWorkspaceWritable, long before the
\* plan is written.
NewPlanCheck(r, u) ==
    LET w == member[u]
    IN  /\ w # None
        /\ paid[owner[w]]
        /\ Begin(r, [Idle EXCEPT !.pc = "newPlan", !.user = u, !.ws = w])
        /\ UNCHANGED <<paid, owner, dissolved, member, inv, plan, copies>>

\* createPlanFromResult; the plan refers to the workspace.
NewPlanWrite(r, p) ==
    LET q == req[r]
    IN  /\ q.pc = "newPlan"
        /\ plan[p].status = "none"
        /\ owner[q.ws] # None
        /\ plan' = [plan EXCEPT ![p] = [status |-> "live", owner |-> q.user, ws |-> q.ws]]
        /\ End(r)
        /\ UNCHANGED <<paid, owner, dissolved, member, inv, copies>>

\* share reads the plan ...
ShareRead(r, u, p) ==
    /\ plan[p].status = "live"
    /\ plan[p].owner = u
    /\ plan[p].ws = None
    /\ Begin(r, [Idle EXCEPT !.pc = "shareCheck", !.user = u, !.plan = p])
    /\ UNCHANGED <<paid, owner, dissolved, member, inv, plan, copies>>

\* ... then the membership and the owner's access ...
ShareCheck(r) ==
    LET w == member[req[r].user]
    IN  /\ req[r].pc = "shareCheck"
        /\ w # None
        /\ paid[owner[w]]
        /\ req' = [req EXCEPT ![r].pc = "shareWrite", ![r].ws = w]
        /\ UNCHANGED <<paid, owner, dissolved, member, inv, plan, copies>>

\* ... and moves the plan when it is still unshared.
ShareWrite(r) ==
    LET q == req[r]
    IN  /\ q.pc = "shareWrite"
        /\ plan[q.plan].status = "live"
        /\ plan[q.plan].ws = None
        /\ owner[q.ws] # None
        /\ plan' = [plan EXCEPT ![q.plan].ws = q.ws]
        /\ End(r)
        /\ UNCHANGED <<paid, owner, dissolved, member, inv, copies>>

\* get: a personal plan of the user, or a plan of the user's workspace.
Accessible(u, p) ==
    \/ plan[p].owner = u /\ plan[p].ws = None
    \/ plan[p].ws # None /\ member[u] = plan[p].ws

\* delete: whoever may write the plan may delete it.
DeleteRead(r, u, p) ==
    /\ plan[p].status = "live"
    /\ Accessible(u, p)
    /\ plan[p].ws # None => paid[owner[plan[p].ws]]
    /\ Begin(r, [Idle EXCEPT !.pc = "deletePlan", !.user = u, !.plan = p])
    /\ UNCHANGED <<paid, owner, dissolved, member, inv, plan, copies>>

DeleteWrite(r) ==
    /\ req[r].pc = "deletePlan"
    /\ plan[req[r].plan].status = "live"
    /\ plan' = [plan EXCEPT ![req[r].plan] = [@ EXCEPT !.status = "deleted", !.ws = None]]
    /\ End(r)
    /\ UNCHANGED <<paid, owner, dissolved, member, inv, copies>>

-----------------------------------------------------------------------------
(* dissolve *)

DissolveRead(r, u, w) ==
    /\ IsOwner(u, w)
    /\ Begin(r, [Idle EXCEPT !.pc = "dissolvePlans", !.user = u, !.ws = w,
                             !.members = Members(w)])
    /\ UNCHANGED <<paid, owner, dissolved, member, inv, plan, copies>>

DissolvePlans(r) ==
    /\ req[r].pc = "dissolvePlans"
    /\ req' = [req EXCEPT ![r].pc = "dissolveWrite",
                          ![r].plans = {x \in Plans \X Users : /\ plan[x[1]].ws = req[r].ws
                                                               /\ plan[x[1]].owner = x[2]}]
    /\ UNCHANGED <<paid, owner, dissolved, member, inv, plan, copies>>

\* Mutated form: the owner of a plan is not skipped.
CopiesAfterForAll(q) ==
    [copies EXCEPT ![q.ws] =
        [p \in Plans |-> [u \in Users |->
            @[p][u] + IF u \in q.members /\ \E v \in Users : <<p, v>> \in q.plans THEN 1 ELSE 0]]]

\* The copies: each plan read, for each member read who does not own it.
CopiesAfter(q) ==
    [copies EXCEPT ![q.ws] =
        [p \in Plans |-> [u \in Users |->
            @[p][u] + IF u \in q.members /\ \E v \in Users \ {u} : <<p, v>> \in q.plans
                      THEN 1 ELSE 0]]]

\* Mutated form: the copies are not undone when the workspace has gone.
DissolveWriteAgain(r) ==
    LET q == req[r]
    IN  /\ q.pc = "dissolveWrite"
        /\ copies' = CopiesAfter(q)
        /\ plan' = [p \in Plans |-> IF plan[p].ws = q.ws
                                    THEN [plan[p] EXCEPT !.ws = None] ELSE plan[p]]
        /\ owner' = [owner EXCEPT ![q.ws] = None]
        /\ dissolved' = dissolved \union {q.ws}
        /\ member' = [u \in Users |-> IF member[u] = q.ws THEN None ELSE member[u]]
        /\ inv' = [i \in Invites |-> IF inv[i].ws = q.ws THEN NoInvite ELSE inv[i]]
        /\ End(r)
        /\ UNCHANGED paid

\* Mutated form: only the plans that were read are taken out.
DissolveWriteReadPlans(r) ==
    LET q == req[r]
    IN  /\ q.pc = "dissolveWrite"
        /\ owner[q.ws] # None
        /\ copies' = CopiesAfter(q)
        /\ plan' = [p \in Plans |-> IF \E u \in Users : <<p, u>> \in q.plans
                                    THEN [plan[p] EXCEPT !.ws = None] ELSE plan[p]]
        /\ owner' = [owner EXCEPT ![q.ws] = None]
        /\ dissolved' = dissolved \union {q.ws}
        /\ member' = [u \in Users |-> IF member[u] = q.ws THEN None ELSE member[u]]
        /\ inv' = [i \in Invites |-> IF inv[i].ws = q.ws THEN NoInvite ELSE inv[i]]
        /\ End(r)
        /\ UNCHANGED paid

\* The transaction: the copies, the plans back to their owners, the workspace
\* deleted with its members and invitations.  Deleting a row that has gone
\* throws, and takes the copies back.
DissolveWrite(r) ==
    LET q == req[r]
    IN  /\ q.pc = "dissolveWrite"
        /\ owner[q.ws] # None
        /\ copies' = CopiesAfter(q)
        /\ plan' = [p \in Plans |-> IF plan[p].ws = q.ws
                                    THEN [plan[p] EXCEPT !.ws = None] ELSE plan[p]]
        /\ owner' = [owner EXCEPT ![q.ws] = None]
        /\ dissolved' = dissolved \union {q.ws}
        /\ member' = [u \in Users |-> IF member[u] = q.ws THEN None ELSE member[u]]
        /\ inv' = [i \in Invites |-> IF inv[i].ws = q.ws THEN NoInvite ELSE inv[i]]
        /\ End(r)
        /\ UNCHANGED paid

-----------------------------------------------------------------------------
(* The environment *)

\* A check fails or a query throws: the request ends where it is.
Fail(r) ==
    /\ req[r].pc # "idle"
    /\ End(r)
    /\ UNCHANGED <<paid, owner, dissolved, member, inv, plan, copies>>

AccessChanges(u) ==
    /\ paid' = [paid EXCEPT ![u] = ~@]
    /\ UNCHANGED <<owner, dissolved, member, inv, plan, copies, req>>

ExpireInvite(i) ==
    /\ inv[i].status = "pending"
    /\ ~inv[i].expired
    /\ inv' = [inv EXCEPT ![i].expired = TRUE]
    /\ UNCHANGED <<paid, owner, dissolved, member, plan, copies, req>>

Next ==
    \/ \E u \in Users : AccessChanges(u) \/ \E p \in Plans : NewPersonalPlan(u, p)
    \/ \E i \in Invites : ExpireInvite(i)
    \/ \E r \in Requests :
        \/ CreateCheck(r) \/ InviteCheck(r) \/ JoinPaid(r) \/ JoinCheck(r) \/ JoinWrite(r)
        \/ ShareCheck(r) \/ ShareWrite(r) \/ DeleteWrite(r)
        \/ DissolvePlans(r) \/ DissolveWrite(r) \/ Fail(r)
        \/ \E w \in Workspaces : CreateWrite(r, w)
        \/ \E i \in Invites : InviteWrite(r, i)
        \/ \E p \in Plans : NewPlanWrite(r, p)
        \/ \E u \in Users :
            \/ CreatePaid(r, u) \/ NewPlanCheck(r, u)
            \/ \E i \in Invites : JoinRead(r, u, i)
            \/ \E p \in Plans : ShareRead(r, u, p) \/ DeleteRead(r, u, p)
            \/ \E w \in Workspaces : \/ DissolveRead(r, u, w)
                                     \/ \E to \in Users : InvitePaid(r, u, w, to)

Spec == Init /\ [][Next]_vars

-----------------------------------------------------------------------------
(* Properties *)

\* The fields a request carries at each of its awaits.
Carries(q) ==
    /\ q.pc # "idle" => q.user \in Users
    /\ q.pc \in {"inviteCheck", "inviteWrite", "joinPaid", "joinCheck", "joinWrite",
                 "shareWrite", "newPlan", "dissolvePlans", "dissolveWrite"}
        => q.ws \in Workspaces
    /\ q.pc \in {"inviteCheck", "inviteWrite", "joinPaid", "joinCheck", "joinWrite"}
        => q.to \in Users
    /\ q.pc \in {"joinPaid", "joinCheck", "joinWrite"} => q.inv \in Invites
    /\ q.pc \in {"shareCheck", "shareWrite", "deletePlan"} => q.plan \in Plans

TypeOK ==
    /\ paid \in [Users -> BOOLEAN]
    /\ owner \in [Workspaces -> Users \union {None}]
    /\ dissolved \subseteq Workspaces
    /\ member \in [Users -> Workspaces \union {None}]
    /\ inv \in [Invites -> InviteRow]
    /\ plan \in [Plans -> PlanRow]
    /\ copies \in [Workspaces -> [Plans -> [Users -> Nat]]]
    /\ req \in [Requests -> Request]
    /\ \A r \in Requests : Carries(req[r])

(***************************************************************************)
(* A workspace exists exactly as long as its owner is a member of it, and  *)
(* nobody is a member of a workspace that was never created or is gone,    *)
(* whichever create, join and dissolve requests overlap.                   *)
(***************************************************************************)
OwnersAreMembers ==
    /\ \A w \in Workspaces : owner[w] # None => w \notin dissolved /\ member[owner[w]] = w
    /\ \A u \in Users : member[u] # None => owner[member[u]] # None

(***************************************************************************)
(* The invitations and the memberships agree: besides the owner, exactly   *)
(* those users are members of a workspace who accepted an invitation to it *)
(* that was addressed to them.  An overlapping dissolve, a second join     *)
(* with the same token or a failed transaction leaves no invitation used   *)
(* up without a member and no member without an invitation.                *)
(***************************************************************************)
InvitesMatchMembers ==
    \A w \in Workspaces, u \in Users :
        (owner[w] # None /\ owner[w] # u)
        => (member[u] = w <=> \E i \in Invites : /\ inv[i].status = "accepted"
                                                 /\ inv[i].ws = w
                                                 /\ inv[i].to = u)

(***************************************************************************)
(* PlanService.get shows a shared plan to the members of its workspace     *)
(* only, its owner included.  The owner of a plan never loses it: the plan *)
(* is personal, or shared in the workspace the owner is in now.            *)
(***************************************************************************)
OwnerReachesPlan ==
    \A p \in Plans : plan[p].status = "live" => Accessible(plan[p].owner, p)

(***************************************************************************)
(* Dissolving a workspace twice at the same time (two tabs, a retried      *)
(* request) does not give anybody a second copy of a plan.                 *)
(***************************************************************************)
CopiedOnce == \A w \in Workspaces, p \in Plans, u \in Users : copies[w][p][u] <= 1

(***************************************************************************)
(* The limit of members (two, says workspace.service.ts) is judged by what *)
(* a join read first, so that joins which overlap can pass it together:    *)
(* each request in flight by one member at most.                           *)
(***************************************************************************)
MembersBounded ==
    \A w \in Workspaces : Cardinality(Members(w)) <= Limit - 1 + Cardinality(Requests)

\* Who is invited where, by an invitation that is pending or accepted.
Invited == {x \in Workspaces \X Users :
              \E i \in Invites : inv[i].status # "none" /\ inv[i].ws = x[1] /\ inv[i].to = x[2]}

C == INSTANCE Couple WITH founder <- owner, gone <- dissolved, home <- member,
                          invited <- Invited, plan <- plan, gifts <- copies

(***************************************************************************)
(* The workspace implements Couple: though create, invite, join, share,    *)
(* generate, delete and dissolve are chains of queries that overlap, with  *)
(* checks that are old when the write comes, each write is an operation of *)
(* Couple that the state of that moment allows, and nothing else is.       *)
(***************************************************************************)
Couples == C!Spec
=============================================================================
