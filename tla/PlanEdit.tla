------------------------------ MODULE PlanEdit ------------------------------
(***************************************************************************)
(* Editing one plan from several screens: update, share, addItem,          *)
(* updateItem, deleteItem, delete, createMemo and deleteMemo of            *)
(* PlanService (src/backend/src/modules/plan/plan.service.ts), with the    *)
(* plan page of the frontend that sends the updatedAt of the plan it shows.*)
(*                                                                         *)
(* updatedAt works as the version of an optimistic lock.  Every write of   *)
(* the Plan row gets a new one (Prisma's @updatedAt, or touchPlan): it is  *)
(* a counter here, since a version has to reach a screen and come back     *)
(* before it is compared, which takes longer than the millisecond that     *)
(* would make two of them equal.  Item rows have no version.               *)
(*                                                                         *)
(* As in Subscription, a step ends with one query.  assertWorkspaceWritable*)
(* is one read; who is a member is Workspace's business: once the plan is  *)
(* shared, every user of this module is one.                               *)
(***************************************************************************)
EXTENDS Integers, FiniteSets

CONSTANTS
    Users,      \* members of the workspace, one screen each
    Owner,      \* Plan.userId
    Labellers,  \* users who have a category
    Ops,        \* the operations that are called
    Items,      \* PlanItem ids, never used twice
    Values,     \* what an item, or the summary, may say
    Requests,   \* HTTP requests that may be in flight at the same time
    None,       \* SQL NULL, an unused field
    Undefined,  \* an optional field of a DTO that was not sent
    MaxVersion  \* bound of the version

ASSUME NoneAssumption == None \notin Users \union Items \union Values
ASSUME UndefinedAssumption == Undefined \notin Users \union Values \union {None}
ASSUME OwnerAssumption == Owner \in Users /\ Labellers \subseteq Users
ASSUME OpsAssumption ==
    Ops \subseteq {"update", "share", "delete", "add", "edit", "remove", "memo", "unmemo"}
ASSUME VersionAssumption == MaxVersion \in Nat
ASSUME ItemsAssumption == IsFiniteSet(Items)

VARIABLES
    plan,       \* the Plan row with its PlanItem rows
    categories, \* users who (still) have a category; a user has one, named by the user
    writable,   \* the owner of the workspace has access
    view,       \* the plan as each user's screen shows it
    req         \* the requests in flight

vars == <<plan, categories, writable, view, req>>

-----------------------------------------------------------------------------
\* val None: the id was never used; order 0 with a value: the row is deleted.
ItemRow == [order: Nat, val: Values \union {None}]
NumberedRow == [order: 1 .. Cardinality(Items), val: Values]
NoItem  == [order |-> 0, val |-> None]

\* memos: a PlanMemo of each user, who writes one at most.
PlanRow == [live: BOOLEAN, version: Nat, summary: Values \union {None},
            category: Users \union {None}, shared: BOOLEAN, items: [Items -> ItemRow],
            memos: [Users -> {"unwritten", "kept", "deleted"}]]

\* What a screen shows before it has loaded the plan.
Blank == [live |-> TRUE, version |-> 0, summary |-> None, category |-> None,
          shared |-> FALSE, items |-> [i \in Items |-> NoItem],
          memos |-> [u \in Users |-> "unwritten"]]

Rows(p) == {i \in Items : p.items[i].order > 0}

\* What a request about item i (or None) keeps of the plan that get read: the
\* ids of the items, and what the item said, are all it uses of them.
Snapshot == [summary: Values \union {None}, category: Users \union {None},
             shared: BOOLEAN, rows: SUBSET Items, val: Values \union {None}]
Read(p, i) == [summary |-> p.summary, category |-> p.category, shared |-> p.shared,
               rows |-> Rows(p), val |-> IF i = None THEN None ELSE p.items[i].val]

\* version: the updatedAt that was sent.
PC == {"idle", "update", "updateWrite", "share", "shareWrite", "touch", "item",
       "itemWrite", "delete", "deleteWrite", "memo", "memoWrite", "answer"}

Request == [pc: PC, op: Ops \union {"none"}, user: Users \union {None}, item: Items \union {None},
            val: Values \union {None, Undefined}, category: Users \union {None, Undefined},
            version: Nat, snap: Snapshot]

Idle == [pc |-> "idle", op |-> "none", user |-> None, item |-> None, val |-> None,
         category |-> None, version |-> 0, snap |-> Read(Blank, None)]

Goto(r, pc) == req' = [req EXCEPT ![r].pc = pc]
End(r)      == req' = [req EXCEPT ![r] = Idle]

\* The operation is written; the last get and the answer are left.
Done(r) == req' = [req EXCEPT ![r] = [Idle EXCEPT !.pc = "answer", !.user = req[r].user]]

\* createPlanFromResult: items numbered 1, 2, ..., personal or shared at once.
NewItems ==
    {f \in [Items -> NumberedRow \union {NoItem}] :
        LET rows == {i \in Items : f[i] # NoItem}
        IN  {f[i].order : i \in rows} = 1 .. Cardinality(rows)}

NewPlan(shared, items) == [Blank EXCEPT !.version = 1, !.shared = shared, !.items = items]
NewPlans == {NewPlan(shared, items) : shared \in BOOLEAN, items \in NewItems}

Init ==
    /\ plan \in NewPlans
    /\ categories = Labellers
    /\ writable = TRUE
    /\ view = [u \in Users |-> Blank]
    /\ req = [r \in Requests |-> Idle]

-----------------------------------------------------------------------------
(* Reading *)

\* buildAccessibleWhere.
CanRead(u) == plan.live /\ (u = Owner \/ plan.shared)

\* get, called by the page.
Load(u) ==
    /\ CanRead(u)
    /\ view' = [view EXCEPT ![u] = plan]
    /\ UNCHANGED <<plan, categories, writable, req>>

\* A request sent from u's screen has run up to its first query, which read
\* the plan.
Begin(r, u, q) ==
    /\ req[r].pc = "idle"
    /\ q.op \in Ops
    /\ view[u].version > 0
    /\ req' = [req EXCEPT ![r] = [q EXCEPT !.user = u, !.version = view[u].version,
                                           !.snap = Read(plan, q.item)]]
    /\ UNCHANGED <<plan, categories, writable, view>>

\* The last get of an operation: its answer replaces what the screen shows.
Answer(r) ==
    /\ req[r].pc = "answer"
    /\ CanRead(req[r].user)
    /\ view' = [view EXCEPT ![req[r].user] = plan]
    /\ End(r)
    /\ UNCHANGED <<plan, categories, writable>>

\* assertWorkspaceWritable, called for a plan that was shared when it was read:
\* its workspace may be gone.  (One shared again is taken to be in the same.)
MayWrite(q) == q.snap.shared => writable /\ plan.shared

\* The WHERE clause of the optimistic lock finds the row.
Matches(q) == plan.live /\ plan.version = q.version

\* It finds nothing: ConflictException.
Conflict(r) ==
    /\ req[r].pc \in {"updateWrite", "shareWrite", "touch"}
    /\ ~Matches(req[r])
    /\ End(r)
    /\ UNCHANGED <<plan, categories, writable, view>>

-----------------------------------------------------------------------------
(* update *)

\* dto.field === undefined ? current.field : dto.field
Or(field, current) == IF field = Undefined THEN current ELSE field

UpdateRead(r, u, summary, category) ==
    /\ CanRead(u)
    /\ Begin(r, u, [Idle EXCEPT !.pc = "update", !.op = "update", !.val = summary, !.category = category])

\* The category the row will have, the old one included, must be the user's own.
UpdateCheck(r) ==
    LET q    == req[r]
        next == Or(q.category, q.snap.category)
    IN  /\ q.pc = "update"
        /\ MayWrite(q)
        /\ next # None => next = q.user /\ next \in categories
        /\ Goto(r, "updateWrite")
        /\ UNCHANGED <<plan, categories, writable, view>>

\* Mutated form: the version is not compared.
UpdateWriteAnyVersion(r) ==
    LET q    == req[r]
        next == Or(q.category, q.snap.category)
    IN  /\ q.pc = "updateWrite"
        /\ plan.live
        /\ plan.version < MaxVersion
        /\ next # None => next \in categories
        /\ plan' = [plan EXCEPT !.version = @ + 1,
                                !.summary = Or(q.val, q.snap.summary),
                                !.category = next]
        /\ Done(r)
        /\ UNCHANGED <<categories, writable, view>>

\* Mutated form: the row is written without a new version.
UpdateWriteSameVersion(r) ==
    LET q    == req[r]
        next == Or(q.category, q.snap.category)
    IN  /\ q.pc = "updateWrite"
        /\ Matches(q)
        /\ next # None => next \in categories
        /\ plan' = [plan EXCEPT !.summary = Or(q.val, q.snap.summary), !.category = next]
        /\ Done(r)
        /\ UNCHANGED <<categories, writable, view>>

\* Both fields are written, those not sent with the values that were read.
\* A category that has gone breaks the foreign key.
UpdateWrite(r) ==
    LET q    == req[r]
        next == Or(q.category, q.snap.category)
    IN  /\ q.pc = "updateWrite"
        /\ Matches(q)
        /\ plan.version < MaxVersion
        /\ next # None => next \in categories
        /\ plan' = [plan EXCEPT !.version = @ + 1,
                                !.summary = Or(q.val, q.snap.summary),
                                !.category = next]
        /\ Done(r)
        /\ UNCHANGED <<categories, writable, view>>

-----------------------------------------------------------------------------
(* share *)

ShareRead(r, u) ==
    /\ plan.live
    /\ u = Owner
    /\ ~plan.shared
    /\ Begin(r, u, [Idle EXCEPT !.pc = "share", !.op = "share"])

\* getCurrentWorkspaceMembership.
ShareCheck(r) ==
    /\ req[r].pc = "share"
    /\ writable
    /\ Goto(r, "shareWrite")
    /\ UNCHANGED <<plan, categories, writable, view>>

ShareWrite(r) ==
    /\ req[r].pc = "shareWrite"
    /\ Matches(req[r])
    /\ ~plan.shared
    /\ plan.version < MaxVersion
    /\ plan' = [plan EXCEPT !.version = @ + 1, !.shared = TRUE, !.category = None]
    /\ Done(r)
    /\ UNCHANGED <<categories, writable, view>>

-----------------------------------------------------------------------------
(* addItem, updateItem, deleteItem *)

ItemRead(r, u, op, i, v) ==
    /\ CanRead(u)
    /\ Begin(r, u, [Idle EXCEPT !.pc = "touch", !.op = op, !.item = i, !.val = v])

AddRead(r, u, v)     == ItemRead(r, u, "add", None, v)
EditRead(r, u, i, v) == i \in Rows(view[u]) /\ ItemRead(r, u, "edit", i, v)
RemoveRead(r, u, i)  == i \in Rows(view[u]) /\ ItemRead(r, u, "remove", i, None)

\* Mutated form: the row is found but keeps its version.
TouchNothing(r) ==
    /\ req[r].pc = "touch"
    /\ Matches(req[r])
    /\ Goto(r, "item")
    /\ UNCHANGED <<plan, categories, writable, view>>

\* touchPlan: a new version, before anything else is checked.
Touch(r) ==
    /\ req[r].pc = "touch"
    /\ Matches(req[r])
    /\ plan.version < MaxVersion
    /\ plan' = [plan EXCEPT !.version = @ + 1]
    /\ Goto(r, "item")
    /\ UNCHANGED <<categories, writable, view>>

\* The workspace is writable; the item is looked up in the plan that was read.
ItemCheck(r) ==
    LET q == req[r]
    IN  /\ q.pc = "item"
        /\ MayWrite(q)
        /\ q.op \in {"edit", "remove"} => q.item \in q.snap.rows
        /\ Goto(r, "itemWrite")
        /\ UNCHANGED <<plan, categories, writable, view>>

\* The new item goes after the items that were read.
AddWrite(r, i) ==
    LET q == req[r]
    IN  /\ q.pc = "itemWrite"
        /\ q.op = "add"
        /\ plan.live
        /\ plan.items[i] = NoItem
        /\ plan' = [plan EXCEPT !.items[i] = [order |-> Cardinality(q.snap.rows) + 1,
                                              val |-> q.val]]
        /\ Done(r)
        /\ UNCHANGED <<categories, writable, view>>

\* The fields of the DTO, and for those not sent the fields that were read,
\* replace those of the row, if it is still there.
EditWrite(r) ==
    LET q == req[r]
    IN  /\ q.pc = "itemWrite"
        /\ q.op = "edit"
        /\ q.item \in Rows(plan)
        /\ plan' = [plan EXCEPT !.items[q.item].val = Or(q.val, q.snap.val)]
        /\ Done(r)
        /\ UNCHANGED <<categories, writable, view>>

\* ROW_NUMBER() OVER (ORDER BY "order") of every row but i: rows with the same
\* order are numbered in an order of the database's own choice.
Renumberings(i) ==
    LET rest == Rows(plan) \ {i}
    IN  {rn \in [rest -> 1 .. Cardinality(rest)] :
            \A j, k \in rest : /\ j # k => rn[j] # rn[k]
                               /\ plan.items[j].order < plan.items[k].order => rn[j] < rn[k]}

\* Mutated form: the rows are numbered with the deleted one among them.
RemoveWriteGap(r) ==
    LET q == req[r]
    IN  /\ q.pc = "itemWrite"
        /\ q.op = "remove"
        /\ q.item \in Rows(plan)
        /\ plan' = [plan EXCEPT !.items[q.item].order = 0]
        /\ Done(r)
        /\ UNCHANGED <<categories, writable, view>>

\* The transaction: a row that has gone makes it fail as a whole.
RemoveWrite(r) ==
    LET q == req[r]
    IN  /\ q.pc = "itemWrite"
        /\ q.op = "remove"
        /\ q.item \in Rows(plan)
        /\ \E rn \in Renumberings(q.item) :
            plan' = [plan EXCEPT !.items = [j \in Items |->
                        IF j = q.item THEN [@[j] EXCEPT !.order = 0]
                        ELSE IF j \in DOMAIN rn THEN [@[j] EXCEPT !.order = rn[j]]
                        ELSE @[j]]]
        /\ Done(r)
        /\ UNCHANGED <<categories, writable, view>>

-----------------------------------------------------------------------------
(* delete *)

DeleteRead(r, u) ==
    /\ CanRead(u)
    /\ Begin(r, u, [Idle EXCEPT !.pc = "delete", !.op = "delete"])

DeleteCheck(r) ==
    /\ req[r].pc = "delete"
    /\ MayWrite(req[r])
    /\ Goto(r, "deleteWrite")
    /\ UNCHANGED <<plan, categories, writable, view>>

\* By its id, whatever its version; the items and memos go with it.
DeleteWrite(r) ==
    /\ req[r].pc = "deleteWrite"
    /\ plan.live
    /\ plan' = [plan EXCEPT !.live = FALSE,
                            !.items = [i \in Items |-> [@[i] EXCEPT !.order = 0]],
                            !.memos = [u \in Users |-> "deleted"]]
    /\ End(r)
    /\ UNCHANGED <<categories, writable, view>>

-----------------------------------------------------------------------------
(* createMemo, deleteMemo *)

\* The thread is on the page of a shared plan.
MemosShown(u) == view[u].shared

\* A memo needs no version; the plan that was read must be shared.
MemoRead(r, u, op) ==
    /\ CanRead(u)
    /\ plan.shared
    /\ Begin(r, u, [Idle EXCEPT !.pc = "memo", !.op = op])

\* The button waits for the answer to the memo before.
CreateMemo(r, u) ==
    /\ MemosShown(u)
    /\ plan.memos[u] = "unwritten"
    /\ \A s \in Requests : ~(req[s].op = "memo" /\ req[s].user = u)
    /\ MemoRead(r, u, "memo")

\* The button is on the user's own memos; clicked twice, it sends two requests.
DeleteMemo(r, u) ==
    /\ MemosShown(u)
    /\ view[u].memos[u] = "kept"
    /\ MemoRead(r, u, "unmemo")

MemoCheck(r) ==
    /\ req[r].pc = "memo"
    /\ MayWrite(req[r])
    /\ Goto(r, "memoWrite")
    /\ UNCHANGED <<plan, categories, writable, view>>

\* Whether the plan is still shared is not looked at again.  The page then reads
\* the plan anew.
MemoWrite(r) ==
    LET q == req[r]
    IN  /\ q.pc = "memoWrite"
        /\ plan.live
        /\ plan.memos[q.user] = IF q.op = "memo" THEN "unwritten" ELSE "kept"
        /\ plan' = [plan EXCEPT !.memos[q.user] = IF q.op = "memo" THEN "kept" ELSE "deleted"]
        /\ Done(r)
        /\ UNCHANGED <<categories, writable, view>>

-----------------------------------------------------------------------------
(* The rest of the system *)

\* A check fails, a query throws, or the answer is lost on its way.
Fail(r) ==
    /\ req[r].pc # "idle"
    /\ End(r)
    /\ UNCHANGED <<plan, categories, writable, view>>

\* The subscription of the workspace's owner ends or is renewed.
AccessChanges ==
    /\ writable' = ~writable
    /\ UNCHANGED <<plan, categories, view, req>>

\* WorkspaceService.dissolve takes the plan out of the workspace.
Unshare ==
    /\ plan.live
    /\ plan.shared
    /\ plan.version < MaxVersion
    /\ plan' = [plan EXCEPT !.version = @ + 1, !.shared = FALSE]
    /\ UNCHANGED <<categories, writable, view, req>>

\* CategoryService.delete: the database clears the reference (onDelete:
\* SetNull), which gives the plan no new version.
DeleteCategory(u) ==
    /\ u \in categories
    /\ categories' = categories \ {u}
    /\ plan' = IF plan.category = u THEN [plan EXCEPT !.category = None] ELSE plan
    /\ UNCHANGED <<writable, view, req>>

Next ==
    \/ AccessChanges \/ Unshare
    \/ \E u \in Users : Load(u) \/ DeleteCategory(u)
    \/ \E r \in Requests :
        \/ Conflict(r) \/ Answer(r) \/ Fail(r)
        \/ UpdateCheck(r) \/ UpdateWrite(r) \/ ShareCheck(r) \/ ShareWrite(r)
        \/ Touch(r) \/ ItemCheck(r) \/ EditWrite(r) \/ RemoveWrite(r)
        \/ DeleteCheck(r) \/ DeleteWrite(r) \/ MemoCheck(r) \/ MemoWrite(r)
        \/ \E i \in Items : AddWrite(r, i)
        \/ \E u \in Users :
            \/ ShareRead(r, u) \/ DeleteRead(r, u) \/ CreateMemo(r, u) \/ DeleteMemo(r, u)
            \/ \E v \in Values : AddRead(r, u, v)
            \/ \E i \in Items, v \in Values \union {Undefined} : EditRead(r, u, i, v)
            \/ \E i \in Items : RemoveRead(r, u, i)
            \/ \E s \in Values \union {Undefined}, c \in {u, None, Undefined} :
                    UpdateRead(r, u, s, c)

Spec == Init /\ [][Next]_vars

-----------------------------------------------------------------------------
(* Properties *)

(***************************************************************************)
(* The optimistic lock is sound for the row: a screen whose version is the *)
(* current one shows the current summary and the current place of the      *)
(* plan, whichever updates, shares, dissolves and item operations ran.     *)
(***************************************************************************)
VersionIdentifiesRow ==
    \A u \in Users : view[u].version = plan.version =>
        /\ view[u].summary = plan.summary
        /\ view[u].shared = plan.shared

(***************************************************************************)
(* touchPlan lets one item operation through per version: two operations   *)
(* sent from the same state of the plan are never both under way.          *)
(***************************************************************************)
OneEditPerVersion ==
    \A r, s \in Requests :
        (r # s /\ {req[r].pc, req[s].pc} \subseteq {"item", "itemWrite"})
            => req[r].version # req[s].version

(***************************************************************************)
(* update writes the fields that were not sent with the values it read two *)
(* or three queries before: that never undoes what another update, a share *)
(* or the removal of a category did in between.                            *)
(***************************************************************************)
UpdateKeepsOthers ==
    [][\A r \in Requests :
        (req[r].pc = "updateWrite" /\ req'[r].pc = "answer") =>
            /\ req[r].val = Undefined => plan'.summary = plan.summary
            /\ req[r].category = Undefined => plan'.category = plan.category]_vars

(***************************************************************************)
(* Overlapping addItem requests may leave gaps and equal numbers; every    *)
(* deleteItem that succeeds numbers what is left 1, 2, ..., n again.       *)
(***************************************************************************)
DeleteRenumbers ==
    [][\A r \in Requests :
        (req[r].op = "remove" /\ req[r].pc = "itemWrite" /\ req'[r].pc = "answer") =>
            {plan'.items[i].order : i \in Rows(plan')} = 1 .. Cardinality(Rows(plan'))]_vars
=============================================================================
