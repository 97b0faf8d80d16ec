---------------------------- MODULE PagesProofs ----------------------------
(***************************************************************************)
(* Proofs about what the screens of the frontend work on: plans that are   *)
(* edited (PlanEdit) and the settings page (Settings).                     *)
(*                                                                         *)
(* PlanEdit is for every set of users, items, values and requests and      *)
(* every bound of the version; its run keeps the operations on the row, on *)
(* the items and on the memos apart, and nothing here does.  Settings is   *)
(* for every set of devices and scenes and every bound of the sessions and *)
(* calls; in its run a scene uses some sections only, and here each page   *)
(* may use all of them.                                                    *)
(***************************************************************************)
EXTENDS PlanEdit, Settings, FiniteSetTheorems, FunctionTheorems, TLAPS

USE NoneAssumption, UndefinedAssumption, OwnerAssumption, OpsAssumption, VersionAssumption,
    ItemsAssumption

-----------------------------------------------------------------------------
(* Types *)

\* What a request carries beside the columns' types.
FieldsOK(q) ==
    /\ q \in Request
    /\ q.op \in {"edit", "remove"} => q.item \in Items
    /\ q.op = "add" => q.val \in Values

RequestOK(q) == FieldsOK(q) /\ (q.pc # "idle" => q.user \in Users)

RequestsOK == req \in [Requests -> Request] /\ \A r \in Requests : RequestOK(req[r])

TablesOK ==
    /\ plan \in PlanRow
    /\ categories \subseteq Users
    /\ writable \in BOOLEAN
    /\ view \in [Users -> PlanRow]

TypeInv == TablesOK /\ RequestsOK

\* A deleted row, an unused id and an empty screen are well formed.
LEMMA BlankType == NoItem \in ItemRow /\ Blank \in PlanRow
  BY DEF NoItem, ItemRow, Blank, PlanRow

\* The items of a plan are finitely many.
LEMMA RowsFinite ==
  ASSUME NEW p PROVE Rows(p) \subseteq Items /\ IsFiniteSet(Rows(p))
  BY FS_Subset DEF Rows

\* What a request keeps of a plan is well formed.
LEMMA ReadType ==
  ASSUME NEW p \in PlanRow, NEW i \in Items \union {None} PROVE Read(p, i) \in Snapshot
<1>1. i # None => p.items[i].val \in Values \union {None}
  BY DEF PlanRow, ItemRow
<1> QED
  BY <1>1, RowsFinite DEF Read, Snapshot, PlanRow

\* A free request slot is well formed.
LEMMA IdleType == RequestOK(Idle)
<1>1. Read(Blank, None) \in Snapshot
  BY BlankType, ReadType
<1> QED
  BY <1>1 DEF RequestOK, FieldsOK, Idle, Request, PC

\* Replacing one request by a well formed one keeps all of them well formed.
LEMMA RequestsType ==
  ASSUME RequestsOK, NEW r \in Requests, NEW q, RequestOK(q), req' = [req EXCEPT ![r] = q]
  PROVE  RequestsOK'
<1>1. q \in Request
  BY DEF RequestOK, FieldsOK
<1>2. req' \in [Requests -> Request]
  BY <1>1 DEF RequestsOK
<1>3. \A s \in Requests : RequestOK(req'[s])
  BY DEF RequestsOK
<1> QED
  BY <1>2, <1>3 DEF RequestsOK, RequestOK

\* A handler that ends leaves well formed requests.
LEMMA EndType == ASSUME RequestsOK, NEW r \in Requests, End(r) PROVE RequestsOK'
  BY IdleType, RequestsType DEF End

\* So does one that has written and has its last get to do.
LEMMA DoneType ==
  ASSUME RequestsOK, NEW r \in Requests, req[r].pc # "idle", Done(r) PROVE RequestsOK'
<1> DEFINE q == [Idle EXCEPT !.pc = "answer", !.user = req[r].user]
<1>1. req[r].user \in Users
  BY DEF RequestsOK, RequestOK
<1>2. RequestOK(q)
  BY <1>1, IdleType DEF RequestOK, FieldsOK, Idle, Request, PC
<1> QED
  BY <1>2, RequestsType DEF Done

\* And one that goes on to its next step.
LEMMA GotoType ==
  ASSUME RequestsOK, NEW r \in Requests, req[r].pc # "idle", NEW pc \in PC, Goto(r, pc)
  PROVE  RequestsOK'
<1> DEFINE q == [req[r] EXCEPT !.pc = pc]
<1>1. RequestOK(req[r])
  BY DEF RequestsOK
<1>2. RequestOK(q)
  BY <1>1 DEF RequestOK, FieldsOK, Request
<1> QED
  BY <1>2, RequestsType DEF Goto

\* And one that has just read the plan.
LEMMA BeginType ==
  ASSUME TypeInv, NEW r \in Requests, NEW u \in Users, NEW q, FieldsOK(q), Begin(r, u, q)
  PROVE  RequestsOK'
<1> DEFINE next == [q EXCEPT !.user = u, !.version = view[u].version, !.snap = Read(plan, q.item)]
<1>1. plan \in PlanRow /\ view[u].version \in Nat /\ q.item \in Items \union {None}
  BY DEF TypeInv, TablesOK, PlanRow, FieldsOK, Request
<1>2. Read(plan, q.item) \in Snapshot
  BY <1>1, ReadType
<1>3. RequestOK(next)
  BY <1>1, <1>2 DEF RequestOK, FieldsOK, Request
<1>4. req' = [req EXCEPT ![r] = next]
  BY DEF Begin
<1> HIDE DEF next
<1> QED
  BY <1>3, <1>4, RequestsType DEF TypeInv

\* The state the service starts from is well formed.
LEMMA TypeInit == Init => TypeInv
<1> SUFFICES ASSUME Init PROVE TypeInv
  OBVIOUS
<1>1. plan \in PlanRow
  <2>1. PICK shared \in BOOLEAN, items \in NewItems :
          plan = NewPlan(shared, items)
    BY DEF Init, NewPlans
  <2>2. NumberedRow \union {NoItem} \subseteq ItemRow
    BY BlankType, FS_CardinalityType DEF NumberedRow, ItemRow
  <2>3. items \in [Items -> ItemRow]
    BY <2>2 DEF NewItems
  <2> QED
    BY <2>1, <2>3, BlankType DEF NewPlan, PlanRow
<1>2. RequestsOK
  BY IdleType DEF Init, RequestsOK, RequestOK, FieldsOK
<1> QED
  BY <1>1, <1>2, BlankType DEF Init, TypeInv, TablesOK

\* A step that only reads keeps the tables well formed.
LEMMA QuietType ==
  ASSUME TablesOK, UNCHANGED <<plan, categories, writable, view>> PROVE TablesOK'
  BY DEF TablesOK

\* A step that writes the plan does, when the row it writes is well formed.
LEMMA WriteType ==
  ASSUME TablesOK, plan' \in PlanRow, UNCHANGED <<categories, writable, view>> PROVE TablesOK'
  BY DEF TablesOK

\* What the handlers write is well formed.
LEMMA PlanWritten ==
  ASSUME NEW p \in PlanRow
  PROVE  /\ \A s \in Values \union {None}, c \in Users \union {None} :
              [p EXCEPT !.version = @ + 1, !.summary = s, !.category = c] \in PlanRow
         /\ [p EXCEPT !.version = @ + 1, !.shared = TRUE, !.category = None] \in PlanRow
         /\ [p EXCEPT !.version = @ + 1] \in PlanRow
         /\ [p EXCEPT !.version = @ + 1, !.shared = FALSE] \in PlanRow
         /\ [p EXCEPT !.category = None] \in PlanRow
         /\ \A items \in [Items -> ItemRow] : [p EXCEPT !.items = items] \in PlanRow
         /\ \A memos \in [Users -> {"unwritten", "kept", "deleted"}] :
              [p EXCEPT !.memos = memos] \in PlanRow
<1> DEFINE n == p.version + 1
<1>1. n \in Nat
  BY DEF PlanRow
<1> HIDE DEF n
<1>2. ASSUME NEW s \in Values \union {None}, NEW c \in Users \union {None}
      PROVE  [p EXCEPT !.version = n, !.summary = s, !.category = c] \in PlanRow
  BY <1>1 DEF PlanRow
<1>3. [p EXCEPT !.version = n, !.shared = TRUE, !.category = None] \in PlanRow
  BY <1>1 DEF PlanRow
<1>4. [p EXCEPT !.version = n] \in PlanRow /\ [p EXCEPT !.version = n, !.shared = FALSE] \in PlanRow
  BY <1>1 DEF PlanRow
<1>5. [p EXCEPT !.category = None] \in PlanRow
  BY DEF PlanRow
<1>6. \A items \in [Items -> ItemRow] : [p EXCEPT !.items = items] \in PlanRow
  BY DEF PlanRow
<1>7. \A memos \in [Users -> {"unwritten", "kept", "deleted"}] : [p EXCEPT !.memos = memos] \in PlanRow
  BY DEF PlanRow
<1> QED
  BY <1>2, <1>3, <1>4, <1>5, <1>6, <1>7 DEF n

\* A field of a DTO, or the value it takes the place of, is a value.
LEMMA OrType ==
  /\ \A f \in Values \union {None, Undefined}, c \in Values \union {None} : Or(f, c) \in Values \union {None}
  /\ \A f \in Users \union {None, Undefined}, c \in Users \union {None} : Or(f, c) \in Users \union {None}
  BY DEF Or

\* The operations that a request begins with a read of the plan.
Begins(r, u) ==
    \/ ShareRead(r, u) \/ DeleteRead(r, u) \/ CreateMemo(r, u) \/ DeleteMemo(r, u)
    \/ \E v \in Values : AddRead(r, u, v)
    \/ \E i \in Items, v \in Values \union {Undefined} : EditRead(r, u, i, v)
    \/ \E i \in Items : RemoveRead(r, u, i)
    \/ \E s \in Values \union {Undefined}, c \in {u, None, Undefined} : UpdateRead(r, u, s, c)

\* Where they go on.
Starts == {"update", "share", "touch", "delete", "memo"}

\* Each of them starts from a well formed request.
LEMMA BegunOK ==
  ASSUME NEW r, NEW u \in Users, Begins(r, u)
  PROVE  \E q : FieldsOK(q) /\ q.pc \in Starts /\ Begin(r, u, q)
<1>1. Idle \in Request /\ Idle.op = "none"
  BY IdleType DEF RequestOK, FieldsOK, Idle
<1>2. ASSUME NEW pc \in Starts, NEW op \in {"share", "delete", "memo", "unmemo"},
             Begin(r, u, [Idle EXCEPT !.pc = pc, !.op = op])
      PROVE  \E q : FieldsOK(q) /\ q.pc \in Starts /\ Begin(r, u, q)
  <2> DEFINE q == [Idle EXCEPT !.pc = pc, !.op = op]
  <2>1. q.op = op /\ q.pc = pc
    BY DEF Idle
  <2>2. op \in Ops
    BY <1>2, <2>1 DEF Begin
  <2>3. q \in Request
    BY <1>1, <2>2 DEF Request, PC, Starts
  <2> QED
    BY <1>2, <2>1, <2>3 DEF FieldsOK
<1>3. ASSUME NEW i \in Items \union {None}, NEW v \in Values \union {None, Undefined},
             NEW op \in {"add", "edit", "remove"},
             op # "add" => i \in Items, op = "add" => v \in Values,
             Begin(r, u, [Idle EXCEPT !.pc = "touch", !.op = op, !.item = i, !.val = v])
      PROVE  \E q : FieldsOK(q) /\ q.pc \in Starts /\ Begin(r, u, q)
  <2> DEFINE q == [Idle EXCEPT !.pc = "touch", !.op = op, !.item = i, !.val = v]
  <2>1. q.op = op /\ q.pc = "touch" /\ q.item = i /\ q.val = v
    BY DEF Idle
  <2>2. op \in Ops
    BY <1>3, <2>1 DEF Begin
  <2>3. q \in Request
    BY <1>1, <2>2 DEF Request, PC
  <2> QED
    BY <1>3, <2>1, <2>3 DEF FieldsOK, Starts
<1>4. ASSUME NEW s \in Values \union {Undefined}, NEW c \in {u, None, Undefined},
             Begin(r, u, [Idle EXCEPT !.pc = "update", !.op = "update", !.val = s, !.category = c])
      PROVE  \E q : FieldsOK(q) /\ q.pc \in Starts /\ Begin(r, u, q)
  <2> DEFINE q == [Idle EXCEPT !.pc = "update", !.op = "update", !.val = s, !.category = c]
  <2>1. q.op = "update" /\ q.pc = "update"
    BY DEF Idle
  <2>2. "update" \in Ops
    BY <1>4, <2>1 DEF Begin
  <2>3. q \in Request
    BY <1>1, <2>2 DEF Request, PC
  <2> QED
    BY <1>4, <2>1, <2>3 DEF FieldsOK, Starts
<1>5. CASE ShareRead(r, u) \/ DeleteRead(r, u) \/ CreateMemo(r, u) \/ DeleteMemo(r, u)
  BY <1>2, <1>5 DEF ShareRead, DeleteRead, CreateMemo, DeleteMemo, MemoRead, Starts
<1>6. CASE \/ \E v \in Values : AddRead(r, u, v)
           \/ \E i \in Items, v \in Values \union {Undefined} : EditRead(r, u, i, v)
           \/ \E i \in Items : RemoveRead(r, u, i)
  BY <1>3, <1>6 DEF AddRead, EditRead, RemoveRead, ItemRead
<1>7. CASE \E s \in Values \union {Undefined}, c \in {u, None, Undefined} : UpdateRead(r, u, s, c)
  BY <1>4, <1>7 DEF UpdateRead
<1> QED
  BY <1>5, <1>6, <1>7 DEF Begins

\* A request that begins keeps everything well formed.
LEMMA BeginKeepsType ==
  ASSUME TypeInv, NEW r \in Requests, NEW u \in Users, NEW q, FieldsOK(q), Begin(r, u, q)
  PROVE  TypeInv'
  BY BeginType, QuietType DEF Begin, TypeInv

\* update and share write a well formed row.
LEMMA RowWriteType ==
  ASSUME TypeInv, NEW r \in Requests, UpdateWrite(r) \/ ShareWrite(r) PROVE TypeInv'
<1>1. plan \in PlanRow /\ RequestOK(req[r]) /\ req[r].snap \in Snapshot
  BY DEF TypeInv, TablesOK, RequestsOK, RequestOK, FieldsOK, Request
<1>2. CASE UpdateWrite(r)
  <2>1. /\ Or(req[r].val, req[r].snap.summary) \in Values \union {None}
        /\ Or(req[r].category, req[r].snap.category) \in Users \union {None}
    BY <1>1, OrType DEF RequestOK, FieldsOK, Request, Snapshot
  <2>2. plan' \in PlanRow
    BY <1>1, <1>2, <2>1, PlanWritten DEF UpdateWrite
  <2> QED
    BY <1>2, <2>2, DoneType, WriteType DEF UpdateWrite, TypeInv
<1>3. CASE ShareWrite(r)
  BY <1>1, <1>3, PlanWritten, DoneType, WriteType DEF ShareWrite, TypeInv
<1> QED
  BY <1>2, <1>3

\* addItem, updateItem and deleteItem write well formed rows.
LEMMA ItemWriteType ==
  ASSUME TypeInv, NEW r \in Requests,
         EditWrite(r) \/ RemoveWrite(r) \/ \E i \in Items : AddWrite(r, i)
  PROVE  TypeInv'
<1> DEFINE q == req[r]
<1>1. plan \in PlanRow /\ plan.items \in [Items -> ItemRow] /\ RequestOK(q) /\ q.snap \in Snapshot
  BY DEF TypeInv, TablesOK, PlanRow, RequestsOK, RequestOK, FieldsOK, Request
<1>2. ASSUME NEW items \in [Items -> ItemRow], plan' = [plan EXCEPT !.items = items],
             UNCHANGED <<categories, writable, view>>, q.pc # "idle", Done(r)
      PROVE  TypeInv'
  BY <1>1, <1>2, PlanWritten, DoneType, WriteType DEF TypeInv
<1>3. ASSUME NEW i \in Items, AddWrite(r, i) PROVE TypeInv'
  <2>1. Cardinality(q.snap.rows) + 1 \in Nat /\ q.val \in Values
    <3>1. q.snap.rows \subseteq Items
      BY <1>1 DEF Snapshot
    <3> QED
      BY <1>1, <1>3, <3>1, FS_Subset, FS_CardinalityType DEF AddWrite, RequestOK, FieldsOK
  <2> DEFINE items == [plan.items EXCEPT ![i] = [order |-> Cardinality(q.snap.rows) + 1, val |-> q.val]]
  <2>2. items \in [Items -> ItemRow]
    BY <1>1, <2>1 DEF ItemRow
  <2>3. plan' = [plan EXCEPT !.items = items]
    BY <1>1, <1>3 DEF AddWrite, PlanRow
  <2> QED
    BY <1>2, <1>3, <2>2, <2>3 DEF AddWrite
<1>4. CASE EditWrite(r)
  <2>1. Or(q.val, q.snap.val) \in Values \union {None}
    BY <1>1, OrType DEF RequestOK, FieldsOK, Request, Snapshot
  <2> DEFINE items == [plan.items EXCEPT ![q.item].val = Or(q.val, q.snap.val)]
  <2>2. items \in [Items -> ItemRow]
    BY <1>1, <2>1 DEF ItemRow
  <2>3. plan' = [plan EXCEPT !.items = items]
    BY <1>1, <1>4 DEF EditWrite, PlanRow
  <2> QED
    BY <1>2, <1>4, <2>2, <2>3 DEF EditWrite
<1>5. CASE RemoveWrite(r)
  <2>1. PICK rn \in Renumberings(q.item) :
          plan' = [plan EXCEPT !.items = [j \in Items |->
                     IF j = q.item THEN [@[j] EXCEPT !.order = 0]
                     ELSE IF j \in DOMAIN rn THEN [@[j] EXCEPT !.order = rn[j]]
                     ELSE @[j]]]
    BY <1>5 DEF RemoveWrite
  <2> DEFINE items == [j \in Items |->
                         IF j = q.item THEN [plan.items[j] EXCEPT !.order = 0]
                         ELSE IF j \in DOMAIN rn THEN [plan.items[j] EXCEPT !.order = rn[j]]
                         ELSE plan.items[j]]
  <2>2. \A j \in DOMAIN rn : rn[j] \in Nat
    <3>1. Rows(plan) \ {q.item} \subseteq Items
      BY RowsFinite
    <3>2. Cardinality(Rows(plan) \ {q.item}) \in Nat
      BY <3>1, FS_Subset, FS_CardinalityType
    <3> QED
      BY <3>2 DEF Renumberings
  <2>3. items \in [Items -> ItemRow]
    BY <1>1, <2>2 DEF ItemRow
  <2>4. plan' = [plan EXCEPT !.items = items]
    BY <1>1, <2>1
  <2> QED
    BY <1>2, <1>5, <2>3, <2>4 DEF RemoveWrite
<1> QED
  BY <1>3, <1>4, <1>5

\* So do delete and the memos.
LEMMA MemoWriteType ==
  ASSUME TypeInv, NEW r \in Requests, DeleteWrite(r) \/ MemoWrite(r) PROVE TypeInv'
<1>1. plan \in PlanRow /\ RequestOK(req[r])
  BY DEF TypeInv, TablesOK, RequestsOK
<1>2. CASE DeleteWrite(r)
  <2> DEFINE items == [i \in Items |-> [plan.items[i] EXCEPT !.order = 0]]
             memos == [u \in Users |-> "deleted"]
  <2>1. plan' \in PlanRow
    <3>1. items \in [Items -> ItemRow] /\ memos \in [Users -> {"unwritten", "kept", "deleted"}]
      BY <1>1 DEF PlanRow, ItemRow
    <3>2. plan' = [plan EXCEPT !.live = FALSE, !.items = items, !.memos = memos]
      BY <1>2 DEF DeleteWrite
    <3> HIDE DEF items, memos
    <3> QED
      BY <1>1, <3>1, <3>2 DEF PlanRow
  <2> QED
    BY <1>2, <2>1, EndType, WriteType DEF DeleteWrite, TypeInv
<1>3. CASE MemoWrite(r)
  <2> DEFINE memos == [plan.memos EXCEPT ![req[r].user] = IF req[r].op = "memo" THEN "kept" ELSE "deleted"]
  <2>1. memos \in [Users -> {"unwritten", "kept", "deleted"}]
    BY <1>1 DEF PlanRow
  <2>2. plan' = [plan EXCEPT !.memos = memos]
    BY <1>1, <1>3 DEF MemoWrite, PlanRow
  <2>3. plan' \in PlanRow
    BY <1>1, <2>1, <2>2, PlanWritten
  <2> QED
    BY <1>3, <2>3, DoneType, WriteType DEF MemoWrite, TypeInv
<1> QED
  BY <1>2, <1>3

\* The state stays well formed.
LEMMA TypeStep == TypeInv /\ [Next]_vars => TypeInv'
<1> SUFFICES ASSUME TypeInv, [Next]_vars PROVE TypeInv'
  OBVIOUS
<1>1. CASE AccessChanges \/ Unshare
  BY <1>1, PlanWritten DEF AccessChanges, Unshare, TypeInv, TablesOK, RequestsOK
<1>2. ASSUME NEW u \in Users, Load(u) \/ DeleteCategory(u) PROVE TypeInv'
  BY <1>2, PlanWritten DEF Load, DeleteCategory, TypeInv, TablesOK, RequestsOK
<1>3. ASSUME NEW r \in Requests, Conflict(r) \/ Fail(r) PROVE TypeInv'
  BY <1>3, EndType, QuietType DEF Conflict, Fail, TypeInv
<1>4. ASSUME NEW r \in Requests, Answer(r) PROVE TypeInv'
  BY <1>4, EndType DEF Answer, TypeInv, TablesOK
<1>5. ASSUME NEW r \in Requests,
             UpdateCheck(r) \/ ShareCheck(r) \/ ItemCheck(r) \/ DeleteCheck(r) \/ MemoCheck(r)
      PROVE  TypeInv'
  <2>1. /\ req[r].pc # "idle" /\ UNCHANGED <<plan, categories, writable, view>>
        /\ \E pc \in PC : Goto(r, pc)
    BY <1>5 DEF UpdateCheck, ShareCheck, ItemCheck, DeleteCheck, MemoCheck, PC
  <2> QED
    BY <2>1, GotoType, QuietType DEF TypeInv
<1>6. ASSUME NEW r \in Requests, Touch(r) PROVE TypeInv'
  BY <1>6, PlanWritten, GotoType, WriteType DEF Touch, TypeInv, TablesOK, PC
<1>7. ASSUME NEW r \in Requests, UpdateWrite(r) \/ ShareWrite(r) PROVE TypeInv'
  BY <1>7, RowWriteType
<1>8. ASSUME NEW r \in Requests,
             EditWrite(r) \/ RemoveWrite(r) \/ \E i \in Items : AddWrite(r, i)
      PROVE  TypeInv'
  BY <1>8, ItemWriteType
<1>9. ASSUME NEW r \in Requests, DeleteWrite(r) \/ MemoWrite(r) PROVE TypeInv'
  BY <1>9, MemoWriteType
<1>10. ASSUME NEW r \in Requests, NEW u \in Users, Begins(r, u) PROVE TypeInv'
  BY <1>10, BegunOK, BeginKeepsType
<1>11. CASE UNCHANGED vars
  BY <1>11 DEF vars, TypeInv, TablesOK, RequestsOK
<1> QED
  BY <1>1, <1>2, <1>3, <1>4, <1>5, <1>6, <1>7, <1>8, <1>9, <1>10, <1>11 DEF Next, Begins

\* Every reachable state is well typed, the plan and what each screen and each
\* request keeps of it.
THEOREM TypeCorrect == Spec => []TypeInv
  BY TypeInit, TypeStep, PTL DEF Spec

-----------------------------------------------------------------------------
(* The optimistic lock *)

(***************************************************************************)
(* None of the properties is inductive alone.  What they share: a version  *)
(* names one content of the row from the moment a screen shows it, also in *)
(* the requests sent from that screen.  A request reads the row after its  *)
(* screen did, so the row it keeps may be newer than its version; the two  *)
(* belong together when the version is still the current one, and that is  *)
(* when they are used.  The category is the exception: it may be taken     *)
(* away under a version, and then the one that was read exists no longer.  *)
(***************************************************************************)
Updating == {"update", "updateWrite"}
Touched  == {"item", "itemWrite"}

SameRow(p) == p.summary = plan.summary /\ p.shared = plan.shared

ViewsCurrent ==
    /\ plan.version >= 1
    /\ \A u \in Users : /\ view[u].version <= plan.version
                        /\ view[u].version = plan.version => SameRow(view[u])

RequestCurrent(q) ==
    /\ q.pc \in Updating =>
        /\ q.version <= plan.version
        /\ q.version = plan.version =>
            /\ q.snap.summary = plan.summary
            /\ q.snap.category = plan.category \/ q.snap.category \notin categories \union {None}
    /\ q.pc \in Touched => q.version < plan.version

RequestsCurrent == \A r \in Requests : RequestCurrent(req[r])

LockInv == TypeInv /\ ViewsCurrent /\ RequestsCurrent /\ OneEditPerVersion

\* A step that leaves the row to the version it has: it may take away its category.
RowKept ==
    /\ plan'.version = plan.version /\ plan'.summary = plan.summary /\ plan'.shared = plan.shared
    /\ categories' \subseteq categories
    /\ \/ plan'.category = plan.category
       \/ plan'.category = None /\ plan.category \notin categories'

NewVersion == plan'.version = plan.version + 1 /\ UNCHANGED <<categories, view>>

\* Whatever changes the row otherwise gives it the next version.
LEMMA RowMoves == TypeInv /\ [Next]_vars => RowKept \/ NewVersion
<1> SUFFICES ASSUME TypeInv, [Next]_vars PROVE RowKept \/ NewVersion
  OBVIOUS
<1>1. plan \in PlanRow /\ plan.version \in Nat
  BY DEF TypeInv, TablesOK, PlanRow
<1>2. ASSUME UNCHANGED <<plan, categories>> PROVE RowKept
  BY <1>2 DEF RowKept
<1>3. ASSUME NEW r \in Requests,
             \/ Conflict(r) \/ Answer(r) \/ Fail(r) \/ UpdateCheck(r) \/ ShareCheck(r)
             \/ ItemCheck(r) \/ DeleteCheck(r) \/ MemoCheck(r)
      PROVE  RowKept
  BY <1>2, <1>3 DEF Conflict, Answer, Fail, UpdateCheck, ShareCheck, ItemCheck, DeleteCheck, MemoCheck
<1>4. ASSUME NEW r, NEW u \in Users, Begins(r, u) PROVE RowKept
  BY <1>2, <1>4, BegunOK DEF Begin
<1>5. CASE AccessChanges \/ \E u \in Users : Load(u)
  BY <1>2, <1>5 DEF AccessChanges, Load
<1>6. ASSUME NEW u \in Users, DeleteCategory(u) PROVE RowKept
  BY <1>1, <1>6 DEF DeleteCategory, RowKept, PlanRow
<1>7. ASSUME NEW r \in Requests,
             \/ EditWrite(r) \/ RemoveWrite(r) \/ \E i \in Items : AddWrite(r, i)
             \/ DeleteWrite(r) \/ MemoWrite(r)
      PROVE  RowKept
  <2>1. /\ UNCHANGED categories
        /\ \/ \E items : plan' = [plan EXCEPT !.items = items]
           \/ \E items, memos : plan' = [plan EXCEPT !.live = FALSE, !.items = items, !.memos = memos]
           \/ \E memos : plan' = [plan EXCEPT !.memos = memos]
    <3>1. CASE EditWrite(r) \/ \E i \in Items : AddWrite(r, i)
      BY <3>1 DEF EditWrite, AddWrite
    <3>2. CASE RemoveWrite(r)
      BY <3>2 DEF RemoveWrite
    <3>3. CASE DeleteWrite(r) \/ MemoWrite(r)
      BY <3>3 DEF DeleteWrite, MemoWrite
    <3> QED
      BY <1>7, <3>1, <3>2, <3>3
  <2> QED
    BY <1>1, <2>1 DEF RowKept, PlanRow
<1>8. ASSUME NEW r \in Requests, UpdateWrite(r) \/ ShareWrite(r) \/ Touch(r) PROVE NewVersion
  BY <1>1, <1>8 DEF UpdateWrite, ShareWrite, Touch, NewVersion, PlanRow
<1>9. CASE Unshare
  BY <1>1, <1>9 DEF Unshare, NewVersion, PlanRow
<1>10. CASE UNCHANGED vars
  BY <1>2, <1>10 DEF vars
<1> QED
  BY <1>3, <1>4, <1>5, <1>6, <1>7, <1>8, <1>9, <1>10 DEF Next, Begins

\* A screen changes only to show the plan as it is.
LEMMA ViewMoves ==
  ASSUME TypeInv, [Next]_vars, NEW u \in Users
  PROVE  view'[u] = view[u] \/ (UNCHANGED plan /\ view'[u] = plan)
<1>1. view \in [Users -> PlanRow]
  BY DEF TypeInv, TablesOK
<1>2. ASSUME NEW r \in Requests, Answer(r) PROVE view'[u] = view[u] \/ (UNCHANGED plan /\ view'[u] = plan)
  BY <1>1, <1>2 DEF Answer
<1>3. ASSUME NEW x \in Users, Load(x) PROVE view'[u] = view[u] \/ (UNCHANGED plan /\ view'[u] = plan)
  BY <1>1, <1>3 DEF Load
<1>4. ASSUME NEW r \in Requests,
             \/ Conflict(r) \/ Fail(r) \/ UpdateCheck(r) \/ ShareCheck(r)
             \/ ItemCheck(r) \/ DeleteCheck(r) \/ MemoCheck(r)
             \/ EditWrite(r) \/ RemoveWrite(r) \/ \E i \in Items : AddWrite(r, i)
             \/ DeleteWrite(r) \/ MemoWrite(r) \/ UpdateWrite(r) \/ ShareWrite(r) \/ Touch(r)
      PROVE  UNCHANGED view
  BY <1>4 DEF Conflict, Fail, UpdateCheck, ShareCheck, ItemCheck, DeleteCheck, MemoCheck,
              EditWrite, RemoveWrite, AddWrite, DeleteWrite, MemoWrite, UpdateWrite, ShareWrite, Touch
<1>5. ASSUME NEW r, NEW x \in Users, Begins(r, x) PROVE UNCHANGED view
  BY <1>5, BegunOK DEF Begin
<1>6. CASE AccessChanges \/ Unshare \/ \E x \in Users : DeleteCategory(x)
  BY <1>6 DEF AccessChanges, Unshare, DeleteCategory
<1>7. CASE UNCHANGED vars
  BY <1>7 DEF vars
<1> QED
  BY <1>2, <1>3, <1>4, <1>5, <1>6, <1>7 DEF Next, Begins

\* How a request comes to where the lock matters.
Moves(r) ==
    \/ req'[r] = req[r]
    \/ req'[r].pc \notin Updating \union Touched
    \/ /\ UNCHANGED <<plan, categories>>
       /\ req'[r].pc = "update"
       /\ req'[r].snap = Read(plan, req'[r].item)
       /\ \E u \in Users : req'[r].version = view[u].version
    \/ /\ UNCHANGED <<plan, categories>>
       /\ \/ req[r].pc = "update" /\ req' = [req EXCEPT ![r].pc = "updateWrite"]
          \/ req[r].pc = "item" /\ req' = [req EXCEPT ![r].pc = "itemWrite"]
    \/ Touch(r)

\* There is no other way.
LEMMA RequestMoves ==
  ASSUME TypeInv, [Next]_vars, NEW r \in Requests PROVE Moves(r)
<1>1. req \in [Requests -> Request]
  BY DEF TypeInv, RequestsOK
<1>2. ASSUME NEW x \in Requests, End(x) \/ Done(x) PROVE Moves(r)
  <2>1. req'[r] = req[r] \/ req'[r].pc \in {"idle", "answer"}
    <3>1. CASE End(x)
      BY <1>1, <3>1 DEF End, Idle
    <3>2. CASE Done(x)
      <4> DEFINE q == [Idle EXCEPT !.pc = "answer", !.user = req[x].user]
      <4>1. q.pc = "answer" /\ req' = [req EXCEPT ![x] = q]
        BY <3>2 DEF Done, Idle
      <4> HIDE DEF q
      <4> QED
        BY <1>1, <4>1
    <3> QED
      BY <1>2, <3>1, <3>2
  <2> QED
    BY <2>1 DEF Moves, Updating, Touched
<1>3. ASSUME NEW x \in Requests,
             \/ Conflict(x) \/ Answer(x) \/ Fail(x) \/ UpdateWrite(x) \/ ShareWrite(x)
             \/ EditWrite(x) \/ RemoveWrite(x) \/ \E i \in Items : AddWrite(x, i)
             \/ DeleteWrite(x) \/ MemoWrite(x)
      PROVE  Moves(r)
  <2>1. End(x) \/ Done(x)
    BY <1>3 DEF Conflict, Answer, Fail, UpdateWrite, ShareWrite, EditWrite, RemoveWrite,
                AddWrite, DeleteWrite, MemoWrite
  <2> QED
    BY <1>2, <2>1
<1>4. ASSUME NEW x \in Requests, UpdateCheck(x) \/ ItemCheck(x) PROVE Moves(r)
  <2>1. /\ UNCHANGED <<plan, categories>>
        /\ \/ req[x].pc = "update" /\ req' = [req EXCEPT ![x].pc = "updateWrite"]
           \/ req[x].pc = "item" /\ req' = [req EXCEPT ![x].pc = "itemWrite"]
    BY <1>4 DEF UpdateCheck, ItemCheck, Goto
  <2> QED
    BY <1>1, <2>1 DEF Moves
<1>5. ASSUME NEW x \in Requests, ShareCheck(x) \/ DeleteCheck(x) \/ MemoCheck(x) PROVE Moves(r)
  <2>1. \E pc \in {"shareWrite", "deleteWrite", "memoWrite"} : req' = [req EXCEPT ![x].pc = pc]
    BY <1>5 DEF ShareCheck, DeleteCheck, MemoCheck, Goto
  <2> QED
    BY <1>1, <2>1 DEF Request, Moves, Updating, Touched
<1>6. ASSUME NEW x \in Requests, Touch(x) PROVE Moves(r)
  BY <1>1, <1>6 DEF Touch, Goto, Moves
<1>7. ASSUME NEW x \in Requests, NEW u \in Users, Begins(x, u) PROVE Moves(r)
  <2>1. PICK q : FieldsOK(q) /\ q.pc \in Starts /\ Begin(x, u, q)
    BY <1>7, BegunOK
  <2> DEFINE next == [q EXCEPT !.user = u, !.version = view[u].version, !.snap = Read(plan, q.item)]
  <2>2. req' = [req EXCEPT ![x] = next] /\ UNCHANGED <<plan, categories>>
    BY <2>1 DEF Begin
  <2>3. /\ next.pc = q.pc /\ next.version = view[u].version /\ next.item = q.item
        /\ next.snap = Read(plan, q.item)
    BY <2>1 DEF FieldsOK, Request
  <2> HIDE DEF next
  <2>4. q.pc = "update" \/ q.pc \notin Updating \union Touched
    BY <2>1 DEF Starts, Updating, Touched
  <2> QED
    BY <1>1, <2>2, <2>3, <2>4 DEF Moves
<1>8. ASSUME UNCHANGED req PROVE Moves(r)
  BY <1>8 DEF Moves
<1>9. CASE AccessChanges \/ Unshare \/ \E x \in Users : Load(x) \/ DeleteCategory(x)
  BY <1>8, <1>9 DEF AccessChanges, Unshare, Load, DeleteCategory
<1>10. CASE UNCHANGED vars
  BY <1>8, <1>10 DEF vars
<1> QED
  BY <1>3, <1>4, <1>5, <1>6, <1>7, <1>9, <1>10 DEF Next, Begins

\* The screens stay current.
LEMMA ViewsKept == LockInv /\ [Next]_vars => ViewsCurrent'
<1> SUFFICES ASSUME LockInv, [Next]_vars PROVE ViewsCurrent'
  OBVIOUS
<1>1. /\ ViewsCurrent /\ TypeInv /\ plan.version \in Nat
      /\ \A u \in Users : view[u].version \in Nat
  BY DEF LockInv, TypeInv, TablesOK, PlanRow
<1>2. CASE RowKept
  <2>1. plan'.version >= 1
    BY <1>1, <1>2 DEF RowKept, ViewsCurrent
  <2>2. ASSUME NEW u \in Users
        PROVE  /\ view'[u].version <= plan'.version
               /\ view'[u].version = plan'.version
                    => view'[u].summary = plan'.summary /\ view'[u].shared = plan'.shared
    <3>1. CASE view'[u] = view[u]
      BY <1>1, <1>2, <3>1 DEF RowKept, ViewsCurrent, SameRow
    <3>2. CASE UNCHANGED plan /\ view'[u] = plan
      BY <1>1, <3>2
    <3> QED
      BY <1>1, <3>1, <3>2, ViewMoves
  <2> QED
    BY <2>1, <2>2 DEF ViewsCurrent, SameRow
<1>3. CASE NewVersion
  BY <1>1, <1>3 DEF NewVersion, ViewsCurrent
<1> QED
  BY <1>1, <1>2, <1>3, RowMoves

\* What the requests keep stays current, or is out of date and known to be.
LEMMA RequestsKept == LockInv /\ [Next]_vars => RequestsCurrent'
<1> SUFFICES ASSUME LockInv, [Next]_vars, NEW r \in Requests PROVE RequestCurrent(req[r])'
  BY DEF RequestsCurrent
<1>1. /\ ViewsCurrent /\ TypeInv /\ plan.version \in Nat
      /\ req \in [Requests -> Request] /\ RequestCurrent(req[r]) /\ req[r].version \in Nat
      /\ \A u \in Users : view[u].version \in Nat
  BY DEF LockInv, TypeInv, TablesOK, PlanRow, RequestsOK, RequestsCurrent, Request
<1>2. CASE req'[r] = req[r]
  <2>1. CASE RowKept
    BY <1>1, <1>2, <2>1 DEF RequestCurrent, RowKept, Updating, Touched
  <2>2. CASE NewVersion
    BY <1>1, <1>2, <2>2 DEF RequestCurrent, NewVersion, Updating, Touched
  <2> QED
    BY <1>1, <2>1, <2>2, RowMoves
<1>3. CASE req'[r].pc \notin Updating \union Touched
  BY <1>3 DEF RequestCurrent
<1>4. CASE /\ UNCHANGED <<plan, categories>>
           /\ req'[r].pc = "update"
           /\ req'[r].snap = Read(plan, req'[r].item)
           /\ \E u \in Users : req'[r].version = view[u].version
  BY <1>1, <1>4 DEF RequestCurrent, ViewsCurrent, Read, Updating, Touched
<1>5. CASE /\ UNCHANGED <<plan, categories>>
           /\ \/ req[r].pc = "update" /\ req' = [req EXCEPT ![r].pc = "updateWrite"]
              \/ req[r].pc = "item" /\ req' = [req EXCEPT ![r].pc = "itemWrite"]
  <2>1. /\ req'[r].version = req[r].version /\ req'[r].snap = req[r].snap
        /\ \/ req[r].pc = "update" /\ req'[r].pc = "updateWrite"
           \/ req[r].pc = "item" /\ req'[r].pc = "itemWrite"
    BY <1>1, <1>5 DEF Request
  <2> QED
    BY <1>1, <1>5, <2>1 DEF RequestCurrent, Updating, Touched
<1>6. CASE Touch(r)
  <2>1. /\ req'[r].pc = "item" /\ req'[r].version = req[r].version
        /\ req[r].version = plan.version /\ plan'.version = plan.version + 1
    BY <1>1, <1>6 DEF Touch, Goto, Matches, Request, TypeInv, TablesOK, PlanRow
  <2> QED
    BY <1>1, <2>1 DEF RequestCurrent, Updating, Touched
<1> QED
  BY <1>1, <1>2, <1>3, <1>4, <1>5, <1>6, RequestMoves DEF Moves

\* Touching the plan takes its version away from everybody else.
LEMMA OneEditKept == LockInv /\ [Next]_vars => OneEditPerVersion'
<1> SUFFICES ASSUME LockInv, [Next]_vars, NEW r \in Requests, NEW s \in Requests, r # s,
                    req'[r].pc \in Touched, req'[s].pc \in Touched
             PROVE  req'[r].version # req'[s].version
  BY DEF OneEditPerVersion, Touched
<1>1. /\ TypeInv /\ OneEditPerVersion /\ RequestsCurrent /\ plan.version \in Nat
      /\ req \in [Requests -> Request]
  BY DEF LockInv, TypeInv, TablesOK, PlanRow, RequestsOK
<1>2. ASSUME NEW x \in Requests, req'[x].pc \in Touched
      PROVE  /\ req'[x].version = req[x].version
             /\ req[x].pc \in Touched \/ Touch(x)
  <2>1. CASE Touch(x)
    BY <1>1, <2>1 DEF Touch, Goto, Request
  <2>2. CASE ~Touch(x)
    <3>1. \/ req'[x] = req[x]
          \/ req[x].pc = "item" /\ req' = [req EXCEPT ![x].pc = "itemWrite"]
          \/ req[x].pc = "update" /\ req' = [req EXCEPT ![x].pc = "updateWrite"]
      BY <1>1, <1>2, <2>2, RequestMoves DEF Moves, Updating, Touched
    <3> QED
      BY <1>1, <1>2, <3>1 DEF Request, Updating, Touched
  <2> QED
    BY <2>1, <2>2
<1>3. ASSUME NEW x \in Requests, NEW y \in Requests, x # y, Touch(x), req'[y].pc \in Touched
      PROVE  req'[x].version # req'[y].version
  <2>1. req[x].version = plan.version /\ req'[y] = req[y]
    BY <1>1, <1>3 DEF Touch, Matches, Goto
  <2>2. req[y].version < plan.version
    BY <1>1, <1>3, <2>1 DEF RequestsCurrent, RequestCurrent
  <2>3. req'[x].version = plan.version
    BY <1>1, <1>3, <2>1 DEF Touch, Goto, Request
  <2>4. req[y].version \in Nat
    BY <1>1 DEF Request
  <2> QED
    BY <1>1, <2>1, <2>2, <2>3, <2>4
<1>4. CASE Touch(r) \/ Touch(s)
  BY <1>3, <1>4
<1>5. CASE ~Touch(r) /\ ~Touch(s)
  <2>1. req[r].pc \in Touched /\ req[s].pc \in Touched
    BY <1>2, <1>5
  <2>2. req[r].version # req[s].version
    BY <1>1, <2>1 DEF OneEditPerVersion, Touched
  <2> QED
    BY <1>2, <2>2
<1> QED
  BY <1>4, <1>5

\* The invariant of the optimistic lock holds in every reachable state.
LEMMA LockAlways == Spec => []LockInv
<1>1. Init => LockInv
  <2> SUFFICES ASSUME Init PROVE LockInv
    OBVIOUS
  <2>1. TypeInv
    BY TypeInit
  <2>2. plan.version = 1
    <3>1. PICK shared \in BOOLEAN, items \in NewItems : plan = NewPlan(shared, items)
      BY DEF Init, NewPlans
    <3> QED
      BY <3>1 DEF NewPlan, Blank
  <2>3. ViewsCurrent
    BY <2>2 DEF Init, ViewsCurrent, Blank
  <2>4. RequestsCurrent /\ OneEditPerVersion
    BY DEF Init, RequestsCurrent, RequestCurrent, OneEditPerVersion, Idle, Updating, Touched
  <2> QED
    BY <2>1, <2>3, <2>4 DEF LockInv
<1>2. LockInv /\ [Next]_vars => LockInv'
  <2> SUFFICES ASSUME LockInv, [Next]_vars PROVE LockInv'
    OBVIOUS
  <2>1. TypeInv'
    BY TypeStep DEF LockInv
  <2> QED
    BY <2>1, ViewsKept, RequestsKept, OneEditKept DEF LockInv
<1> QED
  BY <1>1, <1>2, PTL DEF Spec

\* A screen whose version is the current one shows the current summary and the
\* current place of the plan.
THEOREM VersionCorrect == Spec => []VersionIdentifiesRow
<1>1. LockInv => VersionIdentifiesRow
  BY DEF LockInv, ViewsCurrent, SameRow, VersionIdentifiesRow
<1> QED
  BY <1>1, LockAlways, PTL

\* touchPlan lets one item operation through per version.
THEOREM EditsExclusive == Spec => []OneEditPerVersion
<1>1. LockInv => OneEditPerVersion
  BY DEF LockInv
<1> QED
  BY <1>1, LockAlways, PTL

-----------------------------------------------------------------------------
(* What a write keeps, and what it puts in order *)

\* A request has its answer to read only when it has written.
LEMMA WrittenBefore ==
  ASSUME TypeInv, [Next]_vars, NEW r \in Requests, req[r].pc # "answer", req'[r].pc = "answer"
  PROVE  \/ UpdateWrite(r) \/ ShareWrite(r) \/ EditWrite(r) \/ RemoveWrite(r) \/ MemoWrite(r)
         \/ \E i \in Items : AddWrite(r, i)
<1>1. req \in [Requests -> Request] /\ req'[r] # req[r]
  BY DEF TypeInv, RequestsOK
<1>2. ASSUME NEW x \in Requests,
             \/ UpdateWrite(x) \/ ShareWrite(x) \/ EditWrite(x) \/ RemoveWrite(x) \/ MemoWrite(x)
             \/ \E i \in Items : AddWrite(x, i)
      PROVE  x = r
  <2>1. Done(x)
    BY <1>2 DEF UpdateWrite, ShareWrite, EditWrite, RemoveWrite, MemoWrite, AddWrite
  <2> QED
    BY <1>1, <2>1 DEF Done
<1>3. ASSUME NEW x \in Requests, Conflict(x) \/ Answer(x) \/ Fail(x) \/ DeleteWrite(x) PROVE FALSE
  <2>1. req' = [req EXCEPT ![x] = Idle]
    BY <1>3 DEF Conflict, Answer, Fail, DeleteWrite, End
  <2> QED
    BY <1>1, <2>1 DEF Idle
<1>4. ASSUME NEW x \in Requests,
             \/ UpdateCheck(x) \/ ShareCheck(x) \/ Touch(x) \/ ItemCheck(x)
             \/ DeleteCheck(x) \/ MemoCheck(x)
      PROVE  FALSE
  <2>1. \E pc \in PC \ {"answer"} : req' = [req EXCEPT ![x].pc = pc]
    BY <1>4 DEF UpdateCheck, ShareCheck, Touch, ItemCheck, DeleteCheck, MemoCheck, Goto, PC
  <2> QED
    BY <1>1, <2>1 DEF Request
<1>5. ASSUME NEW x \in Requests, NEW u \in Users, Begins(x, u) PROVE FALSE
  <2>1. PICK q : FieldsOK(q) /\ q.pc \in Starts /\ Begin(x, u, q)
    BY <1>5, BegunOK
  <2> DEFINE next == [q EXCEPT !.user = u, !.version = view[u].version, !.snap = Read(plan, q.item)]
  <2>2. req' = [req EXCEPT ![x] = next] /\ next.pc = q.pc
    BY <2>1 DEF Begin, FieldsOK, Request
  <2> HIDE DEF next
  <2> QED
    BY <1>1, <2>1, <2>2 DEF Starts
<1>6. CASE AccessChanges \/ Unshare \/ \E x \in Users : Load(x) \/ DeleteCategory(x)
  BY <1>1, <1>6 DEF AccessChanges, Unshare, Load, DeleteCategory
<1>7. CASE UNCHANGED vars
  BY <1>1, <1>7 DEF vars
<1> QED
  BY <1>2, <1>3, <1>4, <1>5, <1>6, <1>7 DEF Next, Begins

\* update never undoes, in a field that was not sent, what happened after its read.
THEOREM UpdateLosesNothing == Spec => UpdateKeepsOthers
<1> DEFINE Kept(r) == (req[r].pc = "updateWrite" /\ req'[r].pc = "answer") =>
             /\ req[r].val = Undefined => plan'.summary = plan.summary
             /\ req[r].category = Undefined => plan'.category = plan.category
<1>1. ASSUME LockInv, [Next]_vars, NEW r \in Requests PROVE Kept(r)
  <2> SUFFICES ASSUME req[r].pc = "updateWrite", req'[r].pc = "answer" PROVE Kept(r)
    OBVIOUS
  <2> DEFINE q    == req[r]
             next == Or(q.category, q.snap.category)
  <2>1. TypeInv /\ plan \in PlanRow /\ RequestCurrent(q)
    BY <1>1 DEF LockInv, TypeInv, TablesOK, RequestsCurrent
  <2>2. UpdateWrite(r)
    BY <1>1, <2>1, WrittenBefore DEF ShareWrite, EditWrite, RemoveWrite, MemoWrite, AddWrite
  <2>3. /\ plan.version = q.version
        /\ next # None => next \in categories
        /\ plan'.summary = Or(q.val, q.snap.summary)
        /\ plan'.category = next
    BY <2>1, <2>2 DEF UpdateWrite, Matches, PlanRow
  <2>4. /\ q.snap.summary = plan.summary
        /\ q.snap.category = plan.category \/ q.snap.category \notin categories \union {None}
    BY <2>1, <2>3 DEF RequestCurrent, Updating
  <2> QED
    BY <2>3, <2>4 DEF Or
<1>2. LockInv /\ [Next]_vars => \A r \in Requests : Kept(r)
  BY <1>1
<1>3. LockInv /\ [Next]_vars => [\A r \in Requests : Kept(r)]_vars
  BY <1>2
<1> QED
  BY <1>3, LockAlways, PTL DEF Spec, UpdateKeepsOthers

\* Numbering finitely many rows differently, each from 1 to their number, uses
\* every number.
LEMMA NumbersUsed ==
  ASSUME NEW S, IsFiniteSet(S), NEW rn \in [S -> 1 .. Cardinality(S)],
         \A j, k \in S : j # k => rn[j] # rn[k]
  PROVE  {rn[j] : j \in S} = 1 .. Cardinality(S)
<1> DEFINE n == Cardinality(S)
<1>1. n \in Nat
  BY FS_CardinalityType
<1>2. IsFiniteSet(1 .. n) /\ Cardinality(1 .. n) = n
  BY <1>1, FS_Interval
<1>3. rn \in Injection(S, 1 .. n)
  BY DEF Injection, IsInjective
<1>4. rn \in Surjection(S, 1 .. n)
  BY <1>2, <1>3, FS_Injection
<1> QED
  BY <1>4 DEF Surjection

\* A deleteItem that succeeds numbers what is left 1, 2, ..., n.
THEOREM DeletesRenumber == Spec => DeleteRenumbers
<1> DEFINE Numbered(r) ==
             (req[r].op = "remove" /\ req[r].pc = "itemWrite" /\ req'[r].pc = "answer") =>
                {plan'.items[i].order : i \in Rows(plan')} = 1 .. Cardinality(Rows(plan'))
<1>1. ASSUME TypeInv, [Next]_vars, NEW r \in Requests PROVE Numbered(r)
  <2> SUFFICES ASSUME req[r].op = "remove", req[r].pc = "itemWrite", req'[r].pc = "answer"
               PROVE  Numbered(r)
    OBVIOUS
  <2> DEFINE gone == req[r].item
             rest == Rows(plan) \ {gone}
  <2>1. plan \in PlanRow /\ IsFiniteSet(rest) /\ rest \subseteq Items
    BY <1>1, RowsFinite, FS_Subset DEF TypeInv, TablesOK
  <2>2. RemoveWrite(r)
    BY <1>1, WrittenBefore DEF UpdateWrite, ShareWrite, EditWrite, MemoWrite, AddWrite
  <2> DEFINE Renumbered(rn) == [j \in Items |->
                IF j = gone THEN [plan.items[j] EXCEPT !.order = 0]
                ELSE IF j \in DOMAIN rn THEN [plan.items[j] EXCEPT !.order = rn[j]]
                ELSE plan.items[j]]
  <2>3. PICK rn \in Renumberings(gone) : plan' = [plan EXCEPT !.items = Renumbered(rn)]
    BY <2>2 DEF RemoveWrite
  <2>4. /\ rn \in [rest -> 1 .. Cardinality(rest)]
        /\ \A j, k \in rest : j # k => rn[j] # rn[k]
    BY <2>3 DEF Renumberings
  <2>5. plan'.items = Renumbered(rn)
    BY <2>1, <2>3 DEF PlanRow
  <2>6. \A j \in rest : plan'.items[j].order = rn[j] /\ rn[j] > 0
    BY <2>1, <2>4, <2>5, FS_CardinalityType DEF PlanRow, ItemRow
  <2>7. \A j \in Items \ rest : plan'.items[j].order = 0
    BY <2>1, <2>4, <2>5 DEF PlanRow, ItemRow, Rows
  <2>8. Rows(plan') = rest
    BY <2>1, <2>6, <2>7 DEF Rows
  <2>9. {rn[j] : j \in rest} = 1 .. Cardinality(rest)
    BY <2>1, <2>4, NumbersUsed
  <2>10. {plan'.items[j].order : j \in rest} = {rn[j] : j \in rest}
    BY <2>6
  <2> QED
    BY <2>8, <2>9, <2>10
<1>2. TypeInv /\ [Next]_vars => [\A r \in Requests : Numbered(r)]_vars
  BY <1>1
<1> QED
  BY <1>2, TypeInit, TypeStep, PTL DEF Spec, DeleteRenumbers

-----------------------------------------------------------------------------
(* The settings page *)

PageOps == {"nickname", "email", "code", "change", "request", "verify", "unlink", "toggle",
            "logout", "delete"}

PageCall == [pc: {"idle", "sent", "hashed", "end", "tokens", "mark", "ok"},
             op: PageOps \union {"none"}, arg: 0..2, session: Sessions \union {0}]

CodeStep == {"idle", "code-sent", "code-verified"}

SettingsPage == [open: BOOLEAN, me: Account, fetch: {"none", "sent", "read"}, got: Account,
                 held: Sessions \union {0}, mail: {"idle", "code-sent"}, step: CodeStep,
                 proof: BOOLEAN, dialog: BOOLEAN, outStep: CodeStep, outProof: BOOLEAN]

\* What a call of section s is about at each of its statements.
PageCallOK(s, c) ==
    /\ c.pc # "idle" => c.op # "none"
    /\ c.op \in {"request", "verify"} => s \in {"password", "withdraw"}
    /\ c.op = "nickname" => c.arg \in 1..2
    /\ c.pc = "end" => c.op \in {"change", "delete"}
    /\ c.pc = "tokens" => c.op \in {"nickname", "email", "change"}
    /\ c.pc = "mark" => c.op = "delete"

PageTypeInv ==
    /\ account \in Account /\ sessions \subseteq Sessions
    /\ setup \in [code: BOOLEAN, cooldown: BOOLEAN]
    /\ page \in [Devices -> SettingsPage]
    /\ call \in [Devices -> [Sections -> PageCall]]
    /\ \A d \in Devices, s \in Sections : PageCallOK(s, call[d][s])
    /\ behind \in [Devices -> BOOLEAN] /\ excused \in [Devices -> BOOLEAN]

\* The statement that changes the account is done: the answer has it fetched,
\* or leaves the page.
Changed(c) == /\ c.op \in {"nickname", "email", "change", "unlink", "toggle", "delete"}
              /\ c.pc \in {"end", "tokens", "mark", "ok"}

\* The sessions are ended: the answer brings a new one, or leaves the page.
Ended(c) == c.op \in {"change", "logout", "delete"} /\ c.pc \in {"tokens", "mark", "ok"}

\* A token is on its way to the page.
Brings(c) == c.op \in {"nickname", "email", "change"} /\ c.pc = "ok"

\* What the page shows, or is about to show, is what is stored.
UpToDate(p) == (p.fetch = "none" => p.me = account) /\ (p.fetch = "read" => p.got = account)

ShownInv ==
    \A d \in Devices : page[d].open /\ ~behind[d] =>
        UpToDate(page[d]) \/ \E s \in Sections : Changed(call[d][s])

TokenInv ==
    \A d \in Devices : ~excused[d] =>
        /\ \A s \in Sections : Brings(call[d][s]) => call[d][s].session \in sessions
        /\ page[d].open => page[d].held \in sessions \/ \E s \in Sections : Ended(call[d][s])

-----------------------------------------------------------------------------
(* The kinds of steps *)

\* A call moves; nobody else's does.
CallBecomes(d, s, q) ==
    q \in PageCall /\ PageCallOK(s, q) /\ call' = [call EXCEPT ![d][s] = q]

\* A page becomes p.
PageBecomes(d, p) == p \in SettingsPage /\ page' = [page EXCEPT ![d] = p]

LEMMA CallsType ==
  ASSUME PageTypeInv, NEW d \in Devices, NEW s \in Sections, NEW q, CallBecomes(d, s, q)
  PROVE  /\ call' \in [Devices -> [Sections -> PageCall]]
         /\ \A e \in Devices, t \in Sections :
                /\ call'[e][t] = IF e = d /\ t = s THEN q ELSE call[e][t]
                /\ PageCallOK(t, call'[e][t])
<1>1. call \in [Devices -> [Sections -> PageCall]]
  BY DEF PageTypeInv
<1>2. call' = [call EXCEPT ![d] = [call[d] EXCEPT ![s] = q]]
  BY <1>1 DEF CallBecomes
<1>3. [call[d] EXCEPT ![s] = q] \in [Sections -> PageCall]
  BY <1>1 DEF CallBecomes
<1>4. call' \in [Devices -> [Sections -> PageCall]]
  BY <1>1, <1>2, <1>3
<1>5. ASSUME NEW e \in Devices, NEW t \in Sections
      PROVE  call'[e][t] = IF e = d /\ t = s THEN q ELSE call[e][t]
  BY <1>1, <1>2
<1> QED
  BY <1>4, <1>5 DEF PageTypeInv, CallBecomes

LEMMA PagesType ==
  ASSUME PageTypeInv, NEW d \in Devices, NEW p, PageBecomes(d, p)
  PROVE  /\ page' \in [Devices -> SettingsPage]
         /\ \A e \in Devices : page'[e] = IF e = d THEN p ELSE page[e]
  BY DEF PageTypeInv, PageBecomes

\* A handler sends its request.
Asks(d, s, q) ==
    /\ CallBecomes(d, s, q) /\ call[d][s].pc = "idle" /\ q.pc = "sent"
    /\ UNCHANGED <<account, setup, sessions, page, behind, excused>>

\* A statement that changes neither the account nor the sessions.
Passes(d, s, q) ==
    /\ CallBecomes(d, s, q) /\ ~Brings(q)
    /\ Changed(call[d][s]) => Changed(q)
    /\ Ended(call[d][s]) => Ended(q)
    /\ setup' \in [code: BOOLEAN, cooldown: BOOLEAN]
    /\ UNCHANGED <<account, sessions, page, behind, excused>>

\* A statement that changes the account.
Stores(d, s, q) ==
    /\ CallBecomes(d, s, q) /\ Changed(q) /\ ~Brings(q)
    /\ Ended(call[d][s]) => Ended(q)
    /\ account' \in Account
    /\ behind' = [e \in Devices |-> behind[e] \/ (e # d /\ account' # account)]
    /\ UNCHANGED <<setup, sessions, page, excused>>

\* The sessions are ended.
Ends(d, s, q) ==
    /\ CallBecomes(d, s, q) /\ Ended(q) /\ ~Brings(q)
    /\ Changed(call[d][s]) => Changed(q)
    /\ sessions' = {}
    /\ excused' = [e \in Devices |-> \/ excused[e]
                                     \/ e # d /\ page[e].held \in sessions
                                     \/ \E t \in Sections : call[e][t].session \in sessions]
    /\ UNCHANGED <<account, setup, page, behind>>

\* A token is issued.
Issues(d, s, q) ==
    /\ CallBecomes(d, s, q)
    /\ Changed(call[d][s]) => Changed(q)
    /\ Ended(call[d][s]) => Ended(q)
    /\ sessions' = sessions \union {q.session} /\ q.session \in Sessions
    /\ UNCHANGED <<account, setup, page, behind, excused>>

\* The page does something that concerns neither.
Looks(d, p) ==
    /\ PageBecomes(d, p)
    /\ p.open = page[d].open /\ p.me = page[d].me /\ p.fetch = page[d].fetch
    /\ p.got = page[d].got /\ p.held = page[d].held
    /\ UNCHANGED <<account, setup, sessions, call, behind, excused>>

\* An answer is handled, on a page that may have been left.
Handles(d, s, p) ==
    /\ CallBecomes(d, s, NoCall) /\ PageBecomes(d, p)
    /\ p.open => /\ page[d].open
                 /\ Changed(call[d][s]) => p.fetch = "sent"
                 /\ p.fetch # "sent" => /\ p.fetch = page[d].fetch /\ p.me = page[d].me
                                        /\ p.got = page[d].got
                 /\ \/ p.held = page[d].held /\ ~Ended(call[d][s])
                    \/ Brings(call[d][s]) /\ p.held = call[d][s].session
    /\ UNCHANGED <<account, setup, sessions, behind, excused>>

\* A call fails.
Fails(d, s) ==
    /\ CallBecomes(d, s, NoCall)
    /\ behind' \in [Devices -> BOOLEAN] /\ excused' \in [Devices -> BOOLEAN]
    /\ \A e \in Devices : (behind[e] => behind'[e]) /\ (excused[e] => excused'[e])
    /\ Changed(call[d][s]) => behind'[d]
    /\ Ended(call[d][s]) => excused'[d]
    /\ UNCHANGED <<account, setup, sessions, page>>

\* A fetch moves on: what it read is stored, or the page is behind.
Fetches(d, p) ==
    /\ PageBecomes(d, p)
    /\ p.open = page[d].open /\ p.held = page[d].held
    /\ behind' \in [Devices -> BOOLEAN]
    /\ \A e \in Devices : e # d => behind'[e] = behind[e]
    /\ \/ behind'[d] \/ UpToDate(p)
       \/ (UpToDate(page[d]) => UpToDate(p)) /\ behind'[d] = behind[d]
    /\ UNCHANGED <<account, setup, sessions, call, excused>>

\* A page is opened again.
Opens(d, p, n) ==
    /\ PageBecomes(d, p) /\ n \in Sessions
    /\ UpToDate(p) /\ p.held = n /\ sessions' = sessions \union {n}
    /\ \A t \in Sections : call[d][t].pc = "idle"
    /\ behind' = [behind EXCEPT ![d] = FALSE] /\ excused' = [excused EXCEPT ![d] = FALSE]
    /\ UNCHANGED <<account, setup, call>>

\* Only codes run out, or the bell moves.
Still ==
    /\ setup' \in [code: BOOLEAN, cooldown: BOOLEAN]
    /\ UNCHANGED <<account, sessions, page, call, behind, excused>>

LEMMA SendKind ==
  ASSUME PageTypeInv, NEW d \in Devices, NEW s \in Sections, NEW op \in PageOps, NEW arg \in 0..2,
         op \in {"request", "verify"} => s \in {"password", "withdraw"},
         op = "nickname" => arg \in 1..2,
         Send(d, s, op, arg)
  PROVE  \E q : Asks(d, s, q)
<1> DEFINE q == [NoCall EXCEPT !.pc = "sent", !.op = op, !.arg = arg]
<1>1. NoCall \in PageCall
  BY DEF NoCall, PageCall
<1>2. q \in PageCall /\ q.pc = "sent" /\ q.op = op /\ q.arg = arg
  BY <1>1 DEF PageCall, PageOps
<1> HIDE DEF q
<1>3. PageCallOK(s, q)
  BY <1>2 DEF PageCallOK, PageOps
<1>4. call' = [call EXCEPT ![d][s] = q] /\ call[d][s].pc = "idle"
      /\ UNCHANGED <<account, setup, sessions, page, behind, excused>>
  BY DEF Send, Free, store, q
<1> QED
  BY <1>2, <1>3, <1>4 DEF Asks, CallBecomes

LEMMA HandlerKind ==
  ASSUME PageTypeInv, NEW d \in Devices, User(d), ~OpenDialog(d), ~CloseDialog(d), ~OpenPage(d)
  PROVE  \E s \in Sections : \E q : Asks(d, s, q)
<1> SUFFICES ASSUME \A s \in Sections : \A q : ~Asks(d, s, q) PROVE FALSE
  OBVIOUS
<1>1. CASE handleNicknameChange(d)
  <2>1. PICK n \in 1..2 : Send(d, "nickname", "nickname", n)
    BY <1>1 DEF handleNicknameChange
  <2> QED
    BY <2>1, SendKind DEF Sections, PageOps
<1>2. CASE handlePasswordChange(d)
  <2>1. PICK n \in 0..2 : Send(d, "password", "change", n)
    BY <1>2 DEF handlePasswordChange
  <2> QED
    BY <2>1, SendKind DEF Sections, PageOps
<1>3. CASE handleRequestSetupCode(d) \/ handleVerifySetupCode(d)
  BY <1>3, SendKind DEF handleRequestSetupCode, handleVerifySetupCode, Sections, PageOps
<1>4. CASE handleRequestEmailCode(d) \/ handleVerifyAndSaveEmail(d)
  BY <1>4, SendKind DEF handleRequestEmailCode, handleVerifyAndSaveEmail, Sections, PageOps
<1>5. CASE handleUnlinkOAuth(d) \/ handleLogoutAll(d)
  BY <1>5, SendKind DEF handleUnlinkOAuth, handleLogoutAll, Sections, PageOps
<1>6. CASE handleToggleSetting(d)
  <2>1. PICK s \in {"notices", "again"} : Send(d, s, "toggle", Flipped(page[d]))
    BY <1>6 DEF handleToggleSetting
  <2>2. Flipped(page[d]) \in 0..2
    BY DEF Flipped
  <2> QED
    BY <2>1, <2>2, SendKind DEF Sections, PageOps
<1>7. CASE handleRequestDeleteCode(d) \/ handleVerifyDeleteCode(d)
  BY <1>7, SendKind DEF handleRequestDeleteCode, handleVerifyDeleteCode, Sections, PageOps
<1>8. CASE handleDeleteMe(d)
  <2>1. PICK n \in 0..2 : Send(d, "withdraw", "delete", n)
    BY <1>8 DEF handleDeleteMe
  <2> QED
    BY <2>1, SendKind DEF Sections, PageOps
<1> QED
  BY <1>1, <1>2, <1>3, <1>4, <1>5, <1>6, <1>7, <1>8 DEF User

LEMMA DialogKind ==
  ASSUME PageTypeInv, NEW d \in Devices, OpenDialog(d) \/ CloseDialog(d)
  PROVE  \E p : Looks(d, p)
<1>1. page[d] \in SettingsPage
  BY DEF PageTypeInv
<1>2. CASE OpenDialog(d)
  <2>1. [page[d] EXCEPT !.dialog = TRUE] \in SettingsPage
    BY <1>1 DEF SettingsPage
  <2> QED
    BY <1>1, <1>2, <2>1 DEF OpenDialog, Looks, PageBecomes, SettingsPage, store
<1>3. CASE CloseDialog(d)
  <2> DEFINE p == [page[d] EXCEPT !.dialog = FALSE, !.outStep = "idle", !.outProof = FALSE]
  <2>1. p \in SettingsPage
    BY <1>1 DEF SettingsPage, CodeStep
  <2>2. page' = [page EXCEPT ![d] = p]
        /\ UNCHANGED <<account, setup, sessions, call, behind, excused>>
    BY <1>3 DEF CloseDialog, store, PageTypeInv
  <2> QED
    BY <1>1, <2>1, <2>2 DEF Looks, PageBecomes, SettingsPage
<1> QED
  BY <1>2, <1>3

\* A call goes from one statement to another.
MovesTo(d, s, pc) == /\ call' = [call EXCEPT ![d][s].pc = pc]
                     /\ PageCallOK(s, [call[d][s] EXCEPT !.pc = pc])

LEMMA MovedCall ==
  ASSUME PageTypeInv, NEW d \in Devices, NEW s \in Sections,
         NEW pc \in {"hashed", "end", "tokens", "mark", "ok"},
         MovesTo(d, s, pc)
  PROVE  \E q : /\ CallBecomes(d, s, q)
                /\ q.pc = pc /\ q.op = call[d][s].op /\ q.session = call[d][s].session
<1> DEFINE q == [call[d][s] EXCEPT !.pc = pc]
<1>1. call[d][s] \in PageCall /\ call \in [Devices -> [Sections -> PageCall]]
  BY DEF PageTypeInv
<1>2. q \in PageCall /\ q.pc = pc /\ q.op = call[d][s].op /\ q.session = call[d][s].session
  BY <1>1 DEF PageCall
<1>3. call' = [call EXCEPT ![d][s] = q]
  BY <1>1 DEF MovesTo
<1>4. PageCallOK(s, q)
  BY DEF MovesTo
<1> HIDE DEF q
<1> QED
  BY <1>2, <1>3, <1>4 DEF CallBecomes

\* The account is changed by a statement of a call that is at it.
LEMMA StoreKind ==
  ASSUME PageTypeInv, NEW d \in Devices, NEW s \in Sections,
         NEW pc \in {"end", "tokens", "ok"}, NEW new \in Account,
         Store(d, s, new, pc), UNCHANGED <<setup, sessions, excused>>,
         \/ pc = "tokens" /\ call[d][s].op \in {"nickname", "email"}
         \/ pc = "end" /\ call[d][s].op = "change" /\ call[d][s].pc = "hashed"
         \/ pc = "ok" /\ call[d][s].op \in {"unlink", "toggle", "delete"}
  PROVE  \E q : Stores(d, s, q)
<1>1. PageCallOK(s, call[d][s]) /\ call[d][s] \in PageCall
  BY DEF PageTypeInv
<1>2. PageCallOK(s, [call[d][s] EXCEPT !.pc = pc])
  BY <1>1 DEF PageCallOK, PageCall
<1>3. MovesTo(d, s, pc)
  BY <1>2 DEF Store, MovesTo
<1>4. PICK q : /\ CallBecomes(d, s, q)
               /\ q.pc = pc /\ q.op = call[d][s].op /\ q.session = call[d][s].session
  <2>1. pc \in {"hashed", "end", "tokens", "mark", "ok"}
    OBVIOUS
  <2> QED
    BY <1>3, <2>1, MovedCall
<1>5. Changed(q) /\ ~Brings(q) /\ (Ended(call[d][s]) => Ended(q))
  BY <1>4 DEF Changed, Brings, Ended
<1>6. /\ account' \in Account /\ page' = page
      /\ behind' = [e \in Devices |-> behind[e] \/ (e # d /\ account' # account)]
  BY DEF Store
<1> QED
  BY <1>4, <1>5, <1>6 DEF Stores

\* A statement that leaves account and sessions alone.
LEMMA PassKind ==
  ASSUME PageTypeInv, NEW d \in Devices, NEW s \in Sections,
         NEW pc \in {"hashed", "end", "ok"}, Reach(d, s, pc),
         call[d][s].pc = "sent",
         \/ pc = "ok" /\ call[d][s].op \in {"code", "request", "verify"}
         \/ pc = "hashed" /\ call[d][s].op = "change"
         \/ pc = "end" /\ call[d][s].op = "delete",
         UNCHANGED <<account, sessions, excused>>,
         setup' \in [code: BOOLEAN, cooldown: BOOLEAN]
  PROVE  \E q : Passes(d, s, q)
<1>1. PageCallOK(s, call[d][s]) /\ call[d][s] \in PageCall
  BY DEF PageTypeInv
<1>2. PageCallOK(s, [call[d][s] EXCEPT !.pc = pc])
  BY <1>1 DEF PageCallOK, PageCall
<1>3. MovesTo(d, s, pc)
  BY <1>2 DEF Reach, MovesTo
<1>4. PICK q : /\ CallBecomes(d, s, q)
               /\ q.pc = pc /\ q.op = call[d][s].op /\ q.session = call[d][s].session
  <2>1. pc \in {"hashed", "end", "tokens", "mark", "ok"}
    OBVIOUS
  <2> QED
    BY <1>3, <2>1, MovedCall
<1>5. ~Brings(q) /\ (Changed(call[d][s]) => Changed(q)) /\ (Ended(call[d][s]) => Ended(q))
  BY <1>4 DEF Changed, Brings, Ended
<1> QED
  BY <1>4, <1>5 DEF Passes, Reach

LEMMA EndKind ==
  ASSUME PageTypeInv, NEW d \in Devices, NEW s \in Sections, EndSessions(d, s)
  PROVE  \E q : Ends(d, s, q)
<1>1. PageCallOK(s, call[d][s]) /\ call[d][s] \in PageCall
  BY DEF PageTypeInv
<1>2. PICK pc \in {"tokens", "ok", "mark"} :
         /\ Reach(d, s, pc)
         /\ \/ pc = "tokens" /\ At(d, s, "change", "end")
            \/ pc = "ok" /\ At(d, s, "logout", "sent")
            \/ pc = "mark" /\ At(d, s, "delete", "end")
  BY DEF EndSessions, Sent
<1>3. PageCallOK(s, [call[d][s] EXCEPT !.pc = pc])
  BY <1>1, <1>2 DEF PageCallOK, PageCall, At
<1>4. MovesTo(d, s, pc)
  BY <1>2, <1>3 DEF Reach, MovesTo
<1>5. PICK q : /\ CallBecomes(d, s, q)
               /\ q.pc = pc /\ q.op = call[d][s].op /\ q.session = call[d][s].session
  <2>1. pc \in {"hashed", "end", "tokens", "mark", "ok"}
    OBVIOUS
  <2> QED
    BY <1>4, <2>1, MovedCall
<1>6. Ended(q) /\ ~Brings(q) /\ (Changed(call[d][s]) => Changed(q))
  BY <1>2, <1>5 DEF Changed, Brings, Ended, At
<1> QED
  BY <1>2, <1>5, <1>6 DEF Ends, EndSessions, Reach

LEMMA FreeNext == FreeSessions # {} => NextSession \in FreeSessions /\ NextSession \in Sessions
  BY DEF NextSession, FreeSessions

LEMMA IssueKind ==
  ASSUME PageTypeInv, NEW d \in Devices, NEW s \in Sections, IssueTokens(d, s)
  PROVE  \E q : Issues(d, s, q)
<1> DEFINE q == [call[d][s] EXCEPT !.pc = "ok", !.session = NextSession]
<1>1. /\ call[d][s] \in PageCall /\ PageCallOK(s, call[d][s])
      /\ call \in [Devices -> [Sections -> PageCall]]
  BY DEF PageTypeInv
<1>2. NextSession \in Sessions /\ call[d][s].pc = "tokens"
  BY FreeNext DEF IssueTokens
<1>3. call' = [call EXCEPT ![d][s] = q]
  BY <1>1 DEF IssueTokens
<1>4. q \in PageCall /\ q.pc = "ok" /\ q.op = call[d][s].op /\ q.session = NextSession
      /\ q.arg = call[d][s].arg
  BY <1>1, <1>2 DEF PageCall
<1> HIDE DEF q
<1>5. PageCallOK(s, q)
  BY <1>1, <1>2, <1>4 DEF PageCallOK
<1>6. (Changed(call[d][s]) => Changed(q)) /\ (Ended(call[d][s]) => Ended(q))
  BY <1>4 DEF Changed, Ended
<1>7. /\ sessions' = sessions \union {q.session} /\ q.session \in Sessions
      /\ UNCHANGED <<account, setup, page, behind, excused>>
  BY <1>2, <1>4 DEF IssueTokens
<1> QED
  BY <1>3, <1>4, <1>5, <1>6, <1>7 DEF Issues, CallBecomes

LEMMA ServerKind ==
  ASSUME PageTypeInv, NEW d \in Devices, Server(d), ~FetchRead(d)
  PROVE  \E s \in Sections : \E q : Passes(d, s, q) \/ Stores(d, s, q) \/ Ends(d, s, q) \/ Issues(d, s, q)
<1> SUFFICES ASSUME \A s \in Sections : \A q : /\ ~Passes(d, s, q) /\ ~Stores(d, s, q)
                                           /\ ~Ends(d, s, q) /\ ~Issues(d, s, q)
             PROVE  FALSE
  OBVIOUS
<1>1. /\ account \in Account /\ setup \in [code: BOOLEAN, cooldown: BOOLEAN]
      /\ \A s \in Sections : PageCallOK(s, call[d][s]) /\ call[d][s] \in PageCall
  BY DEF PageTypeInv
<1>2. /\ \A n \in 1..2 : [account EXCEPT !.name = n] \in Account
      /\ \A b \in BOOLEAN : [account EXCEPT !.inApp = b] \in Account
      /\ [account EXCEPT !.email = TRUE] \in Account
      /\ [account EXCEPT !.password = TRUE] \in Account
      /\ [account EXCEPT !.social = FALSE] \in Account
      /\ [account EXCEPT !.withdrawn = TRUE] \in Account
  BY <1>1 DEF Account
<1>3. CASE NicknameWrite(d)
  <2>1. call[d]["nickname"].op = "nickname" /\ "nickname" \in Sections
        /\ call[d]["nickname"].arg \in 1..2
    BY <1>1, <1>3 DEF NicknameWrite, Sent, At, PageCallOK, Sections
  <2> QED
    BY <1>2, <1>3, <2>1, StoreKind DEF NicknameWrite
<1>4. CASE EmailCode(d)
  BY <1>1, <1>4, PassKind DEF EmailCode, Sent, At, store, Sections
<1>5. CASE EmailWrite(d)
  BY <1>2, <1>5, StoreKind DEF EmailWrite, Sent, At, Sections
<1>6. CASE ChangeCheck(d)
  BY <1>1, <1>6, PassKind DEF ChangeCheck, Sent, At, store, Sections
<1>7. CASE ChangeWrite(d)
  BY <1>2, <1>7, StoreKind DEF ChangeWrite, At, Sections
<1>8. CASE UnlinkWrite(d)
  BY <1>2, <1>8, StoreKind DEF UnlinkWrite, Sent, At, Sections
<1>9. CASE WithdrawCheck(d)
  BY <1>1, <1>9, PassKind DEF WithdrawCheck, Sent, At, store, Sections
<1>10. CASE WithdrawMark(d)
  BY <1>2, <1>10, StoreKind DEF WithdrawMark, At, Sections
<1>11. ASSUME NEW s \in Sections, EndSessions(d, s) PROVE FALSE
  BY <1>11, EndKind
<1>12. ASSUME NEW s \in Sections, IssueTokens(d, s) PROVE FALSE
  BY <1>12, IssueKind
<1>13. ASSUME NEW s \in Sections, SettingsWrite(d, s) PROVE FALSE
  <2>1. (call[d][s].arg = 1) \in BOOLEAN
    OBVIOUS
  <2> QED
    BY <1>2, <1>13, <2>1, StoreKind DEF SettingsWrite, Sent, At
<1>14. ASSUME NEW s \in Sections, SetupRequest(d, s) PROVE FALSE
  <2>1. setup' \in [code: BOOLEAN, cooldown: BOOLEAN]
    BY <1>14 DEF SetupRequest
  <2> QED
    BY <1>14, <2>1, PassKind DEF SetupRequest, Sent, At
<1>15. ASSUME NEW s \in Sections, SetupVerify(d, s) PROVE FALSE
  <2>1. setup' \in [code: BOOLEAN, cooldown: BOOLEAN]
    BY <1>1, <1>15 DEF SetupVerify
  <2> QED
    BY <1>15, <2>1, PassKind DEF SetupVerify, Sent, At
<1> QED
  BY <1>3, <1>4, <1>5, <1>6, <1>7, <1>8, <1>9, <1>10, <1>11, <1>12, <1>13, <1>14, <1>15 DEF Server

-----------------------------------------------------------------------------
(* The answers, and the fetches they ask for *)

LEMMA AnsweredKind ==
  ASSUME PageTypeInv, NEW d \in Devices, NEW s \in Sections, Answered(d, s)
  PROVE  \E p : Handles(d, s, p)
<1> DEFINE c == call[d][s]
           p == IF page[d].open THEN Handled(d, s) ELSE [page[d] EXCEPT !.held = Handled(d, s).held]
<1>1. /\ page[d] \in SettingsPage /\ page \in [Devices -> SettingsPage]
      /\ c \in PageCall /\ PageCallOK(s, c) /\ c.pc = "ok" /\ c.op \in PageOps
  BY DEF PageTypeInv, Answered, PageCallOK, PageCall
<1>2. /\ Handled(d, s) \in SettingsPage
      /\ \/ /\ c.op \in {"nickname", "email", "change"}
            /\ Handled(d, s).fetch = "sent" /\ Handled(d, s).held = c.session
         \/ /\ c.op \in {"unlink", "toggle"}
            /\ Handled(d, s).fetch = "sent" /\ Handled(d, s).held = page[d].held
         \/ /\ c.op \in {"logout", "delete"} /\ ~Handled(d, s).open
         \/ /\ c.op \in {"code", "request", "verify"}
            /\ Handled(d, s).fetch = page[d].fetch /\ Handled(d, s).me = page[d].me
            /\ Handled(d, s).got = page[d].got /\ Handled(d, s).held = page[d].held
  <2>1. CASE c.op \in {"nickname", "email", "change"}
    <3>1. c.session \in Sessions \union {0}
      BY <1>1 DEF PageCall
    <3>2. CASE c.op = "nickname"
      BY <1>1, <3>1, <3>2 DEF Handled, invalidateMe, setTokens, SettingsPage
    <3>3. CASE c.op = "email"
      BY <1>1, <3>1, <3>3 DEF Handled, invalidateMe, setTokens, SettingsPage
    <3>4. CASE c.op = "change"
      BY <1>1, <3>1, <3>4 DEF Handled, invalidateMe, setTokens, SettingsPage, CodeStep
    <3> QED
      BY <2>1, <3>2, <3>3, <3>4
  <2>2. CASE c.op \in {"unlink", "toggle"}
    BY <1>1, <2>2 DEF Handled, invalidateMe, SettingsPage
  <2>3. CASE c.op \in {"logout", "delete"}
    BY <1>1, <2>3 DEF Handled, SettingsPage
  <2>4. CASE c.op = "code"
    BY <1>1, <2>4 DEF Handled, SettingsPage
  <2>5. CASE c.op \in {"request", "verify"} /\ s = "password"
    BY <1>1, <2>5 DEF Handled, SettingsPage, CodeStep
  <2>6. CASE c.op \in {"request", "verify"} /\ s = "withdraw"
    BY <1>1, <2>6 DEF Handled, SettingsPage, CodeStep
  <2> QED
    BY <1>1, <2>1, <2>2, <2>3, <2>4, <2>5, <2>6 DEF PageOps, PageCallOK
<1>3. p \in SettingsPage /\ (~page[d].open => ~p.open)
  BY <1>1, <1>2 DEF SettingsPage
<1>4. page' = [page EXCEPT ![d] = p]
  BY <1>1 DEF Answered
<1>5. page[d].open => p = Handled(d, s)
  OBVIOUS
<1>6. NoCall \in PageCall /\ PageCallOK(s, NoCall)
  BY DEF NoCall, PageCall, PageCallOK
<1>7. /\ Changed(c) => c.op \in {"nickname", "email", "change", "unlink", "toggle", "delete"}
      /\ Ended(c) => c.op \in {"change", "logout", "delete"}
      /\ c.op \in {"nickname", "email", "change"} => Brings(c)
  BY <1>1 DEF Changed, Ended, Brings
<1>8. p.open => /\ page[d].open
                /\ Changed(c) => p.fetch = "sent"
                /\ p.fetch # "sent" => /\ p.fetch = page[d].fetch /\ p.me = page[d].me
                                       /\ p.got = page[d].got
                /\ \/ p.held = page[d].held /\ ~Ended(c)
                   \/ Brings(c) /\ p.held = c.session
  <2> HIDE DEF p, c
  <2>1. p.open => page[d].open /\ p = Handled(d, s)
    BY <1>3, <1>5
  <2> QED
    BY <1>2, <1>7, <2>1
<1>9. CallBecomes(d, s, NoCall) /\ UNCHANGED <<account, setup, sessions, behind, excused>>
  BY <1>6 DEF Answered, CallBecomes, store
<1> HIDE DEF p, c
<1> QED
  BY <1>3, <1>4, <1>8, <1>9 DEF Handles, PageBecomes, c

LEMMA FailedKind ==
  ASSUME PageTypeInv, NEW d \in Devices, NEW s \in Sections, Failed(d, s)
  PROVE  Fails(d, s)
<1>1. NoCall \in PageCall /\ PageCallOK(s, NoCall)
  BY DEF NoCall, PageCall, PageCallOK
<1>2. /\ behind' \in [Devices -> BOOLEAN] /\ excused' \in [Devices -> BOOLEAN]
      /\ \A e \in Devices : (behind[e] => behind'[e]) /\ (excused[e] => excused'[e])
  BY DEF Failed, PageTypeInv
<1>3. (Changed(call[d][s]) => behind'[d]) /\ (Ended(call[d][s]) => excused'[d])
  BY DEF Failed, PageTypeInv, Changed, Ended
<1> QED
  BY <1>1, <1>2, <1>3 DEF Failed, Fails, CallBecomes, store

LEMMA FetchKind ==
  ASSUME PageTypeInv, NEW d \in Devices, FetchRead(d) \/ FetchArrive(d) \/ FetchFail(d)
  PROVE  \E p : Fetches(d, p)
<1>1. /\ page[d] \in SettingsPage /\ page \in [Devices -> SettingsPage]
      /\ account \in Account /\ behind \in [Devices -> BOOLEAN]
  BY DEF PageTypeInv
<1>2. CASE FetchRead(d)
  <2> DEFINE p == [page[d] EXCEPT !.fetch = "read", !.got = account]
  <2>1. /\ p \in SettingsPage /\ p.open = page[d].open /\ p.held = page[d].held
        /\ p.fetch = "read" /\ p.got = account
    BY <1>1 DEF SettingsPage
  <2>2. /\ page' = [page EXCEPT ![d] = p] /\ behind' = [behind EXCEPT ![d] = FALSE]
        /\ UNCHANGED <<account, setup, sessions, call, excused>>
    BY <1>1, <1>2 DEF FetchRead, store
  <2> HIDE DEF p
  <2>3. UpToDate(p)
    BY <2>1 DEF UpToDate
  <2>4. /\ behind' \in [Devices -> BOOLEAN]
        /\ \A e \in Devices : e # d => behind'[e] = behind[e]
    BY <1>1, <2>2
  <2>5. PageBecomes(d, p)
    BY <2>1, <2>2 DEF PageBecomes
  <2>6. Fetches(d, p)
    BY <2>1, <2>2, <2>3, <2>4, <2>5, Zenon DEF Fetches
  <2> QED
    BY <2>6
<1>3. CASE FetchArrive(d)
  <2> DEFINE p == [page[d] EXCEPT !.fetch = "none", !.me = page[d].got]
  <2>1. /\ p \in SettingsPage /\ p.open = page[d].open /\ p.held = page[d].held
        /\ p.fetch = "none" /\ p.me = page[d].got /\ page[d].fetch = "read"
    BY <1>1, <1>3 DEF SettingsPage, FetchArrive
  <2>2. /\ page' = [page EXCEPT ![d] = p]
        /\ UNCHANGED <<account, setup, sessions, call, behind, excused>>
    BY <1>1, <1>3 DEF FetchArrive, store
  <2> HIDE DEF p
  <2>3. UpToDate(page[d]) => UpToDate(p)
    BY <2>1 DEF UpToDate
  <2>4. /\ behind' \in [Devices -> BOOLEAN] /\ behind'[d] = behind[d]
        /\ \A e \in Devices : e # d => behind'[e] = behind[e]
    BY <1>1, <2>2
  <2> QED
    BY <2>1, <2>2, <2>3, <2>4 DEF Fetches, PageBecomes
<1>4. CASE FetchFail(d)
  <2> DEFINE p == [page[d] EXCEPT !.fetch = "none"]
  <2>1. p \in SettingsPage /\ p.open = page[d].open /\ p.held = page[d].held
    BY <1>1 DEF SettingsPage
  <2>2. /\ page' = [page EXCEPT ![d] = p] /\ behind' = [behind EXCEPT ![d] = TRUE]
        /\ UNCHANGED <<account, setup, sessions, call, excused>>
    BY <1>1, <1>4 DEF FetchFail, store
  <2> HIDE DEF p
  <2>3. behind'[d]
    BY <1>1, <2>2
  <2>4. /\ behind' \in [Devices -> BOOLEAN]
        /\ \A e \in Devices : e # d => behind'[e] = behind[e]
    BY <1>1, <2>2
  <2>5. PageBecomes(d, p)
    BY <2>1, <2>2 DEF PageBecomes
  <2>6. Fetches(d, p)
    BY <2>1, <2>2, <2>3, <2>4, <2>5, Zenon DEF Fetches
  <2> QED
    BY <2>6
<1> QED
  BY <1>2, <1>3, <1>4

LEMMA OpenedPage ==
  ASSUME account \in Account, NEW token \in Sessions
  PROVE  /\ Opened(account, token) \in SettingsPage /\ UpToDate(Opened(account, token))
         /\ Opened(account, token).held = token
BY DEF Opened, SettingsPage, CodeStep, UpToDate

LEMMA OpenKind ==
  ASSUME PageTypeInv, NEW d \in Devices, OpenPage(d)
  PROVE  \E p, n : Opens(d, p, n)
<1>1. NextSession \in Sessions /\ account \in Account
  BY FreeNext DEF OpenPage, PageTypeInv
<1>2. /\ Opened(account, NextSession) \in SettingsPage /\ UpToDate(Opened(account, NextSession))
      /\ Opened(account, NextSession).held = NextSession
  BY <1>1, OpenedPage
<1> QED
  BY <1>1, <1>2 DEF OpenPage, Opens, PageBecomes, Quiet

\* Every step is of one of these kinds.
PageStep ==
    \/ Still
    \/ \E d \in Devices : \/ \E p : Looks(d, p) \/ Fetches(d, p)
                          \/ \E p, n : Opens(d, p, n)
                          \/ \E s \in Sections : \/ Fails(d, s)
                                                 \/ \E p : Handles(d, s, p)
                                                 \/ \E q : \/ Asks(d, s, q) \/ Passes(d, s, q)
                                                           \/ Stores(d, s, q) \/ Ends(d, s, q)
                                                           \/ Issues(d, s, q)

LEMMA SettingsKinds ==
  ASSUME PageTypeInv, [SettingsNext]_settingsVars
  PROVE  PageStep
<1>1. setup \in [code: BOOLEAN, cooldown: BOOLEAN]
  BY DEF PageTypeInv
<1>2. ASSUME NEW d \in Devices, User(d)
      PROVE  PageStep
  <2>1. CASE OpenDialog(d) \/ CloseDialog(d)
    <3>1. \E p : Looks(d, p)
      BY <2>1, DialogKind
    <3> QED
      BY <3>1 DEF PageStep
  <2>2. CASE OpenPage(d)
    <3>1. \E p, n : Opens(d, p, n)
      BY <2>2, OpenKind
    <3> QED
      BY <3>1 DEF PageStep
  <2>3. CASE ~OpenDialog(d) /\ ~CloseDialog(d) /\ ~OpenPage(d)
    <3>1. \E s \in Sections : \E q : Asks(d, s, q)
      BY <1>2, <2>3, HandlerKind
    <3> QED
      BY <3>1 DEF PageStep
  <2> QED
    BY <2>1, <2>2, <2>3
<1>3. ASSUME NEW d \in Devices, Server(d)
      PROVE  PageStep
  <2>1. CASE FetchRead(d)
    <3>1. \E p : Fetches(d, p)
      BY <2>1, FetchKind
    <3> QED
      BY <3>1 DEF PageStep
  <2>2. CASE ~FetchRead(d)
    <3>1. \E s \in Sections : \E q : \/ Passes(d, s, q) \/ Stores(d, s, q)
                                 \/ Ends(d, s, q) \/ Issues(d, s, q)
      BY <1>3, <2>2, ServerKind
    <3> QED
      BY <3>1 DEF PageStep
  <2> QED
    BY <2>1, <2>2
<1>4. ASSUME NEW d \in Devices, Back(d)
      PROVE  PageStep
  <2>1. CASE FetchArrive(d) \/ FetchFail(d)
    <3>1. \E p : Fetches(d, p)
      BY <2>1, FetchKind
    <3> QED
      BY <3>1 DEF PageStep
  <2>2. ASSUME NEW s \in Sections, Answered(d, s)
        PROVE  PageStep
    <3>1. \E p : Handles(d, s, p)
      BY <2>2, AnsweredKind
    <3> QED
      BY <3>1 DEF PageStep
  <2>3. ASSUME NEW s \in Sections, Failed(d, s)
        PROVE  PageStep
    <3>1. Fails(d, s)
      BY <2>3, FailedKind
    <3> QED
      BY <3>1 DEF PageStep
  <2> QED
    BY <1>4, <2>1, <2>2, <2>3 DEF Back
<1>5. CASE CodeExpires
  <2>1. Still
    BY <1>1, <1>5 DEF CodeExpires, Still
  <2> QED
    BY <2>1 DEF PageStep
<1>6. CASE UNCHANGED <<scene, store, page, call, behind, excused>>
  <2>1. Still
    BY <1>1, <1>6 DEF Still, store
  <2> QED
    BY <2>1 DEF PageStep
<1>7. CASE UNCHANGED settingsVars
  BY <1>6, <1>7 DEF settingsVars
<1> QED
  BY <1>2, <1>3, <1>4, <1>5, <1>6, <1>7 DEF SettingsNext

-----------------------------------------------------------------------------
(* The invariants *)

\* The pages' tokens of the first state: there are as many as devices.
LEMMA OwnTokens ==
  LET first == 1 .. Cardinality(Devices) IN
  \E f \in [Devices -> first] : \A d, e \in Devices : f[d] = f[e] => d = e
<1> DEFINE first == 1 .. Cardinality(Devices)
<1>1. ExistsBijection(first, Devices)
  BY SettingsBounds, FS_CardinalityType
<1>2. ExistsBijection(Devices, first)
  BY <1>1, Fun_ExistsBijSymmetric
<1> HIDE DEF first
<1>3. PICK f \in Bijection(Devices, first) : TRUE
  BY <1>2, Fun_ExistsBij
<1>4. f \in [Devices -> first] /\ \A d, e \in Devices : f[d] = f[e] => d = e
  BY Fun_BijectionProperties
<1> QED
  BY <1>4 DEF first

LEMMA PagesFirst ==
  ASSUME PagesInit
  PROVE  PageTypeInv /\ ShownInv /\ TokenInv
<1> DEFINE own == CHOOSE f \in [Devices -> sessions] : \A d, e \in Devices : f[d] = f[e] => d = e
<1>1. account \in Account /\ Cardinality(Devices) \in Nat /\ sessions = 1 .. Cardinality(Devices)
  BY SettingsBounds, FS_CardinalityType DEF PagesInit
<1>2. sessions \subseteq Sessions
  BY <1>1, SettingsBounds DEF Sessions
<1>3. own \in [Devices -> sessions]
  <2>1. \E f \in [Devices -> sessions] : \A d, e \in Devices : f[d] = f[e] => d = e
    BY <1>1, OwnTokens
  <2> QED
    BY <2>1
<1>4. page = [d \in Devices |-> Opened(account, own[d])]
  BY DEF PagesInit
<1> HIDE DEF own
<1>5. \A d \in Devices : page[d] \in SettingsPage /\ UpToDate(page[d]) /\ page[d].held \in sessions
  BY <1>1, <1>2, <1>3, <1>4, OpenedPage
<1>6. page \in [Devices -> SettingsPage]
  BY <1>4, <1>5
<1>7. NoCall \in PageCall /\ NoCall.pc = "idle" /\ \A s \in Sections : PageCallOK(s, NoCall)
  BY DEF NoCall, PageCall, PageCallOK
<1>8. /\ call \in [Devices -> [Sections -> PageCall]]
      /\ \A d \in Devices, s \in Sections : call[d][s] = NoCall
  BY <1>7 DEF PagesInit
<1>9. PageTypeInv
  BY <1>1, <1>2, <1>6, <1>7, <1>8 DEF PageTypeInv, PagesInit
<1>10. ShownInv
  BY <1>5 DEF ShownInv
<1>11. TokenInv
  BY <1>5, <1>7, <1>8 DEF TokenInv, Brings
<1> QED
  BY <1>9, <1>10, <1>11

LEMMA NewCalls ==
  ASSUME PageTypeInv, NEW d \in Devices, NEW s \in Sections, NEW q, CallBecomes(d, s, q)
  PROVE  /\ call' \in [Devices -> [Sections -> PageCall]]
         /\ \A e \in Devices, t \in Sections : PageCallOK(t, call'[e][t])
         /\ call'[d][s] = q
         /\ \A e \in Devices, t \in Sections : e # d \/ t # s => call'[e][t] = call[e][t]
BY CallsType

LEMMA NewPage ==
  ASSUME PageTypeInv, NEW d \in Devices, NEW p, PageBecomes(d, p)
  PROVE  /\ page' \in [Devices -> SettingsPage]
         /\ page'[d] = p
         /\ \A e \in Devices : e # d => page'[e] = page[e]
BY PagesType

LEMMA PageTypeStep ==
  ASSUME PageTypeInv, PageStep
  PROVE  PageTypeInv'
<1> USE DEF PageTypeInv
<1>1. CASE Still
  BY <1>1 DEF Still
<1>2. ASSUME NEW d \in Devices, NEW p, Looks(d, p) PROVE PageTypeInv'
  BY <1>2, NewPage DEF Looks
<1>3. ASSUME NEW d \in Devices, NEW p, Fetches(d, p) PROVE PageTypeInv'
  BY <1>3, NewPage DEF Fetches
<1>4. ASSUME NEW d \in Devices, NEW p, NEW n, Opens(d, p, n) PROVE PageTypeInv'
  BY <1>4, NewPage DEF Opens
<1>5. ASSUME NEW d \in Devices, NEW s \in Sections, Fails(d, s) PROVE PageTypeInv'
  BY <1>5, NewCalls DEF Fails
<1>6. ASSUME NEW d \in Devices, NEW s \in Sections, NEW p, Handles(d, s, p) PROVE PageTypeInv'
  BY <1>6, NewCalls, NewPage DEF Handles
<1>7. ASSUME NEW d \in Devices, NEW s \in Sections, NEW q, Asks(d, s, q) PROVE PageTypeInv'
  BY <1>7, NewCalls DEF Asks
<1>8. ASSUME NEW d \in Devices, NEW s \in Sections, NEW q, Passes(d, s, q) PROVE PageTypeInv'
  BY <1>8, NewCalls DEF Passes
<1>9. ASSUME NEW d \in Devices, NEW s \in Sections, NEW q, Stores(d, s, q) PROVE PageTypeInv'
  BY <1>9, NewCalls DEF Stores
<1>10. ASSUME NEW d \in Devices, NEW s \in Sections, NEW q, Ends(d, s, q) PROVE PageTypeInv'
  BY <1>10, NewCalls DEF Ends
<1>11. ASSUME NEW d \in Devices, NEW s \in Sections, NEW q, Issues(d, s, q) PROVE PageTypeInv'
  BY <1>11, NewCalls DEF Issues
<1> QED
  BY <1>1, <1>2, <1>3, <1>4, <1>5, <1>6, <1>7, <1>8, <1>9, <1>10, <1>11 DEF PageStep

\* What is shown of a page e after a step.
LEMMA ShownStep ==
  ASSUME PageTypeInv, ShownInv, PageStep
  PROVE  ShownInv'
<1> SUFFICES ASSUME NEW e \in Devices, page'[e].open, ~behind'[e],
                    ~UpToDate(page[e])', \A t \in Sections : ~Changed(call'[e][t])
             PROVE  FALSE
  BY DEF ShownInv, Changed, UpToDate
<1>1. page[e].open /\ ~behind[e] => UpToDate(page[e]) \/ \E t \in Sections : Changed(call[e][t])
  BY DEF ShownInv
<1>2. CASE Still
  BY <1>1, <1>2 DEF Still, UpToDate
<1>3. ASSUME NEW d \in Devices, NEW p, Looks(d, p) PROVE FALSE
  BY <1>1, <1>3, NewPage DEF Looks, UpToDate
<1>4. ASSUME NEW d \in Devices, NEW p, Fetches(d, p) PROVE FALSE
  BY <1>1, <1>4, NewPage DEF Fetches, UpToDate
<1>5. ASSUME NEW d \in Devices, NEW p, NEW n, Opens(d, p, n) PROVE FALSE
  <2>1. e # d => page'[e] = page[e] /\ behind'[e] = behind[e]
    BY <1>5, NewPage DEF Opens, PageTypeInv
  <2> QED
    BY <1>1, <1>5, <2>1, NewPage DEF Opens, UpToDate
<1>6. ASSUME NEW d \in Devices, NEW s \in Sections, Fails(d, s) PROVE FALSE
  BY <1>1, <1>6, NewCalls DEF Fails, UpToDate
<1>7. ASSUME NEW d \in Devices, NEW s \in Sections, NEW p, Handles(d, s, p) PROVE FALSE
  <2>1. /\ e = d => page'[e] = p
        /\ e # d => page'[e] = page[e]
        /\ \A t \in Sections : e # d \/ t # s => call'[e][t] = call[e][t]
    BY <1>7, NewCalls, NewPage DEF Handles
  <2>2. account' = account /\ behind' = behind
    BY <1>7 DEF Handles
  <2> QED
    BY <1>1, <1>7, <2>1, <2>2 DEF Handles, UpToDate
<1>8. ASSUME NEW d \in Devices, NEW s \in Sections, NEW q, Asks(d, s, q) PROVE FALSE
  <2>1. ~Changed(call[d][s])
    BY <1>8 DEF Asks, Changed
  <2> QED
    BY <1>1, <1>8, <2>1, NewCalls DEF Asks, UpToDate
<1>9. ASSUME NEW d \in Devices, NEW s \in Sections, NEW q, Passes(d, s, q) PROVE FALSE
  BY <1>1, <1>9, NewCalls DEF Passes, UpToDate
<1>10. ASSUME NEW d \in Devices, NEW s \in Sections, NEW q, Stores(d, s, q) PROVE FALSE
  <2>1. e # d => account' = account /\ ~behind[e]
    BY <1>10 DEF Stores
  <2>2. e = d => Changed(call'[e][s])
    BY <1>10, NewCalls DEF Stores
  <2>3. e # d => page'[e] = page[e] /\ \A t \in Sections : call'[e][t] = call[e][t]
    BY <1>10, NewCalls DEF Stores
  <2> QED
    BY <1>1, <2>1, <2>2, <2>3 DEF UpToDate
<1>11. ASSUME NEW d \in Devices, NEW s \in Sections, NEW q, Ends(d, s, q) PROVE FALSE
  BY <1>1, <1>11, NewCalls DEF Ends, UpToDate
<1>12. ASSUME NEW d \in Devices, NEW s \in Sections, NEW q, Issues(d, s, q) PROVE FALSE
  BY <1>1, <1>12, NewCalls DEF Issues, UpToDate
<1> QED
  BY <1>2, <1>3, <1>4, <1>5, <1>6, <1>7, <1>8, <1>9, <1>10, <1>11, <1>12 DEF PageStep

LEMMA TokenStep ==
  ASSUME PageTypeInv, TokenInv, PageStep
  PROVE  TokenInv'
<1> SUFFICES ASSUME NEW e \in Devices, ~excused'[e]
             PROVE  /\ \A t \in Sections : Brings(call'[e][t]) => call'[e][t].session \in sessions'
                    /\ page'[e].open =>
                         page'[e].held \in sessions' \/ \E t \in Sections : Ended(call'[e][t])
  BY DEF TokenInv, Brings, Ended
<1> DEFINE Held == /\ \A t \in Sections : Brings(call[e][t]) => call[e][t].session \in sessions
                   /\ page[e].open => page[e].held \in sessions \/ \E t \in Sections : Ended(call[e][t])
           After == /\ \A t \in Sections : Brings(call'[e][t]) => call'[e][t].session \in sessions'
                    /\ page'[e].open =>
                         page'[e].held \in sessions' \/ \E t \in Sections : Ended(call'[e][t])
<1>1. ~excused[e] => Held
  BY DEF TokenInv
<1>2. CASE Still
  BY <1>1, <1>2 DEF Still
<1>3. ASSUME NEW d \in Devices, NEW p, Looks(d, p) PROVE After
  BY <1>1, <1>3, NewPage DEF Looks
<1>4. ASSUME NEW d \in Devices, NEW p, Fetches(d, p) PROVE After
  BY <1>1, <1>4, NewPage DEF Fetches
<1>5. ASSUME NEW d \in Devices, NEW p, NEW n, Opens(d, p, n) PROVE After
  <2>1. e # d => page'[e] = page[e] /\ excused'[e] = excused[e]
    BY <1>5, NewPage DEF Opens, PageTypeInv
  <2>2. e = d => page'[e].held \in sessions' /\ \A t \in Sections : ~Brings(call'[e][t])
    BY <1>5, NewPage DEF Opens, Brings
  <2> QED
    BY <1>1, <1>5, <2>1, <2>2 DEF Opens
<1>6. ASSUME NEW d \in Devices, NEW s \in Sections, Fails(d, s) PROVE After
  <2>1. ~Brings(NoCall)
    BY DEF NoCall, Brings
  <2>2. /\ ~excused[e] /\ page' = page /\ sessions' = sessions
        /\ e = d => ~Ended(call[d][s])
    BY <1>6 DEF Fails
  <2>3. /\ e = d => call'[e][s] = NoCall
        /\ \A t \in Sections : e # d \/ t # s => call'[e][t] = call[e][t]
    BY <1>6, NewCalls DEF Fails
  <2> QED
    BY <1>1, <2>1, <2>2, <2>3
<1>7. ASSUME NEW d \in Devices, NEW s \in Sections, NEW p, Handles(d, s, p) PROVE After
  <2>1. ~Brings(NoCall)
    BY DEF NoCall, Brings
  <2>2. /\ e = d => page'[e] = p /\ call'[e][s] = NoCall
        /\ e # d => page'[e] = page[e]
        /\ \A t \in Sections : e # d \/ t # s => call'[e][t] = call[e][t]
    BY <1>7, NewCalls, NewPage DEF Handles
  <2>3. sessions' = sessions /\ Held
    BY <1>1, <1>7 DEF Handles
  <2> QED
    BY <1>7, <2>1, <2>2, <2>3 DEF Handles
<1>8. ASSUME NEW d \in Devices, NEW s \in Sections, NEW q, Asks(d, s, q) PROVE After
  <2>1. ~Ended(call[d][s]) /\ ~Brings(q)
    BY <1>8 DEF Asks, Ended, Brings
  <2> QED
    BY <1>1, <1>8, <2>1, NewCalls DEF Asks
<1>9. ASSUME NEW d \in Devices, NEW s \in Sections, NEW q, Passes(d, s, q) PROVE After
  BY <1>1, <1>9, NewCalls DEF Passes
<1>10. ASSUME NEW d \in Devices, NEW s \in Sections, NEW q, Stores(d, s, q) PROVE After
  <2>1. ~excused[e] /\ page' = page /\ sessions' = sessions
        /\ ~Brings(q) /\ (Ended(call[d][s]) => Ended(q))
    BY <1>10 DEF Stores
  <2>2. /\ e = d => call'[e][s] = q
        /\ \A t \in Sections : e # d \/ t # s => call'[e][t] = call[e][t]
    BY <1>10, NewCalls DEF Stores
  <2> QED
    BY <1>1, <2>1, <2>2
<1>11. ASSUME NEW d \in Devices, NEW s \in Sections, NEW q, Ends(d, s, q) PROVE After
  <2>1. /\ ~excused[e] /\ (e # d => page[e].held \notin sessions)
        /\ \A t \in Sections : call[e][t].session \notin sessions
    BY <1>11 DEF Ends
  <2>2. \A t \in Sections : ~Brings(call[e][t])
    BY <1>1, <2>1
  <2>3. \A t \in Sections : ~Brings(call'[e][t])
    BY <1>11, <2>2, NewCalls DEF Ends
  <2>4. page'[e].open => \E t \in Sections : Ended(call'[e][t])
    BY <1>1, <1>11, <2>1, NewCalls DEF Ends
  <2> QED
    BY <2>3, <2>4
<1>12. ASSUME NEW d \in Devices, NEW s \in Sections, NEW q, Issues(d, s, q) PROVE After
  BY <1>1, <1>12, NewCalls DEF Issues
<1> QED
  BY <1>2, <1>3, <1>4, <1>5, <1>6, <1>7, <1>8, <1>9, <1>10, <1>11, <1>12 DEF PageStep

-----------------------------------------------------------------------------
(* The theorems *)

SettingsInv == PageTypeInv /\ ShownInv /\ TokenInv

LEMMA SettingsInductive ==
  SettingsSpec => []SettingsInv
<1>1. SettingsInit => SettingsInv
  BY PagesFirst DEF SettingsInit, SettingsInv
<1>2. SettingsInv /\ [SettingsNext]_settingsVars => SettingsInv'
  BY SettingsKinds, PageTypeStep, ShownStep, TokenStep DEF SettingsInv
<1> QED
  BY <1>1, <1>2, PTL DEF SettingsSpec

\* PageTypeInv is an invariant: what each page remembers and each call carries is
\* well formed, whatever the answers and in whatever order they come.
THEOREM PageTypeCorrect == SettingsSpec => []PageTypeInv
BY SettingsInductive, PTL DEF SettingsInv

\* ShownIsStored is an invariant: a quiet page that is not behind shows the stored
\* account (invalidateMe of each handler of settings/page.tsx).
THEOREM ShownCorrect == SettingsSpec => []ShownIsStored
<1>1. SettingsInv => ShownIsStored
  BY DEF SettingsInv, ShownInv, ShownIsStored, Quiet, UpToDate, Changed
<1> QED
  BY <1>1, SettingsInductive, PTL

\* PageTokenWorks is an invariant: a quiet page that is not excused holds a
\* refresh token the database has (setTokens after changePassword and the others).
THEOREM PageTokenCorrect == SettingsSpec => []PageTokenWorks
<1>1. SettingsInv => PageTokenWorks
  BY DEF SettingsInv, TokenInv, PageTokenWorks, Quiet, Ended
<1> QED
  BY <1>1, SettingsInductive, PTL

=============================================================================
