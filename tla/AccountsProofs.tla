--------------------------- MODULE AccountsProofs ---------------------------
(***************************************************************************)
(* Proofs about Accounts for any accounts, identities, plans and number of *)
(* requests, and whatever accounts there are at first.                     *)
(***************************************************************************)
EXTENDS Accounts, FiniteSetTheorems, TLAPS

USE ScenesAreStates, BoundsAssumption, RequestsAssumption, IdentitiesAssumption

-----------------------------------------------------------------------------
(* Types *)

Managing  == {"tx read", "tx write"}
Resetting == {"mail", "unmade", "reset", "mark"}
Proving   == {"link", "unlink", "by email", "auto link", "create"}
Searching == {"by email", "create"}

Request == [pc : {"idle", "withdraw"} \cup Managing \cup Resetting \cup Proving,
            op : {None, "role", "suspend", "sign in", "sign up"},
            user : Users \cup {None}, id : Identities \cup {NoId}, value : BOOLEAN,
            link : Links \cup {0}, counted : BOOLEAN, doomed : BOOLEAN]

\* What a request carries for its next await, and in which scenes it occurs.
RequestOK(q) ==
    /\ q \in Request
    /\ q.pc \notin {"idle"} \cup Searching => q.user \in Users
    /\ q.pc \in Proving => q.id \in Identities
    /\ q.pc \in Resetting => q.link \in Links
    /\ q.pc = "unlink" => scene.use = "logins"
    /\ q.pc = "withdraw" => scene.use # "logins"

RequestsOK == req \in [Requests -> Request] /\ \A r \in Requests : RequestOK(req[r])

\* A link that was mailed is somebody's.
LinkRow == {row \in [user : Users \cup {None}, mailed : BOOLEAN, used : BOOLEAN] :
              row.mailed => row.user \in Users}

TablesOK ==
    /\ scene \in Scenes
    /\ users \in [Users -> User]
    /\ links \in [Links -> LinkRow]
    /\ space \in [owner : Users \cup {None}, members : SUBSET Users]
    /\ plans \in [Plans -> [user : Users \cup {None}, shared : BOOLEAN]]
    /\ cookie = NoCookie \/ cookie.user \in Users
    /\ batch \subseteq Users
    /\ adminLeft \in BOOLEAN /\ overlapped \subseteq Users /\ again \in [Links -> Nat]

TypeInv == TablesOK /\ RequestsOK

-----------------------------------------------------------------------------
(* The inductive invariant of the accounts *)

(***************************************************************************)
(* What is still true of what a request has checked, unless it is doomed:  *)
(* a transaction that takes an active administrator away has counted, and  *)
(* there is another one; an unlink leaves a way to log in, unless another  *)
(* one overlapped; an account whose 30 days are over has no request.       *)
(***************************************************************************)
OtherWay(u, i) == users[u].password \/ \E j \in users[u].ids : j.provider # i.provider

TakesFrom(q) ==
    /\ users[q.user].admin /\ ~users[q.user].suspended
    /\ IF q.op = "role" THEN ~q.value ELSE q.value

Claim(q) ==
    /\ q.pc = "tx write" /\ ~q.doomed =>
         /\ TakesFrom(q) => q.counted
         /\ q.counted /\ ~adminLeft => ActiveAdmins \ {q.user} # {}
    /\ q.pc = "unlink" =>
         users[q.user].exists /\ (OtherWay(q.user, q.id) \/ q.user \in overlapped)
    /\ q.pc \in {"withdraw", "unlink"} => ~users[q.user].old

ClaimsHold == \A r \in Requests : Claim(req[r])

ExpiredLeft ==
    \A u \in Users : (users[u].old => users[u].withdrawn) /\ (users[u].withdrawn => users[u].exists)

BatchExpired == \A u \in batch : users[u].old

EmailsUnique ==
    \A u, v \in Users : users[u].email = users[v].email => u = v \/ users[u].email = None

AccountInv ==
    /\ TypeInv /\ ClaimsHold /\ ExpiredLeft /\ BatchExpired /\ EmailsUnique
    /\ AdminsRemain /\ LoginMethodKept

-----------------------------------------------------------------------------
(* The inductive invariant of the reset links *)

\* The requests that found a link and will set a password.
OnLink(l) == {r \in Requests : At(r, "reset") /\ req[r].link = l}

Spent(l) == links[l].used \/ again[l] > 0

LinksSpent ==
    \A l \in Links :
        /\ Spent(l) => again[l] + Cardinality(OnLink(l)) <= Cardinality(Requests) - 1
        /\ again[l] > 0 => links[l].used \/ links[l] = NoLink

-----------------------------------------------------------------------------
(* Requests *)

\* The request r becomes q.
Becomes(r, q) == RequestOK(q) /\ req' = [req EXCEPT ![r] = q]

\* Of a request of which something was claimed, the same is claimed, or nothing.
Fades(r) ==
    \/ req'[r] = req[r]
    \/ req'[r].pc \notin {"tx write", "unlink", "withdraw"}
    \/ req'[r].pc = "tx write" /\ req'[r].doomed

\* A free request is well formed and claims nothing.
LEMMA IdleOK == RequestOK(Idle) /\ Claim(Idle)
<1>1. Idle.pc = "idle" /\ Idle \in Request
  BY DEF Idle, Request
<1> QED
  BY <1>1 DEF RequestOK, Claim, Resetting, Proving

\* Replacing one request by a well formed one.
LEMMA BecomesReqs ==
  ASSUME TypeInv, UNCHANGED scene, NEW r \in Requests, NEW q, Becomes(r, q)
  PROVE  RequestsOK' /\ \A x \in Requests : req'[x] = IF x = r THEN q ELSE req[x]
<1>1. q \in Request /\ RequestsOK
  BY DEF Becomes, RequestOK, TypeInv
<1>2. req' \in [Requests -> Request] /\ \A x \in Requests : req'[x] = IF x = r THEN q ELSE req[x]
  BY <1>1 DEF RequestsOK, Becomes
<1>3. \A x \in Requests : RequestOK(req'[x])
  BY <1>1, <1>2 DEF RequestsOK, Becomes
<1> QED
  BY <1>2, <1>3 DEF RequestsOK, RequestOK

\* Marking a request doomed keeps the rest of it.
LEMMA DoomedOK ==
  ASSUME NEW q, RequestOK(q)
  PROVE  LET d == [q EXCEPT !.doomed = TRUE]
         IN  RequestOK(d) /\ d.pc = q.pc /\ d.user = q.user /\ d.doomed
<1> DEFINE d == [q EXCEPT !.doomed = TRUE]
<1>1. /\ d \in Request /\ d.pc = q.pc /\ d.user = q.user /\ d.id = q.id /\ d.link = q.link
      /\ d.doomed
  BY DEF RequestOK, Request
<1> HIDE DEF d
<1>2. RequestOK(d)
  BY <1>1 DEF RequestOK
<1> QED
  BY <1>1, <1>2 DEF d

\* A request ends, and dooms those of D.
LEMMA DoomingReqs ==
  ASSUME TypeInv, UNCHANGED scene, NEW r \in Requests, NEW D,
         \A q \in D : At(q, "tx write"),
         req' = [q \in Requests |-> IF q = r THEN Idle
                                    ELSE IF q \in D THEN [req[q] EXCEPT !.doomed = TRUE] ELSE req[q]]
  PROVE  /\ RequestsOK'
         /\ \A q \in Requests : Fades(q) /\ (q \notin D \cup {r} => req'[q] = req[q])
         /\ \A q \in D \cap Requests : q # r => req'[q].pc = "tx write" /\ req'[q].doomed
         /\ req'[r] = Idle
<1>1. \A q \in Requests : RequestOK(req[q])
  BY DEF TypeInv, RequestsOK
<1>2. ASSUME NEW q \in Requests
      PROVE  /\ RequestOK(req'[q])
             /\ q \in D /\ q # r => req'[q].pc = "tx write" /\ req'[q].doomed
  <2>1. CASE q = r
    BY <2>1, IdleOK
  <2>2. CASE q # r /\ q \in D
    <3>1. req'[q] = [req[q] EXCEPT !.doomed = TRUE] /\ req[q].pc = "tx write"
      BY <2>2 DEF At
    <3> QED
      BY <1>1, <3>1, DoomedOK
  <2>3. CASE q # r /\ q \notin D
    BY <1>1, <2>3
  <2> QED
    BY <2>1, <2>2, <2>3
<1>3. req' \in [Requests -> Request]
  <2>1. \A q \in Requests : req'[q] \in Request
    BY <1>2 DEF RequestOK
  <2> QED
    BY <2>1
<1>4. req'[r] = Idle /\ Idle.pc = "idle"
  BY DEF Idle
<1>5. \A q \in Requests : q \notin D \cup {r} => req'[q] = req[q]
  OBVIOUS
<1> QED
  BY <1>2, <1>3, <1>4, <1>5 DEF RequestsOK, RequestOK, Fades

\* A request that has written a row of users ends, and dooms those that read it.
LEMMA WrittenReqs ==
  ASSUME TypeInv, UNCHANGED scene, NEW r \in Requests, NEW u, Written(r, u)
  PROVE  /\ RequestsOK' /\ req'[r] = Idle
         /\ \A q \in Requests : Fades(q)
         /\ \A q \in Requests : At(q, "tx write") /\ req[q].user = u /\ q # r
                                  => req'[q].pc = "tx write" /\ req'[q].doomed
<1> DEFINE D == {q \in Requests : At(q, "tx write") /\ req[q].user = u}
<1>1. req' = [q \in Requests |-> IF q = r THEN Idle
                                 ELSE IF q \in D THEN [req[q] EXCEPT !.doomed = TRUE] ELSE req[q]]
  BY DEF Written
<1>2. \A q \in D : At(q, "tx write")
  OBVIOUS
<1> HIDE DEF D
<1>3. /\ RequestsOK' /\ req'[r] = Idle
      /\ \A q \in Requests : Fades(q)
      /\ \A q \in D \cap Requests : q # r => req'[q].pc = "tx write" /\ req'[q].doomed
  BY <1>1, <1>2, DoomingReqs
<1> QED
  BY <1>3 DEF D

-----------------------------------------------------------------------------
(* Steps that leave the accounts as they are *)

\* What was claimed of the requests is claimed after a step that changes no account.
LEMMA ClaimsMoved ==
  ASSUME UNCHANGED <<users, overlapped, adminLeft>>, NEW q, Claim(q) PROVE Claim(q)'
  BY DEF Claim, TakesFrom, OtherWay, ActiveAdmins

\* A request goes on, having checked what is claimed of it.
LEMMA MovesKept ==
  ASSUME AccountInv, TablesOK', NEW r \in Requests, NEW q, Becomes(r, q), Claim(q),
         UNCHANGED <<scene, users, overlapped, adminLeft, batch>>
  PROVE  AccountInv'
<1>1. RequestsOK' /\ \A x \in Requests : req'[x] = IF x = r THEN q ELSE req[x]
  BY BecomesReqs DEF AccountInv
<1>2. ClaimsHold'
  <2>1. \A x \in Requests : Claim(req'[x])
    BY <1>1 DEF AccountInv, ClaimsHold
  <2> QED
    BY <2>1, ClaimsMoved DEF ClaimsHold, Claim, TakesFrom, OtherWay, ActiveAdmins
<1> QED
  BY <1>1, <1>2 DEF AccountInv, TypeInv, ExpiredLeft, BatchExpired, EmailsUnique, AdminsRemain,
                    ActiveAdmins, LoginMethodKept, Stranded

\* A step of nobody's that changes no account and no request.
LEMMA AsideKept ==
  ASSUME AccountInv, TablesOK', batch' \subseteq {u \in Users : users[u].old},
         UNCHANGED <<scene, users, req, history>>
  PROVE  AccountInv'
<1>1. RequestsOK'
  BY DEF AccountInv, TypeInv, RequestsOK, RequestOK
<1> QED
  BY <1>1 DEF AccountInv, TypeInv, ClaimsHold, Claim, TakesFrom, OtherWay, ExpiredLeft, BatchExpired,
              EmailsUnique, AdminsRemain, ActiveAdmins, LoginMethodKept, Stranded, history

\* A request ends without having written an account.
LEMMA AnswerKept ==
  ASSUME AccountInv, TablesOK', NEW r \in Requests, Answer(r),
         UNCHANGED <<scene, users, overlapped, adminLeft, batch>>
  PROVE  AccountInv'
<1>1. Becomes(r, Idle)
  BY IdleOK DEF Becomes, Answer
<1> QED
  BY <1>1, IdleOK, MovesKept

\* A request goes on to where nothing is claimed of it.
LEMMA GotoKept ==
  ASSUME AccountInv, TablesOK', NEW r \in Requests, NEW pc \in {"create", "unmade", "mark"},
         IF pc = "create" THEN At(r, "by email") ELSE req[r].pc \in {"mail", "reset"}, Goto(r, pc),
         UNCHANGED <<scene, users, overlapped, adminLeft, batch>>
  PROVE  AccountInv'
<1> DEFINE q == [req[r] EXCEPT !.pc = pc]
<1>1. RequestOK(req[r])
  BY DEF AccountInv, TypeInv, RequestsOK
<1>2. q \in Request /\ q.pc = pc /\ q.user = req[r].user /\ q.id = req[r].id /\ q.link = req[r].link
  BY <1>1 DEF RequestOK, Request, Managing, Resetting, Proving
<1>3. req' = [req EXCEPT ![r] = q]
  BY DEF Goto
<1> HIDE DEF q
<1>4. CASE pc = "create"
  <2>1. RequestOK(q) /\ Claim(q)
    BY <1>1, <1>2, <1>4 DEF At, RequestOK, Claim, Searching, Proving, Resetting
  <2> QED
    BY <1>3, <2>1, MovesKept DEF Becomes
<1>5. CASE pc # "create"
  <2>1. RequestOK(q) /\ Claim(q)
    BY <1>1, <1>2, <1>5 DEF RequestOK, Claim, Searching, Proving, Resetting
  <2> QED
    BY <1>3, <2>1, MovesKept DEF Becomes
<1> QED
  BY <1>4, <1>5

\* A request that begins has checked what is claimed of it.
LEMMA BeginKept ==
  ASSUME AccountInv, TablesOK', NEW r \in Requests,
         NEW q \in Request, q.pc \in {"tx read", "withdraw", "mail", "reset"} \cup Proving,
         q.pc # "by email" => q.user \in Users,
         q.pc \in Proving => q.id \in Identities, q.pc \in Resetting => q.link \in Links,
         q.pc = "withdraw" => Accessible(q.user) /\ scene.use # "logins",
         q.pc = "unlink" => Accessible(q.user) /\ OtherWay(q.user, q.id) /\ scene.use = "logins",
         Begin(r, q), UNCHANGED <<scene, users, overlapped, adminLeft, batch>>
  PROVE  AccountInv'
<1>1. RequestOK(q)
  BY DEF RequestOK, Searching
<1>2. Claim(q)
  BY DEF AccountInv, ExpiredLeft, Claim, Accessible, Proving
<1> QED
  BY <1>1, <1>2, MovesKept DEF Becomes, Begin

\* The requests about roles and withdrawals begin.
LEMMA ManageKept ==
  ASSUME AccountInv, NEW r \in Requests, NEW u \in Users,
         \/ Withdraw(r, u)
         \/ \E t \in Users, op \in {"role", "suspend"}, value \in BOOLEAN : Manage(r, u, op, t, value)
  PROVE  AccountInv'
<1>1. CASE Withdraw(r, u)
  <2> DEFINE q == [Idle EXCEPT !.pc = "withdraw", !.user = u]
  <2>1. q \in Request /\ q.pc = "withdraw" /\ q.user = u
    BY IdleOK DEF RequestOK, Request, Idle
  <2>2. TablesOK'
    BY <1>1 DEF Withdraw, AccountInv, TypeInv, TablesOK, rows, history
  <2>3. /\ Begin(r, q) /\ Accessible(u) /\ scene.use # "logins"
        /\ UNCHANGED <<scene, users, overlapped, adminLeft, batch>>
    BY <1>1 DEF Withdraw, rows, history
  <2> HIDE DEF q
  <2> QED
    BY <2>1, <2>2, <2>3, BeginKept DEF Proving, Resetting
<1>2. ASSUME NEW t \in Users, NEW op \in {"role", "suspend"}, NEW value \in BOOLEAN, Manage(r, u, op, t, value)
      PROVE  AccountInv'
  <2> DEFINE q == [Idle EXCEPT !.pc = "tx read", !.op = op, !.user = t, !.value = value]
  <2>1. q \in Request /\ q.pc = "tx read" /\ q.user = t
    BY IdleOK DEF RequestOK, Request, Idle, Managing
  <2>2. TablesOK'
    BY <1>2 DEF Manage, AccountInv, TypeInv, TablesOK, rows, history
  <2>3. Begin(r, q) /\ UNCHANGED <<scene, users, overlapped, adminLeft, batch>>
    BY <1>2 DEF Manage, rows, history
  <2> HIDE DEF q
  <2> QED
    BY <2>1, <2>2, <2>3, BeginKept DEF Proving, Resetting
<1> QED
  BY <1>1, <1>2

\* The requests about providers begin.
LEMMA SignInKept ==
  ASSUME AccountInv, NEW r \in Requests, NEW i \in Identities,
         \/ LinkBack(r, i) \/ SignIn(r, i) \/ SignUp(r, i)
         \/ \E u \in Users : i \in users[u].ids /\ Unlink(r, u, i)
  PROVE  AccountInv'
<1>1. TablesOK'
  BY DEF LinkBack, SignIn, SignUp, SearchFor, Unlink, AccountInv, TypeInv, TablesOK, rows, history, NoCookie
<1>2. UNCHANGED <<scene, users, overlapped, adminLeft, again, batch>>
  BY DEF LinkBack, SignIn, SignUp, SearchFor, Unlink, rows, history
<1>3. ASSUME NEW op \in {"sign in", "sign up"}, SearchFor(r, i, op) PROVE AccountInv'
  <2> DEFINE q == [Idle EXCEPT !.pc = "by email", !.op = op, !.id = i]
  <2>1. q \in Request /\ q.pc = "by email" /\ q.id = i
    BY IdleOK DEF RequestOK, Request, Idle, Proving
  <2>2. Begin(r, q)
    BY <1>3 DEF SearchFor
  <2> HIDE DEF q
  <2> QED
    BY <1>1, <1>2, <2>1, <2>2, BeginKept DEF Proving, Resetting
<1>4. ASSUME NEW u \in Users, Unlink(r, u, i) PROVE AccountInv'
  <2> DEFINE q == [Idle EXCEPT !.pc = "unlink", !.user = u, !.id = i]
  <2>1. q \in Request /\ q.pc = "unlink" /\ q.user = u /\ q.id = i
    BY IdleOK DEF RequestOK, Request, Idle, Proving
  <2>2. Begin(r, q) /\ Accessible(u) /\ OtherWay(u, i) /\ scene.use = "logins"
    BY <1>4 DEF Unlink, OtherWay
  <2> HIDE DEF q
  <2> QED
    BY <1>1, <1>2, <2>1, <2>2, BeginKept DEF Proving, Resetting
<1>5. CASE LinkBack(r, i)
  <2>1. CASE req' = req
    BY <1>1, <1>2, <2>1, AsideKept DEF AccountInv, BatchExpired, TypeInv, TablesOK, history
  <2>2. CASE req' # req
    <3> DEFINE q == [Idle EXCEPT !.pc = "link", !.user = cookie.user, !.id = i]
    <3>1. cookie.user \in Users
      BY <1>5 DEF LinkBack, AccountInv, TypeInv, TablesOK
    <3>2. q \in Request /\ q.pc = "link" /\ q.user = cookie.user /\ q.id = i
      BY <3>1, IdleOK DEF RequestOK, Request, Idle, Proving
    <3>3. Begin(r, q)
      BY <1>5, <2>2 DEF LinkBack
    <3> HIDE DEF q
    <3> QED
      BY <1>1, <1>2, <3>1, <3>2, <3>3, BeginKept DEF Proving, Resetting
  <2> QED
    BY <2>1, <2>2
<1> QED
  BY <1>3, <1>4, <1>5 DEF SignIn, SignUp

\* The requests about reset links begin, go on and end.
LEMMA LinkRequestsKept ==
  ASSUME AccountInv, NEW r \in Requests,
         \/ \E u \in Users : Forgot(r, u)
         \/ \E l \in Links : Reset(r, l)
         \/ ForgotMail(r) \/ ForgotUndo(r) \/ ResetMark(r)
  PROVE  AccountInv'
<1>1. /\ links \in [Links -> LinkRow] /\ RequestOK(req[r]) /\ NoLink \in LinkRow
      /\ BatchExpired /\ batch \subseteq Users
  BY DEF AccountInv, TypeInv, TablesOK, RequestsOK, NoLink, LinkRow
<1>2. ASSUME links' \in [Links -> LinkRow],
             UNCHANGED <<scene, users, space, plans, cookie, batch, history>>
      PROVE  TablesOK' /\ UNCHANGED <<scene, users, overlapped, adminLeft, batch>>
  BY <1>2 DEF AccountInv, TypeInv, TablesOK, history
<1>3. ASSUME NEW u \in Users, Forgot(r, u) PROVE AccountInv'
  <2>1. PICK l \in Links :
          /\ links' = [links EXCEPT ![l] = [NoLink EXCEPT !.user = u]]
          /\ Begin(r, [Idle EXCEPT !.pc = "mail", !.user = u, !.link = l])
    BY <1>3 DEF Forgot
  <2> DEFINE q == [Idle EXCEPT !.pc = "mail", !.user = u, !.link = l]
  <2>2. links' \in [Links -> LinkRow]
    BY <1>1, <2>1 DEF LinkRow
  <2>3. q \in Request /\ q.pc = "mail" /\ q.user = u /\ q.link = l
    BY IdleOK DEF RequestOK, Request, Idle, Resetting
  <2>4. UNCHANGED <<scene, users, space, plans, cookie, batch, history>> /\ Begin(r, q)
    BY <1>3, <2>1 DEF Forgot
  <2> HIDE DEF q
  <2> QED
    BY <1>2, <2>2, <2>3, <2>4, BeginKept DEF Proving, Resetting
<1>4. ASSUME NEW l \in Links, Reset(r, l) PROVE AccountInv'
  <2> DEFINE q == [Idle EXCEPT !.pc = "reset", !.user = links[l].user, !.link = l]
  <2>1. links[l].user \in Users
    BY <1>1, <1>4 DEF Reset, LinkRow
  <2>2. q \in Request /\ q.pc = "reset" /\ q.user = links[l].user /\ q.link = l
    BY <2>1, IdleOK DEF RequestOK, Request, Idle, Resetting
  <2>3. /\ links' = links /\ Begin(r, q)
        /\ UNCHANGED <<scene, users, space, plans, cookie, batch, history>>
    BY <1>4 DEF Reset, rows
  <2> HIDE DEF q
  <2> QED
    BY <1>1, <1>2, <2>1, <2>2, <2>3, BeginKept DEF Proving, Resetting
<1>5. CASE ForgotMail(r)
  <2>1. links' \in [Links -> LinkRow]
    <3> DEFINE row == [links[req[r].link] EXCEPT !.mailed = TRUE]
    <3>1. links' = links \/ (links[req[r].link].user # None /\ links' = [links EXCEPT ![req[r].link] = row])
      BY <1>5 DEF ForgotMail
    <3>2. req[r].link \in Links
      BY <1>1, <1>5 DEF ForgotMail, At, RequestOK, Resetting
    <3>3. links[req[r].link].user # None => row \in LinkRow
      BY <1>1, <3>2 DEF LinkRow
    <3> HIDE DEF row
    <3> QED
      BY <1>1, <3>1, <3>3
  <2>2. /\ Answer(r) \/ Goto(r, "unmade")
        /\ req[r].pc = "mail"
        /\ UNCHANGED <<scene, users, space, plans, cookie, batch, history>>
    BY <1>5 DEF ForgotMail, At
  <2> QED
    BY <1>2, <2>1, <2>2, AnswerKept, GotoKept
<1>6. CASE ForgotUndo(r) \/ ResetMark(r)
  <2>1. links' \in [Links -> LinkRow]
    <3> DEFINE row == [links[req[r].link] EXCEPT !.used = TRUE]
    <3>1. links' = links \/ \E new \in {NoLink, row} : links' = [links EXCEPT ![req[r].link] = new]
      BY <1>6 DEF ForgotUndo, ResetMark
    <3>2. req[r].link \in Links
      BY <1>1, <1>6 DEF ForgotUndo, ResetMark, At, RequestOK, Resetting
    <3>3. row \in LinkRow
      BY <1>1, <3>2 DEF LinkRow
    <3> HIDE DEF row
    <3> QED
      BY <1>1, <3>1, <3>3
  <2>2. Answer(r) /\ UNCHANGED <<scene, users, space, plans, cookie, batch, history>>
    BY <1>6 DEF ForgotUndo, ResetMark
  <2> QED
    BY <1>2, <2>1, <2>2, AnswerKept
<1> QED
  BY <1>3, <1>4, <1>5, <1>6

\* Two are more than one: without any of them there is another.
LEMMA AnotherOne == ASSUME NEW S, Cardinality(S) > 1, NEW x PROVE S \ {x} # {}
<1>1. SUFFICES ASSUME S \ {x} = {} PROVE FALSE
  OBVIOUS
<1>2. CASE x \in S
  <2>1. S = {x}
    BY <1>1, <1>2
  <2>2. Cardinality({x}) = 1
    BY FS_Singleton
  <2> QED
    BY <2>1, <2>2
<1>3. CASE x \notin S
  <2>1. S = {}
    BY <1>1, <1>3
  <2>2. Cardinality({}) = 0
    BY FS_EmptySet
  <2> QED
    BY <2>1, <2>2
<1> QED
  BY <1>2, <1>3

\* The count and the search by address are read, or a request fails.
LEMMA ReadKept ==
  ASSUME AccountInv, NEW r \in Requests, TxRead(r) \/ ByEmail(r) \/ Fail(r)
  PROVE  AccountInv'
<1>1. TablesOK' /\ UNCHANGED <<scene, users, overlapped, adminLeft, batch>>
  BY DEF TxRead, ByEmail, Fail, AccountInv, TypeInv, TablesOK, rows, history
<1>2. RequestOK(req[r])
  BY DEF AccountInv, TypeInv, RequestsOK
<1>3. CASE Answer(r)
  BY <1>1, <1>3, AnswerKept
<1>4. CASE TxRead(r) /\ ~Answer(r)
  <2> DEFINE takes == TakesAdmin(r)
             q     == [req[r] EXCEPT !.pc = "tx write", !.counted = takes]
  <2>1. /\ req' = [req EXCEPT ![r] = q]
        /\ takes => Cardinality(ActiveAdmins) > 1
        /\ takes \in BOOLEAN /\ takes = TakesFrom(req[r])
        /\ req[r].pc = "tx read"
    BY <1>4, <1>2 DEF TxRead, TakesAdmin, TakesFrom, Target, At, RequestOK, Request
  <2>2. /\ q \in Request /\ q.pc = "tx write" /\ q.user = req[r].user /\ q.op = req[r].op
        /\ q.value = req[r].value /\ q.counted = takes
    <3> HIDE DEF takes
    <3> QED
      BY <1>2, <2>1 DEF RequestOK, Request, Managing
  <2> HIDE DEF q, takes
  <2>3. RequestOK(q)
    BY <1>2, <2>1, <2>2 DEF RequestOK, Searching, Proving, Resetting
  <2>4. Claim(q)
    BY <2>1, <2>2, AnotherOne DEF Claim, TakesFrom
  <2> QED
    BY <1>1, <2>1, <2>3, <2>4, MovesKept DEF Becomes
<1>5. CASE ByEmail(r) /\ ~Answer(r)
  <2>1. CASE Goto(r, "create")
    BY <1>1, <1>5, <2>1, GotoKept DEF ByEmail
  <2>2. CASE ~Goto(r, "create")
    <3>1. PICK u \in Users : req' = [req EXCEPT ![r].pc = "auto link", ![r].user = u]
      BY <1>5, <2>2 DEF ByEmail, WithEmail
    <3> DEFINE q == [req[r] EXCEPT !.pc = "auto link", !.user = u]
    <3>2. req' = [req EXCEPT ![r] = q] /\ req[r].pc = "by email"
      BY <1>5, <3>1 DEF AccountInv, TypeInv, RequestsOK, Request, ByEmail, At
    <3>3. q \in Request /\ q.pc = "auto link" /\ q.user = u /\ q.id = req[r].id
      BY <1>2 DEF RequestOK, Request, Proving
    <3> HIDE DEF q
    <3>4. RequestOK(q) /\ Claim(q)
      BY <1>2, <3>2, <3>3 DEF RequestOK, Claim, Searching, Proving, Resetting
    <3> QED
      BY <1>1, <3>2, <3>4, MovesKept DEF Becomes
  <2> QED
    BY <2>1, <2>2
<1> QED
  BY <1>3, <1>4, <1>5 DEF Fail

-----------------------------------------------------------------------------
(* Steps that change an account *)

SameStanding(row, old) ==
    /\ row.exists = old.exists /\ row.admin = old.admin /\ row.suspended = old.suspended
    /\ row.withdrawn = old.withdrawn /\ row.old = old.old

\* How the user of t logs in changes, and at most one way to log in goes.
LEMMA ProfileKept ==
  ASSUME AccountInv, NEW t \in Users, NEW row \in User, SameStanding(row, users[t]),
         users' = [users EXCEPT ![t] = row],
         UNCHANGED <<scene, links, space, plans, cookie, batch, adminLeft>>,
         overlapped \subseteq overlapped', overlapped' \subseteq Users, again' \in [Links -> Nat],
         row.email = users[t].email \/ WithEmail(row.email) = {},
         row.exists => row.password \/ row.ids # {} \/ t \in overlapped',
         RequestsOK', \A r \in Requests : Fades(r),
         \A r \in Requests : (req'[r].pc = "unlink" /\ req'[r].user = t) =>
            \/ t \in overlapped' \/ row.password
            \/ \E j \in row.ids : j.provider # req'[r].id.provider
  PROVE  AccountInv'
<1>1. TablesOK /\ users \in [Users -> User] /\ \A u \in Users : users'[u] = IF u = t THEN row ELSE users[u]
  BY DEF AccountInv, TypeInv, TablesOK
<1>2. TypeInv'
  BY <1>1 DEF TablesOK, TypeInv
<1>3. ActiveAdmins' = ActiveAdmins
  BY <1>1 DEF ActiveAdmins, ActiveAdmin, SameStanding
<1>4. ClaimsHold'
  <2>1. ASSUME NEW q, Claim(q), q.pc \notin {"idle"} \cup Searching => q.user \in Users,
               (q.pc = "unlink" /\ q.user = t) => OtherWay(t, q.id)' \/ t \in overlapped'
        PROVE  Claim(q)'
    <3>1. q.pc = "tx write" => (TakesFrom(q)' <=> TakesFrom(q))
      BY <1>1, <2>1 DEF TakesFrom, SameStanding, Searching
    <3>2. q.pc = "unlink" =>
            users'[q.user].exists /\ (OtherWay(q.user, q.id)' \/ q.user \in overlapped')
      BY <1>1, <2>1 DEF Claim, OtherWay, SameStanding, Searching
    <3>3. q.pc \in {"withdraw", "unlink"} => ~users'[q.user].old
      BY <1>1, <2>1 DEF Claim, SameStanding, Searching
    <3> QED
      BY <1>3, <2>1, <3>1, <3>2, <3>3 DEF Claim
  <2>2. ASSUME NEW r \in Requests PROVE Claim(req[r])'
    <3>1. CASE req'[r] = req[r]
      <4>1. /\ Claim(req'[r]) /\ (req'[r].pc \notin {"idle"} \cup Searching => req'[r].user \in Users)
            /\ (req'[r].pc = "unlink" /\ req'[r].user = t) => OtherWay(t, req[r].id)' \/ t \in overlapped'
        BY <1>1, <3>1 DEF AccountInv, ClaimsHold, TypeInv, RequestsOK, RequestOK, OtherWay
      <4> QED
        BY <2>1, <4>1 DEF Claim, TakesFrom, OtherWay
    <3>2. CASE req'[r].pc \notin {"tx write", "unlink", "withdraw"}
      BY <3>2 DEF Claim
    <3>3. CASE req'[r].pc = "tx write" /\ req'[r].doomed
      BY <3>3 DEF Claim
    <3> QED
      BY <3>1, <3>2, <3>3 DEF Fades
  <2> QED
    BY <2>2 DEF ClaimsHold
<1>5. (ExpiredLeft /\ BatchExpired)'
  BY <1>1 DEF AccountInv, ExpiredLeft, BatchExpired, SameStanding, TypeInv, TablesOK
<1>6. EmailsUnique'
  BY <1>1 DEF AccountInv, EmailsUnique, WithEmail, None
<1>7. LoginMethodKept'
  BY <1>1 DEF AccountInv, LoginMethodKept, Stranded, SameStanding
<1> QED
  BY <1>2, <1>3, <1>4, <1>5, <1>6, <1>7 DEF AccountInv, AdminsRemain

\* What is claimed of the unlinks that go on.
LEMMA UnlinksClaimed ==
  ASSUME AccountInv, NEW r \in Requests, Fades(r), req'[r].pc = "unlink"
  PROVE  req'[r] = req[r] /\ (OtherWay(req'[r].user, req'[r].id) \/ req'[r].user \in overlapped)
  BY DEF Fades, AccountInv, ClaimsHold, Claim

\* The identity of a provider is attached to an account.
LEMMA AttachKept ==
  ASSUME AccountInv, NEW r \in Requests, LinkWrite(r) \/ AutoLink(r) PROVE AccountInv'
<1> DEFINE u   == req[r].user
           i   == req[r].id
           ids == {j \in users[u].ids : j.provider # i.provider} \cup {i}
           row == [users[u] EXCEPT !.ids = ids]
<1>1. /\ TypeInv /\ users \in [Users -> User] /\ u \in Users /\ i \in Identities /\ again \in [Links -> Nat]
      /\ overlapped \subseteq Users
  BY DEF AccountInv, TypeInv, TablesOK, RequestsOK, RequestOK, LinkWrite, AutoLink, At, Proving, Searching
<1>2. /\ Written(r, u)
      /\ UNCHANGED <<scene, links, space, plans, cookie, batch, adminLeft, overlapped, again>>
      /\ users' = [users EXCEPT ![u] = row] \/ users' = users
  BY <1>1 DEF LinkWrite, AutoLink, Attach, history
<1>3. RequestsOK' /\ \A x \in Requests : Fades(x)
  BY <1>1, <1>2, WrittenReqs
<1>4. \A x \in Requests : req'[x].pc = "unlink" =>
         OtherWay(req'[x].user, req'[x].id) \/ req'[x].user \in overlapped
  BY <1>3, UnlinksClaimed
<1>5. CASE users' = [users EXCEPT ![u] = row]
  <2>1. /\ row \in User /\ SameStanding(row, users[u]) /\ row.email = users[u].email
        /\ row.password = users[u].password /\ row.ids = ids
    <3>1. users[u] \in User /\ ids \subseteq Identities
      BY <1>1 DEF User
    <3> HIDE DEF ids, u
    <3> QED
      BY <3>1 DEF User, SameStanding
  <2>2. \A k : (\E j \in users[u].ids : j.provider # k.provider) => \E j \in ids : j.provider # k.provider
    OBVIOUS
  <2> HIDE DEF row
  <2>3. i \in ids
    OBVIOUS
  <2> HIDE DEF ids, i
  <2>4. \A x \in Requests : (req'[x].pc = "unlink" /\ req'[x].user = u) =>
            \/ u \in overlapped' \/ row.password
            \/ \E j \in row.ids : j.provider # req'[x].id.provider
    BY <1>2, <1>4, <2>1, <2>2 DEF OtherWay
  <2>5. row.exists => row.password \/ row.ids # {} \/ u \in overlapped'
    BY <2>1, <2>3
  <2> HIDE DEF u
  <2>6. again' \in [Links -> Nat] /\ overlapped \subseteq overlapped' /\ overlapped' \subseteq Users
    BY <1>1, <1>2
  <2> QED
    BY <1>1, <1>2, <1>3, <1>5, <2>1, <2>4, <2>5, <2>6, ProfileKept
<1>6. CASE users' = users
  <2>1. users[u] \in User /\ SameStanding(users[u], users[u])
    BY <1>1 DEF SameStanding
  <2>2. users[u].exists => users[u].password \/ users[u].ids # {} \/ u \in overlapped'
    BY <1>1, <1>2 DEF AccountInv, LoginMethodKept, Stranded
  <2>3. users' = [users EXCEPT ![u] = users[u]]
    BY <1>1, <1>6
  <2>4. \A x \in Requests : (req'[x].pc = "unlink" /\ req'[x].user = u) =>
            \/ u \in overlapped' \/ users[u].password
            \/ \E j \in users[u].ids : j.provider # req'[x].id.provider
    BY <1>2, <1>4 DEF OtherWay
  <2> QED
    BY <1>1, <1>2, <1>3, <2>1, <2>2, <2>3, <2>4, ProfileKept
<1> QED
  BY <1>2, <1>5, <1>6

\* A provider is removed: it was not the last way to log in, unless two requests
\* overlap, and then the account is marked.
LEMMA UnlinkKept == ASSUME AccountInv, NEW r \in Requests, UnlinkWrite(r) PROVE AccountInv'
<1> DEFINE u   == req[r].user
           i   == req[r].id
           ids == {j \in users[u].ids : j.provider # i.provider}
           row == [users[u] EXCEPT !.ids = ids]
<1>1. /\ TypeInv /\ users \in [Users -> User] /\ u \in Users /\ again \in [Links -> Nat]
      /\ overlapped \subseteq Users /\ Claim(req[r]) /\ req[r].pc = "unlink" /\ req \in [Requests -> Request]
  BY DEF AccountInv, TypeInv, TablesOK, RequestsOK, RequestOK, ClaimsHold, UnlinkWrite, At, Searching
<1>2. /\ Written(r, u) /\ users' = [users EXCEPT ![u] = row]
      /\ UNCHANGED <<scene, links, space, plans, cookie, batch, adminLeft, again>>
      /\ overlapped \subseteq overlapped' /\ overlapped' \subseteq Users
      /\ (\E q \in Requests \ {r} : At(q, "unlink") /\ req[q].user = u) => u \in overlapped'
  BY <1>1 DEF UnlinkWrite
<1>3. RequestsOK' /\ (\A x \in Requests : Fades(x)) /\ req'[r] = Idle
  BY <1>1, <1>2, WrittenReqs
<1>4. /\ row \in User /\ SameStanding(row, users[u]) /\ row.email = users[u].email
      /\ row.password = users[u].password /\ row.ids = ids
  BY <1>1 DEF User, SameStanding
<1>5. row.exists => row.password \/ row.ids # {} \/ u \in overlapped'
  <2>1. users[u].password \/ (\E j \in users[u].ids : j.provider # i.provider) \/ u \in overlapped
    BY <1>1 DEF Claim, OtherWay
  <2> QED
    BY <1>2, <1>4, <2>1
<1>6. \A x \in Requests : (req'[x].pc = "unlink" /\ req'[x].user = u) => u \in overlapped'
  <2>1. \A x \in Requests : req'[x].pc = "unlink" => req'[x] = req[x] /\ x # r
    BY <1>3, UnlinksClaimed DEF Idle
  <2> QED
    BY <1>2, <2>1 DEF At
<1> HIDE DEF row, ids, i
<1> QED
  BY ZenonT(30), <1>1, <1>2, <1>3, <1>4, <1>5, <1>6, ProfileKept

\* An account gets a password, or another address.
LEMMA PasswordKept ==
  ASSUME AccountInv,
         \/ \E r \in Requests : ResetPassword(r)
         \/ \E u \in Users : SetPassword(u) \/ \E e \in Emails : SetEmail(u, e)
  PROVE  AccountInv'
<1>1. TypeInv /\ TablesOK /\ users \in [Users -> User] /\ again \in [Links -> Nat] /\ RequestsOK
  BY DEF AccountInv, TypeInv, TablesOK
<1>2. ASSUME NEW u \in Users, NEW row \in User, users' = [users EXCEPT ![u] = row],
             SameStanding(row, users[u]), row.ids = users[u].ids,
             users[u].password => row.password,
             row.email = users[u].email \/ WithEmail(row.email) = {},
             UNCHANGED <<scene, links, space, plans, cookie, batch, adminLeft, overlapped>>,
             again' \in [Links -> Nat], RequestsOK', \A r \in Requests : Fades(r)
      PROVE  AccountInv'
  <2>1. \A x \in Requests : (req'[x].pc = "unlink" /\ req'[x].user = u) =>
            \/ u \in overlapped' \/ row.password
            \/ \E j \in row.ids : j.provider # req'[x].id.provider
    BY <1>2, UnlinksClaimed DEF OtherWay
  <2>2. row.exists => row.password \/ row.ids # {} \/ u \in overlapped'
    BY <1>2 DEF AccountInv, LoginMethodKept, Stranded, SameStanding
  <2> QED
    BY <1>1, <1>2, <2>1, <2>2, ProfileKept DEF TablesOK
<1>3. ASSUME NEW u \in Users, SetPassword(u) \/ \E e \in Emails : SetEmail(u, e) PROVE AccountInv'
  <2>1. /\ UNCHANGED <<scene, links, space, plans, cookie, batch, req, history>>
        /\ \A r \in Requests : Fades(r)
    BY <1>3 DEF SetPassword, SetEmail, Fades
  <2>2. RequestsOK' /\ again' \in [Links -> Nat]
    BY <1>1, <2>1 DEF RequestsOK, RequestOK, history
  <2>3. CASE SetPassword(u)
    <3> DEFINE row == [users[u] EXCEPT !.password = TRUE]
    <3>1. /\ row \in User /\ SameStanding(row, users[u]) /\ row.ids = users[u].ids /\ row.password
          /\ row.email = users[u].email
      BY <1>1 DEF User, SameStanding
    <3>2. users' = [users EXCEPT ![u] = row]
      BY <2>3 DEF SetPassword
    <3> HIDE DEF row
    <3> QED
      BY <1>2, <2>1, <2>2, <3>1, <3>2 DEF history
  <2>4. ASSUME NEW e \in Emails, SetEmail(u, e) PROVE AccountInv'
    <3> DEFINE row == [users[u] EXCEPT !.email = e]
    <3>1. /\ row \in User /\ SameStanding(row, users[u]) /\ row.ids = users[u].ids
          /\ row.password = users[u].password /\ row.email = e
      BY <1>1 DEF User, SameStanding
    <3>2. users' = [users EXCEPT ![u] = row] /\ WithEmail(e) = {}
      BY <2>4 DEF SetEmail
    <3> HIDE DEF row
    <3> QED
      BY <1>2, <2>1, <2>2, <3>1, <3>2 DEF history
  <2> QED
    BY <1>3, <2>3, <2>4
<1>4. ASSUME NEW r \in Requests, ResetPassword(r) PROVE AccountInv'
  <2>1. RequestOK(req[r]) /\ req[r].pc = "reset" /\ req[r].user \in Users
    BY <1>1, <1>4 DEF ResetPassword, At, RequestsOK, RequestOK, Searching
  <2>2. /\ UNCHANGED <<scene, links, space, plans, cookie, batch, adminLeft, overlapped>>
    BY <1>4 DEF ResetPassword
  <2>3. CASE Target(r).exists
    <3> DEFINE u   == req[r].user
               row == [users[u] EXCEPT !.password = TRUE]
               q   == [req[r] EXCEPT !.pc = "mark"]
    <3>1. /\ row \in User /\ SameStanding(row, users[u]) /\ row.ids = users[u].ids /\ row.password
          /\ row.email = users[u].email
      <4>1. users[u] \in User
        BY <1>1, <2>1
      <4> HIDE DEF u
      <4> QED
        BY <4>1 DEF User, SameStanding
    <3>2. users' = [users EXCEPT ![u] = row] /\ req' = [req EXCEPT ![r] = q]
      BY <1>4, <2>3 DEF ResetPassword, Goto
    <3>3. again' \in [Links -> Nat]
      BY <1>1, <1>4, <2>3 DEF ResetPassword
    <3>4. /\ q \in Request /\ q.pc = "mark" /\ q.user = req[r].user /\ q.id = req[r].id
          /\ q.link = req[r].link
      BY <2>1 DEF RequestOK, Request, Resetting
    <3> HIDE DEF row, q
    <3>5. RequestOK(q)
      BY <2>1, <3>4 DEF RequestOK, Searching, Proving, Resetting
    <3>6. RequestsOK' /\ \A x \in Requests : Fades(x)
      <4>1. RequestsOK' /\ \A x \in Requests : req'[x] = IF x = r THEN q ELSE req[x]
        BY <1>1, <2>2, <3>2, <3>5, BecomesReqs DEF Becomes
      <4> QED
        BY <3>4, <4>1 DEF Fades
    <3> QED
      BY <1>2, <2>1, <2>2, <3>1, <3>2, <3>3, <3>6
  <2>4. CASE ~Target(r).exists
    <3>1. Answer(r) /\ UNCHANGED <<users, again>>
      BY <1>4, <2>4 DEF ResetPassword
    <3>2. TablesOK'
      BY <1>1, <2>2, <3>1 DEF TablesOK
    <3> QED
      BY <2>2, <3>1, <3>2, AnswerKept
  <2> QED
    BY <2>3, <2>4
<1> QED
  BY <1>3, <1>4

\* What is claimed is kept when it is kept of the requests that go on.
LEMMA FadedClaims ==
  ASSUME \A r \in Requests : Fades(r),
         \A r \in Requests : \A q :
            /\ q = req[r] /\ req'[r] = req[r] /\ q.pc \in {"tx write", "unlink", "withdraw"}
            => Claim(q)'
  PROVE  ClaimsHold'
<1>1. ASSUME NEW r \in Requests PROVE Claim(req[r])'
  <2>1. CASE req'[r].pc \notin {"tx write", "unlink", "withdraw"}
    BY <2>1 DEF Claim
  <2>2. CASE req'[r].pc = "tx write" /\ req'[r].doomed
    BY <2>2 DEF Claim
  <2>3. CASE req'[r] = req[r] /\ req'[r].pc \in {"tx write", "unlink", "withdraw"}
    <3>1. ASSUME NEW q, q = req'[r] PROVE Claim(q)'
      BY <2>3, <3>1
    <3> QED
      BY <3>1 DEF Claim, TakesFrom, OtherWay
  <2> QED
    BY <2>1, <2>2, <2>3 DEF Fades
<1> QED
  BY <1>1 DEF ClaimsHold

\* A role or a suspension is written by a transaction that is not doomed: if it takes
\* an active administrator away, another one is left, and every other transaction that
\* counted is doomed.
LEMMA TxWriteKept == ASSUME AccountInv, NEW r \in Requests, TxWrite(r) PROVE AccountInv'
<1> DEFINE t   == req[r].user
           row == Updated(users[t], r)
           D   == {q \in Requests : At(q, "tx write") /\
                      (req[q].user = req[r].user \/ (req[q].counted /\ req[r].counted))}
<1>1. /\ TypeInv /\ TablesOK /\ users \in [Users -> User] /\ t \in Users /\ req[r] \in Request
      /\ Claim(req[r]) /\ req[r].pc = "tx write"
      /\ UNCHANGED <<scene, links, space, plans, cookie, batch, history>>
  BY DEF AccountInv, TypeInv, TablesOK, RequestsOK, RequestOK, ClaimsHold, TxWrite, At, Searching
<1>2. CASE req[r].doomed
  <2>1. Answer(r) /\ UNCHANGED users
    BY <1>2 DEF TxWrite
  <2>2. TablesOK'
    BY <1>1, <2>1 DEF TablesOK, history
  <2> QED
    BY <1>1, <2>1, <2>2, AnswerKept DEF history
<1>3. CASE ~req[r].doomed
  <2>1. users' = [users EXCEPT ![t] = row]
    BY <1>3 DEF TxWrite
  <2>2. req' = [q \in Requests |-> IF q = r THEN Idle
                                   ELSE IF q \in D THEN [req[q] EXCEPT !.doomed = TRUE] ELSE req[q]]
    BY <1>3 DEF TxWrite
  <2>3. \A q \in D : At(q, "tx write")
    OBVIOUS
  <2>4. \A q \in Requests : At(q, "tx write") /\ q \notin D =>
          req[q].user # t /\ ~(req[q].counted /\ req[r].counted)
    OBVIOUS
  <2> HIDE DEF D
  <2>5. /\ RequestsOK' /\ (\A q \in Requests : Fades(q)) /\ req'[r] = Idle
        /\ \A q \in D \cap Requests : q # r => req'[q].pc = "tx write" /\ req'[q].doomed
    BY <1>1, <2>2, <2>3, DoomingReqs
  <2>6. /\ row \in User /\ row.exists = users[t].exists /\ row.withdrawn = users[t].withdrawn
        /\ row.old = users[t].old /\ row.password = users[t].password /\ row.email = users[t].email
        /\ row.ids = users[t].ids
        /\ row.admin = IF req[r].op = "role" THEN req[r].value ELSE users[t].admin
        /\ row.suspended = IF req[r].op = "role" THEN users[t].suspended ELSE req[r].value
    <3>1. users[t] \in User /\ req[r].value \in BOOLEAN
      BY <1>1 DEF Request
    <3> QED
      BY <3>1 DEF Updated, User
  <2> HIDE DEF row
  <2>7. \A u \in Users : users'[u] = IF u = t THEN row ELSE users[u]
    BY <1>1, <2>1
  <2>8. TypeInv'
    BY <1>1, <2>1, <2>5, <2>6 DEF TypeInv, TablesOK, history
  <2>9. \A u \in Users : /\ users'[u].exists = users[u].exists /\ users'[u].withdrawn = users[u].withdrawn
                         /\ users'[u].old = users[u].old /\ users'[u].password = users[u].password
                         /\ users'[u].email = users[u].email /\ users'[u].ids = users[u].ids
    BY <2>6, <2>7
  <2>10. /\ (TakesFrom(req[r]) \/ ActiveAdmins \subseteq ActiveAdmins')
         /\ AdminsRemain'
         /\ TakesFrom(req[r]) => req[r].counted
    <3>1. CASE TakesFrom(req[r])
      <4>1. req[r].counted /\ (~adminLeft => ActiveAdmins \ {t} # {})
        BY <1>1, <1>3, <3>1 DEF Claim
      <4>2. ActiveAdmins \ {t} \subseteq ActiveAdmins'
        BY <2>7 DEF ActiveAdmins
      <4> QED
        BY <1>1, <3>1, <4>1, <4>2 DEF AdminsRemain, history
    <3>2. CASE ~TakesFrom(req[r])
      <4>1. ActiveAdmin(users[t]) => ActiveAdmin(row)
        BY <2>6, <3>2 DEF ActiveAdmin, TakesFrom
      <4>2. ActiveAdmins \subseteq ActiveAdmins'
        BY <2>7, <4>1 DEF ActiveAdmins
      <4> QED
        BY <1>1, <3>2, <4>2 DEF AdminsRemain, history, AccountInv
    <3> QED
      BY <3>1, <3>2
  <2>11. ASSUME NEW q, Claim(q), q.pc \in {"tx write", "unlink", "withdraw"}, q.user \in Users,
                q.pc = "tx write" /\ ~q.doomed => q.user # t /\ ~(q.counted /\ req[r].counted)
         PROVE  Claim(q)'
    <3>1. CASE q.pc = "tx write" /\ ~q.doomed
      <4>1. users'[q.user] = users[q.user]
        BY <2>7, <2>11, <3>1
      <4>2. TakesFrom(q)' => q.counted
        BY <2>11, <3>1, <4>1 DEF Claim, TakesFrom
      <4>3. q.counted /\ ~adminLeft' => ActiveAdmins' \ {q.user} # {}
        BY <1>1, <2>10, <2>11, <3>1 DEF Claim, history
      <4> QED
        BY <3>1, <4>2, <4>3 DEF Claim
    <3>2. CASE q.pc = "tx write" /\ q.doomed
      BY <3>2 DEF Claim
    <3>3. CASE q.pc # "tx write"
      BY <1>1, <2>9, <2>11, <3>3 DEF Claim, OtherWay, history
    <3> QED
      BY <3>1, <3>2, <3>3
  <2>12. ASSUME NEW x \in Requests, NEW q, q = req[x], req'[x] = req[x],
                q.pc \in {"tx write", "unlink", "withdraw"}
         PROVE  Claim(q)'
    <3>1. x # r
      <4>1. Idle.pc = "idle"
        BY DEF Idle
      <4> QED
        BY <2>5, <2>12, <4>1
    <3>2. /\ Claim(req[x]) /\ req[x].user \in Users
          /\ req[x].pc = "tx write" /\ ~req[x].doomed => req[x].user # t /\ ~(req[x].counted /\ req[r].counted)
      BY <1>1, <2>4, <2>5, <2>12, <3>1
        DEF AccountInv, ClaimsHold, TypeInv, RequestsOK, RequestOK, Searching, At
    <3> QED
      BY <2>11, <2>12, <3>2
  <2>13. ClaimsHold'
    BY <2>5, <2>12, FadedClaims
  <2>14. (ExpiredLeft /\ BatchExpired /\ EmailsUnique /\ LoginMethodKept)'
    <3>1. batch \subseteq Users /\ batch' = batch /\ overlapped' = overlapped
      BY <1>1 DEF TablesOK, history
    <3>2. (ExpiredLeft /\ BatchExpired)'
      BY <2>9, <3>1 DEF AccountInv, ExpiredLeft, BatchExpired
    <3>3. EmailsUnique'
      BY <2>9 DEF AccountInv, EmailsUnique
    <3>4. LoginMethodKept'
      BY <2>9, <3>1 DEF AccountInv, LoginMethodKept, Stranded
    <3> QED
      BY <3>2, <3>3, <3>4
  <2> QED
    BY <2>8, <2>10, <2>13, <2>14 DEF AccountInv
<1> QED
  BY <1>2, <1>3

\* The row of t becomes another one, which takes no active administrator away without
\* a withdrawal, and of which what the requests that go on have checked is still true.
LEMMA StandingKept ==
  ASSUME AccountInv, TablesOK', RequestsOK', NEW t \in Users, NEW row \in User,
         users' = [users EXCEPT ![t] = row], UNCHANGED <<scene, overlapped>>,
         batch' \subseteq batch, t \in batch' => row.old,
         row.old => row.withdrawn, row.withdrawn => row.exists,
         adminLeft => adminLeft', ActiveAdmin(users[t]) => ActiveAdmin(row) \/ adminLeft',
         row.email = users[t].email \/ row.email = None \/ WithEmail(row.email) = {},
         row.exists => row.password \/ row.ids # {} \/ t \in overlapped,
         \A r \in Requests : Fades(r),
         \A r \in Requests : req'[r] = req[r] /\ req[r].user = t =>
            /\ req[r].pc = "tx write" => \/ req[r].doomed \/ ~row.admin
                                         \/ row.admin = users[t].admin /\ row.suspended = users[t].suspended
            /\ req[r].pc = "unlink" => row.exists = users[t].exists /\ row.password = users[t].password
                                         /\ row.ids = users[t].ids
            /\ req[r].pc \in {"unlink", "withdraw"} => ~row.old
  PROVE  AccountInv'
<1>1. TablesOK /\ users \in [Users -> User] /\ \A u \in Users : users'[u] = IF u = t THEN row ELSE users[u]
  BY DEF AccountInv, TypeInv, TablesOK
<1>2. batch \subseteq Users /\ batch' \subseteq Users
  BY <1>1 DEF TablesOK
<1>3. ActiveAdmins \subseteq ActiveAdmins' \/ adminLeft'
  BY <1>1 DEF ActiveAdmins
<1>4. AdminsRemain'
  BY <1>3 DEF AccountInv, AdminsRemain
<1>5. ClaimsHold'
  <2>1. ASSUME NEW q, Claim(q), q.pc \in {"tx write", "unlink", "withdraw"}, q.user \in Users,
               q.user = t =>
                 /\ q.pc = "tx write" => \/ q.doomed \/ ~row.admin
                                         \/ row.admin = users[t].admin /\ row.suspended = users[t].suspended
                 /\ q.pc = "unlink" => row.exists = users[t].exists /\ row.password = users[t].password
                                         /\ row.ids = users[t].ids
                 /\ q.pc \in {"unlink", "withdraw"} => ~row.old
        PROVE  Claim(q)'
    <3>1. CASE q.pc = "tx write"
      <4>1. TakesFrom(q)' => TakesFrom(q) \/ q.doomed
        BY <1>1, <2>1, <3>1 DEF TakesFrom
      <4>2. ~q.doomed /\ q.counted /\ ~adminLeft' => ActiveAdmins' \ {q.user} # {}
        BY <1>3, <2>1, <3>1 DEF Claim
      <4> QED
        BY <2>1, <3>1, <4>1, <4>2 DEF Claim
    <3>2. CASE q.pc # "tx write"
      BY <1>1, <2>1, <3>2 DEF Claim, OtherWay
    <3> QED
      BY <3>1, <3>2
  <2>2. ASSUME NEW r \in Requests, NEW q, q = req[r], req'[r] = req[r],
               q.pc \in {"tx write", "unlink", "withdraw"}
        PROVE  Claim(q)'
    <3>1. Claim(req[r]) /\ (req[r].pc \in {"tx write", "unlink", "withdraw"} => req[r].user \in Users)
      BY DEF AccountInv, ClaimsHold, TypeInv, RequestsOK, RequestOK, Searching
    <3> QED
      BY <2>1, <2>2, <3>1
  <2> QED
    BY <2>2, FadedClaims
<1>6. (ExpiredLeft /\ BatchExpired)'
  BY <1>1, <1>2 DEF AccountInv, ExpiredLeft, BatchExpired
<1>7. EmailsUnique'
  <2>1. \A u, v \in Users : users[u].email = users[v].email => u = v \/ users[u].email = None
    BY DEF AccountInv, EmailsUnique
  <2>2. \A u \in Users : row.email # None /\ users[u].email = row.email => u = t
    BY <2>1 DEF WithEmail
  <2>3. \A u, v \in Users : users'[u].email = users'[v].email => u = v \/ users'[u].email = None
    BY <1>1, <2>1, <2>2
  <2> QED
    BY <2>3 DEF EmailsUnique
<1>8. LoginMethodKept'
  BY <1>1 DEF AccountInv, LoginMethodKept, Stranded
<1> QED
  BY <1>4, <1>5, <1>6, <1>7, <1>8 DEF AccountInv, TypeInv

\* An account withdraws.
LEMMA WithdrawMarkKept == ASSUME AccountInv, NEW r \in Requests, WithdrawMark(r) PROVE AccountInv'
<1> DEFINE u   == req[r].user
           gone == users[u].exists
           row == [users[u] EXCEPT !.withdrawn = gone, !.old = FALSE]
<1>1. /\ TypeInv /\ TablesOK /\ users \in [Users -> User] /\ u \in Users /\ ~users[u].old
      /\ users' = [users EXCEPT ![u] = row] /\ Written(r, u)
      /\ adminLeft' = (adminLeft \/ u \in ActiveAdmins)
      /\ UNCHANGED <<scene, links, space, plans, cookie, batch, overlapped, again>>
  <2>1. TypeInv /\ TablesOK /\ RequestOK(req[r]) /\ Claim(req[r]) /\ req[r].pc = "withdraw"
    BY DEF AccountInv, TypeInv, RequestsOK, ClaimsHold, WithdrawMark, At
  <2>2. u \in Users /\ users \in [Users -> User]
    BY <2>1 DEF RequestOK, Searching, TablesOK
  <2>3. users' = [users EXCEPT ![u] = row]
    BY <2>2 DEF WithdrawMark, Target, User
  <2>4. ~users[u].old
    BY <2>1 DEF Claim
  <2> QED
    BY <2>1, <2>2, <2>3, <2>4 DEF WithdrawMark
<1>2. /\ row \in User /\ row.exists = users[u].exists /\ row.withdrawn = users[u].exists /\ ~row.old
      /\ row.admin = users[u].admin /\ row.suspended = users[u].suspended
      /\ row.email = users[u].email /\ row.password = users[u].password /\ row.ids = users[u].ids
  <2>1. users[u] \in User /\ gone \in BOOLEAN /\ gone = users[u].exists
    BY <1>1 DEF User
  <2> HIDE DEF u, gone
  <2> QED
    BY <2>1 DEF User
<1> HIDE DEF row
<1>3. /\ RequestsOK' /\ \A q \in Requests : Fades(q)
      /\ \A q \in Requests : At(q, "tx write") /\ req[q].user = u /\ q # r
                               => req'[q].pc = "tx write" /\ req'[q].doomed
  BY <1>1, WrittenReqs
<1>4. TablesOK'
  BY <1>1, <1>2 DEF TablesOK
<1>5. adminLeft => adminLeft'
  BY <1>1
<1>6. ActiveAdmin(users[u]) => adminLeft'
  BY <1>1 DEF ActiveAdmins
<1>7. u \notin batch'
  BY <1>1 DEF AccountInv, BatchExpired
<1>8. row.exists => row.password \/ row.ids # {} \/ u \in overlapped
  BY <1>1, <1>2 DEF AccountInv, LoginMethodKept, Stranded
<1> HIDE DEF u
<1> QED
  BY ZenonT(30), <1>1, <1>2, <1>3, <1>4, <1>5, <1>6, <1>7, <1>8, StandingKept

\* The 30 days of an account are over, and no request of it is on the way.
LEMMA ThirtyDaysKept == ASSUME AccountInv, NEW u \in Users, ThirtyDays(u) PROVE AccountInv'
<1> DEFINE row == [users[u] EXCEPT !.old = TRUE]
<1>1. /\ TypeInv /\ TablesOK /\ users \in [Users -> User] /\ users' = [users EXCEPT ![u] = row]
      /\ UNCHANGED <<scene, links, space, plans, cookie, batch, req, history>>
      /\ users[u].withdrawn /\ users[u].exists
  BY DEF ThirtyDays, AccountInv, TypeInv, TablesOK, ExpiredLeft
<1>2. /\ row \in User /\ row.exists = users[u].exists /\ row.withdrawn = users[u].withdrawn /\ row.old
      /\ row.admin = users[u].admin /\ row.suspended = users[u].suspended
      /\ row.email = users[u].email /\ row.password = users[u].password /\ row.ids = users[u].ids
  BY <1>1 DEF User
<1> HIDE DEF row
<1>3. RequestsOK' /\ \A q \in Requests : Fades(q)
  BY <1>1 DEF TypeInv, RequestsOK, RequestOK, Fades
<1>4. TablesOK' /\ UNCHANGED <<overlapped, adminLeft>>
  BY <1>1, <1>2 DEF TablesOK, history
<1>5. ~ActiveAdmin(users[u])
  BY <1>1 DEF ActiveAdmin
<1>6. \A r \in Requests : req[r].user = u => req[r].pc \notin {"unlink", "withdraw"}
  BY DEF ThirtyDays, At, AccountInv, TypeInv, RequestsOK, RequestOK
<1>7. row.exists => row.password \/ row.ids # {} \/ u \in overlapped
  BY <1>1, <1>2 DEF AccountInv, LoginMethodKept, Stranded
<1> QED
  BY <1>1, <1>2, <1>3, <1>4, <1>5, <1>6, <1>7, StandingKept

\* An account is removed with what refers to it; its 30 days are over.
LEMMA CleanupRemoveKept == ASSUME AccountInv, NEW u \in Users, CleanupRemove(u) PROVE AccountInv'
<1>1. /\ TypeInv /\ TablesOK /\ users \in [Users -> User] /\ users' = [users EXCEPT ![u] = Gone]
      /\ UNCHANGED <<scene, cookie, req, history>>
      /\ batch' = batch \ {u} /\ users[u].old /\ users[u].withdrawn
  BY DEF CleanupRemove, AccountInv, TypeInv, TablesOK, ExpiredLeft, BatchExpired
<1>2. /\ Gone \in User /\ ~Gone.exists /\ ~Gone.withdrawn /\ ~Gone.old /\ ~Gone.admin /\ Gone.email = None
  BY DEF Gone, User
<1>3. RequestsOK' /\ \A q \in Requests : Fades(q)
  BY <1>1 DEF TypeInv, RequestsOK, RequestOK, Fades
<1>4. NoLink \in LinkRow
  BY DEF NoLink, LinkRow
<1>5. links' \in [Links -> LinkRow]
  BY <1>1, <1>4 DEF CleanupRemove, TablesOK
<1>6. plans' \in [Plans -> [user : Users \cup {None}, shared : BOOLEAN]]
  <2> DEFINE row(p) == [user |-> IF plans[p].user = u THEN None ELSE plans[p].user,
                        shared |-> plans[p].shared /\ u \notin {plans[p].user, space.owner}]
  <2>1. plans' = [p \in Plans |-> row(p)]
    BY DEF CleanupRemove
  <2>2. ASSUME NEW p \in Plans PROVE row(p) \in [user : Users \cup {None}, shared : BOOLEAN]
    <3>1. plans[p].user \in Users \cup {None} /\ plans[p].shared \in BOOLEAN
      BY <1>1 DEF TablesOK
    <3>2. (plans[p].shared /\ u \notin {plans[p].user, space.owner}) \in BOOLEAN
      OBVIOUS
    <3> QED
      BY <3>1, <3>2
  <2> HIDE DEF row
  <2> QED
    BY <2>1, <2>2
<1>7. space' \in [owner : Users \cup {None}, members : SUBSET Users]
  BY <1>1 DEF CleanupRemove, TablesOK
<1>8. TablesOK' /\ UNCHANGED <<overlapped, adminLeft>> /\ batch' \subseteq batch /\ u \notin batch'
  BY <1>1, <1>2, <1>5, <1>6, <1>7 DEF TablesOK, history
<1>9. ~ActiveAdmin(users[u])
  BY <1>1 DEF ActiveAdmin
<1>10. \A r \in Requests : req[r].user = u => req[r].pc \notin {"unlink", "withdraw"}
  BY <1>1 DEF AccountInv, ClaimsHold, Claim
<1>11. \A r \in Requests : req'[r] = req[r] /\ req[r].user = u =>
            /\ req[r].pc = "tx write" => \/ req[r].doomed \/ ~Gone.admin
                                         \/ Gone.admin = users[u].admin /\ Gone.suspended = users[u].suspended
            /\ req[r].pc = "unlink" => Gone.exists = users[u].exists /\ Gone.password = users[u].password
                                         /\ Gone.ids = users[u].ids
            /\ req[r].pc \in {"unlink", "withdraw"} => ~Gone.old
  BY <1>2, <1>10
<1>12. users' = [users EXCEPT ![u] = Gone] /\ UNCHANGED scene
  BY <1>1
<1> QED
  BY <1>2, <1>3, <1>8, <1>9, <1>11, <1>12, StandingKept

\* An account is made for a person of a provider.
LEMMA CreateKept == ASSUME AccountInv, NEW r \in Requests, Create(r) PROVE AccountInv'
<1>1. /\ TypeInv /\ TablesOK /\ users \in [Users -> User] /\ req[r].id \in Identities /\ Answer(r)
      /\ UNCHANGED <<scene, links, space, plans, cookie, batch, history>>
  BY DEF AccountInv, TypeInv, TablesOK, RequestsOK, RequestOK, Create, At, Proving
<1>2. CASE users' = users
  <2>1. TablesOK' /\ UNCHANGED <<overlapped, adminLeft>>
    BY <1>1, <1>2 DEF TablesOK, history
  <2> QED
    BY <1>1, <1>2, <2>1, AnswerKept
<1>3. CASE users' # users
  <2> DEFINE i   == req[r].id
             row == [Gone EXCEPT !.exists = TRUE, !.email = i.email, !.ids = {i}]
  <2>1. PICK u \in Users : ~users[u].exists /\ users' = [users EXCEPT ![u] = row]
    BY <1>3 DEF Create
  <2>2. WithEmail(i.email) = {}
    BY <1>3 DEF Create
  <2>3. i \in Identities /\ i.email \in Emails \cup {None}
    BY <1>1
  <2>4. /\ row \in User /\ row.exists /\ ~row.withdrawn /\ ~row.old /\ ~row.admin
        /\ row.email = i.email /\ row.ids = {i}
    <3> HIDE DEF i
    <3> QED
      BY <2>3 DEF Gone, User
  <2> HIDE DEF row, i
  <2>5. RequestsOK' /\ \A q \in Requests : Fades(q)
    <3>1. Becomes(r, Idle) /\ Idle.pc = "idle"
      BY <1>1, IdleOK DEF Becomes, Answer, Idle
    <3>2. RequestsOK' /\ \A q \in Requests : req'[q] = IF q = r THEN Idle ELSE req[q]
      BY <1>1, <3>1, BecomesReqs
    <3> QED
      BY <3>1, <3>2 DEF Fades
  <2>6. TablesOK' /\ UNCHANGED <<overlapped, adminLeft>> /\ users[u].old = FALSE
    BY <1>1, <2>1, <2>4 DEF TablesOK, history, AccountInv, ExpiredLeft, User
  <2>7. ~ActiveAdmin(users[u])
    BY <2>1 DEF ActiveAdmin
  <2>8. u \notin batch'
    BY <1>1, <2>6 DEF AccountInv, BatchExpired
  <2>9. \A q \in Requests : req[q].user = u => req[q].pc # "unlink"
    BY <2>1 DEF AccountInv, ClaimsHold, Claim
  <2>10. \A q \in Requests : req'[q] = req[q] /\ req[q].user = u =>
            /\ req[q].pc = "tx write" => \/ req[q].doomed \/ ~row.admin
                                         \/ row.admin = users[u].admin /\ row.suspended = users[u].suspended
            /\ req[q].pc = "unlink" => row.exists = users[u].exists /\ row.password = users[u].password
                                         /\ row.ids = users[u].ids
            /\ req[q].pc \in {"unlink", "withdraw"} => ~row.old
    BY <2>4, <2>9
  <2>11. row.email = users[u].email \/ row.email = None \/ WithEmail(row.email) = {}
    BY <2>2, <2>4
  <2>12. row.exists => row.password \/ row.ids # {} \/ u \in overlapped
    BY <2>4
  <2>13. UNCHANGED scene /\ batch' \subseteq batch
    BY <1>1
  <2> QED
    BY <2>1, <2>4, <2>5, <2>6, <2>7, <2>8, <2>10, <2>11, <2>12, <2>13, StandingKept
<1> QED
  BY <1>2, <1>3

-----------------------------------------------------------------------------
(* The invariant *)

\* The steps of nobody's that leave the accounts alone.
LEMMA OtherStepsKept ==
  ASSUME AccountInv,
         \/ CleanupFind \/ CookieExpire \/ \E l \in Links : LinkExpire(l)
         \/ \E u \in Users : CleanupFail(u) \/ \E i \in Identities : LinkStart(u, i.provider)
  PROVE  AccountInv'
<1>1. TablesOK /\ batch \subseteq {u \in Users : users[u].old}
  BY DEF AccountInv, TypeInv, TablesOK, BatchExpired
<1>2. CASE CleanupFind \/ CookieExpire
  <2>1. TablesOK' /\ batch' \subseteq {u \in Users : users[u].old} /\ UNCHANGED <<scene, users, req, history>>
    BY <1>1, <1>2 DEF CleanupFind, CookieExpire, TablesOK, rows, history
  <2> QED
    BY <2>1, AsideKept
<1>3. ASSUME NEW l \in Links, LinkExpire(l) PROVE AccountInv'
  <2>1. links' \in [Links -> LinkRow]
    <3> DEFINE row == [links[l] EXCEPT !.used = TRUE]
    <3>1. links[l] \in LinkRow /\ links \in [Links -> LinkRow]
      BY <1>1, <1>3 DEF TablesOK
    <3>2. row \in LinkRow
      BY <3>1 DEF LinkRow
    <3>3. links' = [links EXCEPT ![l] = row]
      BY <1>3 DEF LinkExpire
    <3> HIDE DEF row
    <3> QED
      BY <3>1, <3>2, <3>3
  <2>2. TablesOK' /\ batch' \subseteq {u \in Users : users[u].old} /\ UNCHANGED <<scene, users, req, history>>
    BY <1>1, <1>3, <2>1 DEF LinkExpire, TablesOK, history
  <2> QED
    BY <2>2, AsideKept
<1>4. ASSUME NEW u \in Users, CleanupFail(u) PROVE AccountInv'
  <2>1. TablesOK' /\ batch' \subseteq {v \in Users : users[v].old} /\ UNCHANGED <<scene, users, req, history>>
    BY <1>1, <1>4 DEF CleanupFail, TablesOK, rows, history
  <2> QED
    BY <2>1, AsideKept
<1>5. ASSUME NEW u \in Users, NEW i \in Identities, LinkStart(u, i.provider) PROVE AccountInv'
  <2>1. cookie'.user \in Users
    BY <1>5 DEF LinkStart, LinkToken
  <2>2. TablesOK' /\ batch' \subseteq {v \in Users : users[v].old} /\ UNCHANGED <<scene, users, req, history>>
    BY <1>1, <1>5, <2>1 DEF LinkStart, TablesOK, rows, history
  <2> QED
    BY <2>2, AsideKept
<1> QED
  BY <1>2, <1>3, <1>4, <1>5

LEMMA AccountStart == ASSUME Init PROVE AccountInv
<1>1. /\ scene \in Scenes /\ scene \in Scene /\ users = scene.users /\ users \in [Users -> User]
      /\ space = scene.space /\ plans = scene.plans
      /\ space \in [owner : Users \cup {None}, members : SUBSET Users]
      /\ plans \in [Plans -> [user : Users \cup {None}, shared : BOOLEAN]]
  BY DEF Init, Scene
<1>2. links \in [Links -> LinkRow] /\ again \in [Links -> Nat]
  BY DEF Init, NoLink, LinkRow
<1>3. TablesOK
  BY <1>1, <1>2 DEF Init, TablesOK
<1>4. RequestsOK /\ ClaimsHold
  BY IdleOK DEF Init, RequestsOK, ClaimsHold, RequestOK
<1>5. ExpiredLeft /\ BatchExpired /\ EmailsUnique
  BY <1>1 DEF Init, ExpiredLeft, BatchExpired, EmailsUnique
<1>6. AdminsRemain
  BY <1>1 DEF AdminsRemain, ActiveAdmins
<1>7. LoginMethodKept
  BY <1>1 DEF LoginMethodKept, Stranded
<1> QED
  BY <1>3, <1>4, <1>5, <1>6, <1>7 DEF AccountInv, TypeInv

LEMMA AccountStep == ASSUME AccountInv, [Next]_vars PROVE AccountInv'
<1>1. CASE UNCHANGED vars
  <2>1. /\ TablesOK' /\ batch' \subseteq {u \in Users : users[u].old}
        /\ UNCHANGED <<scene, users, req, history>>
    BY <1>1 DEF vars, rows, history, AccountInv, TypeInv, TablesOK, BatchExpired
  <2> QED
    BY <2>1, AsideKept
<1>2. ASSUME NEW r \in Requests, Arrive(r) PROVE AccountInv'
  <2>1. CASE \E u, t \in Users, op \in {"role", "suspend"}, value \in BOOLEAN : Manage(r, u, op, t, value)
    BY <2>1, ManageKept
  <2>2. CASE \E u \in Users : Withdraw(r, u)
    BY <2>2, ManageKept
  <2>3. CASE \E u \in Users : Forgot(r, u)
    BY <2>3, LinkRequestsKept
  <2>4. CASE \E i \in Identities : \/ LinkBack(r, i) \/ SignIn(r, i) \/ SignUp(r, i)
                                  \/ \E u \in Users : i \in users[u].ids /\ Unlink(r, u, i)
    BY <2>4, SignInKept
  <2>5. CASE \E l \in Links : Reset(r, l)
    BY <2>5, LinkRequestsKept
  <2> QED
    BY <1>2, <2>1, <2>2, <2>3, <2>4, <2>5 DEF Arrive
<1>3. ASSUME NEW r \in Requests, Proceed(r) PROVE AccountInv'
  <2>1. CASE TxRead(r) \/ ByEmail(r) \/ Fail(r)
    BY <2>1, ReadKept
  <2>2. CASE TxWrite(r)
    BY <2>2, TxWriteKept
  <2>3. CASE WithdrawMark(r)
    BY <2>3, WithdrawMarkKept
  <2>4. CASE LinkWrite(r) \/ AutoLink(r)
    BY <2>4, AttachKept
  <2>5. CASE UnlinkWrite(r)
    BY <2>5, UnlinkKept
  <2>6. CASE Create(r)
    BY <2>6, CreateKept
  <2>7. CASE ForgotMail(r) \/ ForgotUndo(r) \/ ResetMark(r)
    BY <2>7, LinkRequestsKept
  <2>8. CASE ResetPassword(r)
    BY <2>8, PasswordKept
  <2> QED
    BY <1>3, <2>1, <2>2, <2>3, <2>4, <2>5, <2>6, <2>7, <2>8 DEF Proceed
<1>4. ASSUME NEW u \in Users,
             \/ ThirtyDays(u) \/ CleanupRemove(u) \/ CleanupFail(u)
             \/ SetPassword(u) \/ (\E e \in Emails : SetEmail(u, e))
             \/ \E i \in Identities : LinkStart(u, i.provider)
      PROVE  AccountInv'
  BY <1>4, ThirtyDaysKept, CleanupRemoveKept, PasswordKept, OtherStepsKept
<1>5. CASE CleanupFind \/ CookieExpire \/ \E l \in Links : LinkExpire(l)
  BY <1>5, OtherStepsKept
<1> QED
  BY <1>1, <1>2, <1>3, <1>4, <1>5 DEF Next

LEMMA AccountAlways == Spec => []AccountInv
<1>1. Init => AccountInv
  BY AccountStart
<1>2. AccountInv /\ [Next]_vars => AccountInv'
  BY AccountStep
<1> QED
  BY <1>1, <1>2, PTL DEF Spec

(***************************************************************************)
(* The tables and the requests in flight are of their types.               *)
(***************************************************************************)
THEOREM TypeCorrect == Spec => []TypeInv
<1>1. AccountInv => TypeInv
  BY DEF AccountInv
<1> QED
  BY <1>1, AccountAlways, PTL

(***************************************************************************)
(* However many roles are taken and accounts suspended at a time, and      *)
(* whoever asked for it, an active administrator is left as long as none   *)
(* withdraws (updateUserRole, suspendUser).                                *)
(***************************************************************************)
THEOREM AdminsStay == Spec => []AdminsRemain
<1>1. AccountInv => AdminsRemain
  BY DEF AccountInv
<1> QED
  BY <1>1, AccountAlways, PTL

(***************************************************************************)
(* Only unlinks that overlap leave an account without a way to log in      *)
(* (unlinkOAuth).                                                          *)
(***************************************************************************)
THEOREM LoginsStay == Spec => []LoginMethodKept
<1>1. AccountInv => LoginMethodKept
  BY DEF AccountInv
<1> QED
  BY <1>1, AccountAlways, PTL

-----------------------------------------------------------------------------
(* What a step may never do *)

\* Only the code that looks for the address has a provider attached to the account it
\* found, and only the code that looks for the link sets a password with it.
LEMMA OnlySearchesFind ==
  ASSUME TypeInv, [Next]_vars, NEW x \in Requests, req'[x].pc \in {"reset", "auto link"}
  PROVE  req'[x] = req[x] \/ ByEmail(x) \/ \E l \in Links : Reset(x, l)
<1>1. req \in [Requests -> Request] /\ \A r \in Requests : req[r] \in Request
  BY DEF TypeInv, RequestsOK
<1>2. ASSUME NEW r \in Requests, NEW q, req' = [req EXCEPT ![r] = q], q.pc \notin {"reset", "auto link"}
      PROVE  req'[x] = req[x]
  BY <1>1, <1>2
<1>3. Idle.pc = "idle" /\ Idle \in Request
  BY IdleOK DEF RequestOK, Idle
<1>4. ASSUME NEW r \in Requests, Answer(r) PROVE req'[x] = req[x]
  BY <1>2, <1>3, <1>4 DEF Answer
<1>5. ASSUME NEW r \in Requests, NEW pc \in {"create", "unmade", "mark"}, Goto(r, pc) PROVE req'[x] = req[x]
  BY <1>1, <1>5 DEF Goto, Request
<1>6. ASSUME NEW r \in Requests, NEW u, Written(r, u) PROVE req'[x] = req[x]
  <2>1. req'[x] = IF x = r THEN Idle
                  ELSE IF At(x, "tx write") /\ req[x].user = u THEN [req[x] EXCEPT !.doomed = TRUE] ELSE req[x]
    BY <1>6 DEF Written
  <2>2. req[x] \in Request
    BY <1>1
  <2> QED
    BY <1>3, <2>1, <2>2 DEF At, Request
<1>7. ASSUME NEW r \in Requests, Arrive(r) PROVE req'[x] = req[x] \/ \E l \in Links : Reset(x, l)
  <2>1. ASSUME NEW u \in Users, Withdraw(r, u) PROVE req'[x] = req[x]
    <3>1. [Idle EXCEPT !.pc = "withdraw", !.user = u].pc = "withdraw"
      BY <1>3 DEF Request
    <3> QED
      BY <1>2, <2>1, <3>1 DEF Withdraw, Begin
  <2>2. ASSUME NEW t \in Users, NEW op \in {"role", "suspend"}, NEW value \in BOOLEAN,
               NEW u \in Users, Manage(r, u, op, t, value)
        PROVE  req'[x] = req[x]
    <3>1. [Idle EXCEPT !.pc = "tx read", !.op = op, !.user = t, !.value = value].pc = "tx read"
      BY <1>3 DEF Request
    <3> QED
      BY <1>2, <2>2, <3>1 DEF Manage, Begin
  <2>3. ASSUME NEW u \in Users, Forgot(r, u) PROVE req'[x] = req[x]
    <3>1. \A l \in Links : [Idle EXCEPT !.pc = "mail", !.user = u, !.link = l].pc = "mail"
      BY <1>3 DEF Request
    <3> QED
      BY <1>2, <2>3, <3>1 DEF Forgot, Begin
  <2>4. ASSUME NEW i \in Identities, LinkBack(r, i) PROVE req'[x] = req[x]
    <3>1. [Idle EXCEPT !.pc = "link", !.user = cookie.user, !.id = i].pc = "link"
      BY <1>3 DEF Request
    <3> QED
      BY <1>2, <2>4, <3>1 DEF LinkBack, Begin
  <2>5. ASSUME NEW i \in Identities, SignIn(r, i) \/ SignUp(r, i) PROVE req'[x] = req[x]
    <3>1. \A op : [Idle EXCEPT !.pc = "by email", !.op = op, !.id = i].pc = "by email"
      BY <1>3 DEF Request
    <3> QED
      BY <1>2, <2>5, <3>1 DEF SignIn, SignUp, SearchFor, Begin
  <2>6. ASSUME NEW u \in Users, NEW i \in Identities, Unlink(r, u, i) PROVE req'[x] = req[x]
    <3>1. [Idle EXCEPT !.pc = "unlink", !.user = u, !.id = i].pc = "unlink"
      BY <1>3 DEF Request
    <3> QED
      BY <1>2, <2>6, <3>1 DEF Unlink, Begin
  <2>7. ASSUME NEW l \in Links, Reset(r, l) PROVE req'[x] = req[x] \/ Reset(x, l)
    BY <1>1, <2>7 DEF Reset, Begin
  <2> QED
    BY <1>7, <2>1, <2>2, <2>3, <2>4, <2>5, <2>6, <2>7 DEF Arrive
<1>8. ASSUME NEW r \in Requests, Proceed(r) PROVE req'[x] = req[x] \/ ByEmail(x)
  <2>1. CASE TxRead(r)
    <3>1. CASE Answer(r)
      BY <1>4, <3>1
    <3>2. CASE ~Answer(r)
      <4>1. req' = [req EXCEPT ![r].pc = "tx write", ![r].counted = TakesAdmin(r)]
        BY <2>1, <3>2 DEF TxRead
      <4> DEFINE takes == TakesAdmin(r)
                 q     == [req[r] EXCEPT !.pc = "tx write", !.counted = takes]
      <4>2. req' = [req EXCEPT ![r] = q]
        BY <1>1, <4>1
      <4> HIDE DEF takes
      <4>3. q.pc = "tx write"
        BY <1>1 DEF Request
      <4> HIDE DEF q
      <4> QED
        BY <1>2, <4>2, <4>3
    <3> QED
      BY <3>1, <3>2
  <2>2. CASE TxWrite(r)
    <3>1. CASE Answer(r)
      BY <1>4, <3>1
    <3>2. CASE ~Answer(r)
      <4>1. \/ req'[x] = Idle \/ req'[x] = req[x]
            \/ At(x, "tx write") /\ req'[x] = [req[x] EXCEPT !.doomed = TRUE]
        BY <2>2, <3>2 DEF TxWrite
      <4>2. req[x] \in Request
        BY <1>1
      <4> QED
        BY <1>3, <4>1, <4>2 DEF At, Request
    <3> QED
      BY <3>1, <3>2
  <2>3. CASE WithdrawMark(r) \/ UnlinkWrite(r)
    BY <1>6, <2>3 DEF WithdrawMark, UnlinkWrite
  <2>4. CASE LinkWrite(r) \/ AutoLink(r)
    BY <1>6, <2>4 DEF LinkWrite, AutoLink, Attach
  <2>5. CASE ByEmail(r)
    <3>1. CASE x # r
      BY <1>1, <2>5, <3>1 DEF ByEmail, Goto, Answer
    <3> QED
      BY <2>5, <3>1
  <2>6. CASE Create(r) \/ Fail(r) \/ ForgotUndo(r) \/ ResetMark(r)
    BY <1>4, <2>6 DEF Create, Fail, ForgotUndo, ResetMark
  <2>7. CASE ForgotMail(r)
    BY <1>4, <1>5, <2>7 DEF ForgotMail
  <2>8. CASE ResetPassword(r)
    BY <1>4, <1>5, <2>8 DEF ResetPassword
  <2> QED
    BY <1>8, <2>1, <2>2, <2>3, <2>4, <2>5, <2>6, <2>7, <2>8 DEF Proceed
<1>9. ASSUME NEW u \in Users,
             \/ ThirtyDays(u) \/ CleanupRemove(u) \/ CleanupFail(u)
             \/ SetPassword(u) \/ (\E e \in Emails : SetEmail(u, e))
             \/ \E i \in Identities : LinkStart(u, i.provider)
      PROVE  req' = req
  BY <1>9 DEF ThirtyDays, CleanupRemove, CleanupFail, SetPassword, SetEmail, LinkStart
<1>10. CASE CleanupFind \/ CookieExpire \/ (\E l \in Links : LinkExpire(l)) \/ UNCHANGED vars
  BY <1>10 DEF CleanupFind, CookieExpire, LinkExpire, vars
<1> QED
  BY <1>7, <1>8, <1>9, <1>10 DEF Next

(***************************************************************************)
(* The account a sign-in attaches its provider to had no password when it  *)
(* was looked for: an address is of one account (findOrLinkOrCreate).      *)
(***************************************************************************)
THEOREM LocalRefused == Spec => LocalAccountsRefused
<1>1. ASSUME AccountInv, [Next]_vars, NEW r \in Requests, At(r, "by email"), req'[r].pc = "auto link"
      PROVE  ~users[req'[r].user].password
  <2>1. TypeInv /\ req \in [Requests -> Request] /\ req[r] \in Request
    BY <1>1 DEF AccountInv, TypeInv, RequestsOK
  <2>2. \A l \in Links : ~Reset(r, l)
    BY <1>1 DEF Reset, Begin, At
  <2>3. ByEmail(r)
    BY <1>1, <2>1, <2>2, OnlySearchesFind DEF At
  <2> DEFINE found == WithEmail(req[r].id.email)
  <2>4. req'[r].pc = "auto link" /\ ~Answer(r) /\ ~Goto(r, "create")
    <3>1. Answer(r) => req'[r].pc = "idle"
      BY <2>1 DEF Answer, Idle
    <3>2. Goto(r, "create") => req'[r].pc = "create"
      <4>1. [req[r] EXCEPT !.pc = "create"].pc = "create"
        BY <2>1 DEF Request
      <4> QED
        BY <2>1, <4>1 DEF Goto
    <3> QED
      BY <1>1, <3>1, <3>2
  <2>5. /\ \E u \in found : ~users[u].password
        /\ \E u \in found : req' = [req EXCEPT ![r].pc = "auto link", ![r].user = u]
    BY <2>3, <2>4 DEF ByEmail
  <2>6. \A u, v \in found : u = v
    BY <1>1 DEF AccountInv, EmailsUnique, WithEmail
  <2>7. PICK u \in found : req' = [req EXCEPT ![r].pc = "auto link", ![r].user = u]
    BY <2>5
  <2>8. req'[r].user = u
    BY <2>1, <2>7 DEF Request
  <2> QED
    BY <2>5, <2>6, <2>8
<1>2. AccountInv /\ [Next]_vars =>
        [\A r \in Requests : At(r, "by email") /\ req'[r].pc = "auto link" => ~users[req'[r].user].password]_vars
  BY <1>1
<1> QED
  BY <1>2, AccountAlways, PTL DEF Spec, LocalAccountsRefused

(***************************************************************************)
(* Only the clean-up takes plans along, and only the ones of the account   *)
(* it removes, whose 30 days are over (user-cleanup.service.ts).           *)
(***************************************************************************)
THEOREM PlansStay == Spec => OnlyTheirPlansGo
<1>1. ASSUME AccountInv, [Next]_vars, NEW p \in Plans, plans[p].user # None, plans'[p].user = None
      PROVE  users[plans[p].user].old
  <2>1. plans' # plans
    BY <1>1
  <2>2. ~(\E r \in Requests : Arrive(r))
    BY ZenonT(30), <2>1 DEF Arrive, Manage, Withdraw, Forgot, LinkBack, SignIn, SignUp, SearchFor, Unlink, Reset, rows
  <2>3. ~(\E r \in Requests : Proceed(r))
    BY <2>1 DEF Proceed, TxRead, TxWrite, WithdrawMark, LinkWrite, AutoLink, Attach, UnlinkWrite, ByEmail, Create,
                ForgotMail, ForgotUndo, ResetPassword, ResetMark, Fail, rows
  <2>4. PICK u \in Users : CleanupRemove(u)
    BY <1>1, <2>1, <2>2, <2>3 DEF Next, vars, rows, ThirtyDays, CleanupFail, SetPassword, SetEmail, LinkStart,
                                  CleanupFind, CookieExpire, LinkExpire
  <2>5. plans'[p].user = IF plans[p].user = u THEN None ELSE plans[p].user
    BY <2>4 DEF CleanupRemove
  <2> QED
    BY <1>1, <2>4, <2>5 DEF CleanupRemove, AccountInv, BatchExpired
<1>2. AccountInv /\ [Next]_vars =>
        [\A p \in Plans : plans[p].user # None /\ plans'[p].user = None => users[plans[p].user].old]_vars
  BY <1>1
<1> QED
  BY <1>2, AccountAlways, PTL DEF Spec, OnlyTheirPlansGo

-----------------------------------------------------------------------------
(* Reset links *)

\* The requests that found a link are finitely many, and fewer when one goes on.
LEMMA OnLinkCounts ==
  ASSUME NEW l \in Links
  PROVE  /\ IsFiniteSet(OnLink(l)) /\ Cardinality(OnLink(l)) \in Nat
         /\ Cardinality(OnLink(l)) <= Cardinality(Requests) /\ Cardinality(Requests) \in Nat
         /\ \A S : S \subseteq OnLink(l) => IsFiniteSet(S) /\ Cardinality(S) <= Cardinality(OnLink(l))
         /\ \A r \in OnLink(l) : Cardinality(OnLink(l) \ {r}) = Cardinality(OnLink(l)) - 1
<1>1. OnLink(l) \subseteq Requests
  BY DEF OnLink
<1>2. /\ IsFiniteSet(OnLink(l)) /\ Cardinality(OnLink(l)) <= Cardinality(Requests)
  BY <1>1, FS_Subset
<1>3. Cardinality(OnLink(l)) \in Nat /\ Cardinality(Requests) \in Nat
  BY <1>2, FS_CardinalityType
<1>4. \A S : S \subseteq OnLink(l) => IsFiniteSet(S) /\ Cardinality(S) <= Cardinality(OnLink(l))
  BY <1>2, FS_Subset
<1>5. \A r \in OnLink(l) : Cardinality(OnLink(l) \ {r}) = Cardinality(OnLink(l)) - 1
  BY <1>2, FS_RemoveElement
<1> QED
  BY <1>2, <1>3, <1>4, <1>5

\* A step that sets no password, finds no link and marks none.
LinkQuiet(l) ==
    /\ again'[l] = again[l] /\ OnLink(l)' \subseteq OnLink(l)
    /\ \/ links'[l].used = links[l].used /\ (links[l] = NoLink => links'[l] = NoLink \/ again[l] = 0)
       \/ links'[l] = NoLink

\* The number of passwords a spent link can still set does not grow in such a step.
LEMMA QuietSpent ==
  ASSUME LinksSpent, NEW l \in Links, LinkQuiet(l), again \in [Links -> Nat]
  PROVE  /\ Spent(l)' => again'[l] + Cardinality(OnLink(l)') <= Cardinality(Requests) - 1
         /\ again'[l] > 0 => links'[l].used \/ links'[l] = NoLink
<1>1. /\ Spent(l) => again[l] + Cardinality(OnLink(l)) <= Cardinality(Requests) - 1
      /\ again[l] > 0 => links[l].used \/ links[l] = NoLink
      /\ again[l] \in Nat /\ again'[l] = again[l]
  BY DEF LinksSpent, LinkQuiet
<1>2. ~NoLink.used
  BY DEF NoLink
<1>3. Spent(l)' => Spent(l)
  BY <1>1, <1>2 DEF Spent, LinkQuiet
<1>4. /\ Cardinality(OnLink(l)') <= Cardinality(OnLink(l)) /\ Cardinality(OnLink(l)) \in Nat
      /\ IsFiniteSet(OnLink(l)') /\ Cardinality(Requests) \in Nat
  BY OnLinkCounts DEF LinkQuiet
<1>5. Cardinality(OnLink(l)') \in Nat
  BY <1>4, FS_CardinalityType
<1>6. Spent(l)' => again'[l] + Cardinality(OnLink(l)') <= Cardinality(Requests) - 1
  BY <1>1, <1>3, <1>4, <1>5
<1>7. again'[l] > 0 => links'[l].used \/ links'[l] = NoLink
  BY <1>1 DEF LinkQuiet
<1> QED
  BY <1>6, <1>7

\* No request that found a link comes to be but by Reset.
LEMMA OnLinkShrinks ==
  ASSUME TypeInv, [Next]_vars, NEW l \in Links, \A x \in Requests : ~Reset(x, l)
  PROVE  OnLink(l)' \subseteq OnLink(l)
<1>1. ASSUME NEW x \in Requests, req'[x].pc = "reset", req'[x].link = l PROVE x \in OnLink(l)
  <2>1. ~ByEmail(x)
    <3>1. ASSUME ByEmail(x) PROVE req'[x].pc # "reset"
      <4>1. req \in [Requests -> Request] /\ req[x] \in Request
        BY DEF TypeInv, RequestsOK
      <4>2. CASE Answer(x)
        BY <4>1, <4>2 DEF Answer, Idle
      <4>3. CASE Goto(x, "create")
        <5>1. [req[x] EXCEPT !.pc = "create"].pc = "create"
          BY <4>1 DEF Request
        <5> QED
          BY <4>1, <4>3, <5>1 DEF Goto
      <4>4. ASSUME NEW u, req' = [req EXCEPT ![x].pc = "auto link", ![x].user = u] PROVE req'[x].pc # "reset"
        <5>1. [req[x] EXCEPT !.pc = "auto link", !.user = u].pc = "auto link"
          BY <4>1 DEF Request
        <5>2. req'[x] = [req[x] EXCEPT !.pc = "auto link", !.user = u]
          BY <4>1, <4>4
        <5> QED
          BY <5>1, <5>2
      <4> QED
        BY <3>1, <4>2, <4>3, <4>4 DEF ByEmail
    <3> QED
      BY <1>1, <3>1
  <2>2. ASSUME NEW k \in Links, Reset(x, k) PROVE FALSE
    <3>1. req'[x] = [Idle EXCEPT !.pc = "reset", !.user = links[k].user, !.link = k]
      BY <2>2 DEF Reset, Begin, TypeInv, RequestsOK
    <3>2. req'[x].link = k
      BY <3>1 DEF Idle
    <3> QED
      BY <1>1, <2>2, <3>2 DEF Reset, NoLink
  <2>3. req'[x] = req[x]
    BY <1>1, <2>1, <2>2, OnlySearchesFind
  <2> QED
    BY <1>1, <2>3 DEF OnLink, At
<1> QED
  BY <1>1 DEF OnLink, At

LEMMA SpentStep == ASSUME TypeInv, LinksSpent, [Next]_vars PROVE LinksSpent'
<1>1. /\ again \in [Links -> Nat] /\ links \in [Links -> LinkRow] /\ req \in [Requests -> Request]
      /\ \A r \in Requests : RequestOK(req[r])
      /\ Cardinality(Requests) \in Nat /\ Cardinality(Requests) >= 1
  <2>1. Cardinality(Requests) \in Nat /\ Cardinality(Requests) # 0
    BY FS_CardinalityType, FS_EmptySet
  <2> QED
    BY <2>1 DEF TypeInv, TablesOK, RequestsOK
<1>2. ~NoLink.used /\ ~NoLink.mailed /\ NoLink.user = None
  BY DEF NoLink
<1> DEFINE Kept(l) == /\ Spent(l)' => again'[l] + Cardinality(OnLink(l)') <= Cardinality(Requests) - 1
                      /\ again'[l] > 0 => links'[l].used \/ links'[l] = NoLink
<1>3. SUFFICES ASSUME NEW l \in Links PROVE Kept(l)
  BY DEF LinksSpent, Spent
<1>4. /\ Spent(l) => again[l] + Cardinality(OnLink(l)) <= Cardinality(Requests) - 1
      /\ again[l] > 0 => links[l].used \/ links[l] = NoLink
      /\ again[l] \in Nat
  BY <1>1 DEF LinksSpent
<1>5. CASE \E x \in Requests : Reset(x, l)
  <2>1. PICK x \in Requests : Reset(x, l)
    BY <1>5
  <2>2. links' = links /\ again' = again /\ links[l].mailed /\ ~links[l].used
    BY <2>1 DEF Reset, rows, history
  <2>3. again[l] = 0
    BY <1>2, <1>4, <2>2
  <2>4. ~Spent(l)' /\ again'[l] = 0
    BY <2>2, <2>3 DEF Spent
  <2> QED
    BY <2>4
<1>6. SUFFICES ASSUME ~(\E x \in Requests : Reset(x, l)) PROVE Kept(l)
  BY <1>5
<1>7. OnLink(l)' \subseteq OnLink(l)
  BY <1>6, OnLinkShrinks
<1>8. LinkQuiet(l) => Kept(l)
  BY <1>1, QuietSpent
<1>9. /\ Cardinality(OnLink(l)') <= Cardinality(OnLink(l))
      /\ Cardinality(OnLink(l)) \in Nat /\ Cardinality(OnLink(l)') \in Nat
  <2>1. IsFiniteSet(OnLink(l)')
    BY <1>7, OnLinkCounts
  <2> QED
    BY <1>7, <2>1, OnLinkCounts, FS_CardinalityType
<1> HIDE DEF Kept
<1>10. CASE UNCHANGED <<links, again>>
  BY <1>7, <1>8, <1>10 DEF LinkQuiet
<1>11. ASSUME NEW r \in Requests, ResetPassword(r) PROVE Kept(l)
  <2> DEFINE k == req[r].link
  <2>1. links' = links /\ req[r].pc = "reset" /\ k \in Links
    <3>1. req[r].pc = "reset" => k \in Links
      BY <1>1 DEF RequestOK, Resetting
    <3> QED
      BY <1>11, <3>1 DEF ResetPassword, At
  <2>2. CASE ~Target(r).exists
    BY <1>10, <1>11, <2>1, <2>2 DEF ResetPassword
  <2>3. CASE Target(r).exists
    <3>1. again' = [again EXCEPT ![k] = IF links[k].used THEN @ + 1 ELSE @] /\ Goto(r, "mark")
      BY <1>11, <2>3 DEF ResetPassword
    <3>2. CASE l # k \/ ~links[l].used
      <4>1. again'[l] = again[l]
        BY <1>1, <3>1, <3>2
      <4> QED
        BY <1>7, <1>8, <2>1, <4>1 DEF LinkQuiet
    <3>3. CASE l = k /\ links[l].used
      <4>1. again'[l] = again[l] + 1
        BY <1>1, <3>1, <3>3
      <4>2. r \in OnLink(l)
        BY <2>1, <3>3 DEF OnLink, At
      <4>3. r \notin OnLink(l)'
        <5>1. [req[r] EXCEPT !.pc = "mark"].pc = "mark"
          BY <1>1 DEF RequestOK, Request
        <5>2. req'[r].pc = "mark"
          BY <1>1, <3>1, <5>1 DEF Goto
        <5> QED
          BY <5>2 DEF OnLink, At
      <4>4. OnLink(l)' \subseteq OnLink(l) \ {r}
        BY <1>7, <4>3
      <4>5. Cardinality(OnLink(l)') <= Cardinality(OnLink(l)) - 1
        <5>1. OnLink(l) \ {r} \subseteq OnLink(l)
          OBVIOUS
        <5>2. IsFiniteSet(OnLink(l) \ {r}) /\ Cardinality(OnLink(l) \ {r}) = Cardinality(OnLink(l)) - 1
          BY <4>2, <5>1, OnLinkCounts
        <5> QED
          BY <4>4, <5>2, FS_Subset
      <4>6. Spent(l)
        BY <3>3 DEF Spent
      <4> QED
        BY <1>1, <1>4, <1>9, <2>1, <3>3, <4>1, <4>5, <4>6 DEF Kept
    <3> QED
      BY <3>2, <3>3
  <2> QED
    BY <2>2, <2>3
<1>12. ASSUME again' = again, links'[l].used,
              ~Spent(l) => Cardinality(OnLink(l)) <= Cardinality(Requests) - 1
       PROVE  Kept(l)
  <2>1. ~Spent(l) => again[l] = 0
    BY <1>4 DEF Spent
  <2> QED
    BY <1>1, <1>4, <1>9, <1>12, <2>1 DEF Kept
<1>13. ASSUME NEW r \in Requests, ResetMark(r) PROVE Kept(l)
  <2> DEFINE k == req[r].link
  <2>1. again' = again /\ req[r].pc = "mark"
    BY <1>13 DEF ResetMark, history, At
  <2>2. CASE links' = links
    BY <1>10, <2>1, <2>2
  <2>3. CASE links' = [links EXCEPT ![k].used = TRUE]
    <3>1. CASE l # k
      BY <1>1, <1>7, <1>8, <2>1, <2>3, <3>1 DEF LinkQuiet
    <3>2. CASE l = k
      <4>1. links'[l].used
        BY <1>1, <2>3, <3>2 DEF LinkRow
      <4>2. OnLink(l) \subseteq Requests \ {r}
        BY <2>1 DEF OnLink, At
      <4>3. Cardinality(OnLink(l)) <= Cardinality(Requests) - 1
        <5>1. IsFiniteSet(Requests \ {r}) /\ Cardinality(Requests \ {r}) = Cardinality(Requests) - 1
          BY FS_RemoveElement, FS_Subset
        <5> QED
          BY <4>2, <5>1, FS_Subset
      <4> QED
        BY <1>12, <2>1, <4>1, <4>3
    <3> QED
      BY <3>1, <3>2
  <2> QED
    BY <1>13, <2>2, <2>3 DEF ResetMark
<1>14. ASSUME NEW k \in Links, LinkExpire(k) PROVE Kept(l)
  <2>1. again' = again /\ links' = [links EXCEPT ![k].used = TRUE] /\ \A r \in Requests : req[r].link # k
    BY <1>14 DEF LinkExpire, history
  <2>2. CASE l # k
    BY <1>1, <1>7, <1>8, <2>1, <2>2 DEF LinkQuiet
  <2>3. CASE l = k
    <3>1. links'[l].used
      BY <1>1, <2>1, <2>3 DEF LinkRow
    <3>2. OnLink(l) = {}
      BY <2>1, <2>3 DEF OnLink
    <3>3. Cardinality(OnLink(l)) <= Cardinality(Requests) - 1
      BY <1>1, <3>2, FS_EmptySet
    <3> QED
      BY <1>12, <2>1, <3>1, <3>3
  <2> QED
    BY <2>2, <2>3
<1>15. ASSUME NEW u \in Users, CleanupRemove(u) PROVE Kept(l)
  <2>1. again' = again /\ (links'[l] = NoLink \/ links'[l] = links[l])
    BY <1>15 DEF CleanupRemove, history
  <2> QED
    BY <1>7, <1>8, <2>1 DEF LinkQuiet
<1>16. ASSUME NEW r \in Requests, NEW u \in Users, Forgot(r, u) PROVE Kept(l)
  <2>1. PICK k \in Links : links[k] = NoLink /\ again[k] = 0 /\ links' = [links EXCEPT ![k] = [NoLink EXCEPT !.user = u]]
    BY <1>16 DEF Forgot
  <2>2. again' = again
    BY <1>16 DEF Forgot, history
  <2>3. [NoLink EXCEPT !.user = u].used = NoLink.used
    BY DEF NoLink
  <2>4. links'[l] = IF l = k THEN [NoLink EXCEPT !.user = u] ELSE links[l]
    BY <1>1, <2>1
  <2>5. links'[l].used = links[l].used /\ (links[l] = NoLink => links'[l] = NoLink \/ again[l] = 0)
    BY <2>1, <2>3, <2>4
  <2> QED
    BY <1>7, <1>8, <2>2, <2>5 DEF LinkQuiet
<1>17. ASSUME NEW r \in Requests, ForgotMail(r) \/ ForgotUndo(r) PROVE Kept(l)
  <2> DEFINE k == req[r].link
  <2>1. again' = again
    BY <1>17 DEF ForgotMail, ForgotUndo, history
  <2>2. \/ links' = links
        \/ links[k].user # None /\ links' = [links EXCEPT ![k].mailed = TRUE]
        \/ links' = [links EXCEPT ![k] = NoLink]
    BY <1>17 DEF ForgotMail, ForgotUndo
  <2>3. \/ links'[l] = links[l] \/ links'[l] = NoLink
        \/ links[l].user # None /\ links'[l].used = links[l].used
    BY <1>1, <2>2 DEF LinkRow
  <2> QED
    BY <1>2, <1>7, <1>8, <2>1, <2>3 DEF LinkQuiet
<1>18. ASSUME NEW r \in Requests, Arrive(r) PROVE Kept(l)
  <2>1. (\E u \in Users : Forgot(r, u)) \/ UNCHANGED <<links, again>>
    BY <1>18 DEF Arrive, Manage, Withdraw, LinkBack, SignIn, SignUp, SearchFor, Unlink, Reset, rows, history
  <2> QED
    BY <1>10, <1>16, <2>1
<1>19. ASSUME NEW r \in Requests, Proceed(r) PROVE Kept(l)
  <2>1. \/ ForgotMail(r) \/ ForgotUndo(r) \/ ResetPassword(r) \/ ResetMark(r) \/ UNCHANGED <<links, again>>
    BY <1>19 DEF Proceed, TxRead, TxWrite, WithdrawMark, LinkWrite, AutoLink, Attach, UnlinkWrite, ByEmail, Create,
                 Fail, rows, history
  <2> QED
    BY <1>10, <1>11, <1>13, <1>17, <2>1
<1>20. CASE UNCHANGED vars \/ CleanupFind \/ CookieExpire
            \/ \E u \in Users : \/ ThirtyDays(u) \/ CleanupFail(u)
                               \/ SetPassword(u) \/ (\E e \in Emails : SetEmail(u, e))
                               \/ \E i \in Identities : LinkStart(u, i.provider)
  BY <1>10, <1>20 DEF vars, rows, history, CleanupFind, CookieExpire, ThirtyDays, CleanupFail, SetPassword, SetEmail,
                      LinkStart
<1> QED
  BY <1>14, <1>15, <1>18, <1>19, <1>20 DEF Next

(***************************************************************************)
(* A reset link that is marked used sets a password only for requests that *)
(* had found it before: fewer than there are requests in flight            *)
(* (resetPassword marks it afterwards).                                    *)
(***************************************************************************)
THEOREM SpentLinksStop == Spec => []SpentLinkStops
<1>1. Init => LinksSpent
  <2>1. ASSUME Init, NEW l \in Links PROVE ~Spent(l) /\ again[l] = 0
    BY <2>1 DEF Init, Spent, NoLink
  <2> QED
    BY <2>1 DEF LinksSpent
<1>2. AccountInv /\ LinksSpent /\ [Next]_vars => LinksSpent'
  BY SpentStep DEF AccountInv
<1>3. AccountInv /\ LinksSpent => SpentLinkStops
  <2>1. ASSUME AccountInv, LinksSpent, NEW l \in Links PROVE again[l] <= Cardinality(Requests) - 1
    <3>1. /\ again[l] \in Nat /\ Cardinality(OnLink(l)) \in Nat /\ Cardinality(Requests) \in Nat
          /\ Cardinality(Requests) # 0
      BY <2>1, OnLinkCounts, FS_EmptySet DEF AccountInv, TypeInv, TablesOK
    <3> QED
      BY <2>1, <3>1 DEF LinksSpent, Spent
  <2> QED
    BY <2>1 DEF SpentLinkStops
<1> QED
  BY <1>1, <1>2, <1>3, AccountAlways, PTL DEF Spec
=============================================================================
