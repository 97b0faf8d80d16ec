------------------------------ MODULE Accounts ------------------------------
(***************************************************************************)
(* The life of an account: who is administrator or suspended               *)
(* (admin.service.ts), how its user can log in (the providers linked by    *)
(* oauth-account.service.ts, the password, the links of forgotPassword and *)
(* resetPassword), and how it ends (deleteMe, user-cleanup.service.ts).    *)
(*                                                                         *)
(* A request is a record with its place in the code; a step is the code    *)
(* between two awaits with the statement it sends to the database.         *)
(***************************************************************************)
EXTENDS Integers, FiniteSets

CONSTANTS
  Users,          \* accounts, the ones that may be created included
  Identities,     \* what a provider says of a person: provider, id, e-mail
  Emails,
  Plans,
  Requests,       \* requests in flight at a time
  MaxLinks,       \* bound: reset links made
  Batch,          \* `take` of the clean-up
  Scenes          \* which operations occur, and the accounts there are

None == "none"
Links == 1 .. MaxLinks
Gone == [exists |-> FALSE, admin |-> FALSE, readOnly |-> FALSE, suspended |-> FALSE,
         withdrawn |-> FALSE, old |-> FALSE, password |-> FALSE, email |-> None, ids |-> {}]
User == [exists : BOOLEAN, admin : BOOLEAN, readOnly : BOOLEAN, suspended : BOOLEAN,
         withdrawn : BOOLEAN, old : BOOLEAN, password : BOOLEAN,
         email : Emails \cup {None}, ids : SUBSET Identities]

Scene == [use : {"roles", "logins", "cleanup"}, users : [Users -> User],
          space : [owner : Users \cup {None}, members : SUBSET Users],
          plans : [Plans -> [user : Users \cup {None}, shared : BOOLEAN]]]

\* Addresses are unique; an account is signed up with a password or a provider.
ASSUME ScenesAreStates ==
  \A s \in Scenes :
    /\ s \in Scene
    /\ \A u \in Users :
         /\ s.users[u].old => s.users[u].withdrawn
         /\ s.users[u].withdrawn => s.users[u].exists
         /\ s.users[u].exists => s.users[u].password \/ s.users[u].ids # {}
         /\ \A v \in Users : s.users[u].email = s.users[v].email => u = v \/ s.users[u].email = None
ASSUME BoundsAssumption == MaxLinks \in Nat /\ Batch \in Nat \ {0}
ASSUME RequestsAssumption == IsFiniteSet(Requests) /\ Requests # {}
ASSUME IdentitiesAssumption == \A i \in Identities : i.email \in Emails \cup {None}

VARIABLES
  scene,
  users,      \* rows of User
  links,      \* rows of PasswordResetToken, by the order they were made in
  space,      \* a workspace, its owner None when there is none
  plans,      \* rows of Plan, their user None when there is none
  cookie,     \* oauth_link_token in the browser: account and provider
  batch,      \* accounts the clean-up has still to remove
  req,
  adminLeft,  \* history: an administrator withdrew
  overlapped, \* history: accounts two unlinks of which overlapped
  again       \* history: passwords a link set after it was marked used

rows == <<users, links, space, plans>>
history == <<adminLeft, overlapped, again>>
vars == <<scene, rows, cookie, batch, req, history>>

NoLink == [user |-> None, mailed |-> FALSE, used |-> FALSE]
NoId == [provider |-> None, id |-> 0, email |-> None]
NoCookie == [user |-> None, provider |-> None]
Idle == [pc |-> "idle", op |-> None, user |-> None, id |-> NoId, value |-> FALSE,
         link |-> 0, counted |-> FALSE, doomed |-> FALSE]

At(r, pc) == req[r].pc = pc
Target(r) == users[req[r].user]
Accessible(u) == users[u].exists /\ ~users[u].suspended /\ ~users[u].withdrawn
ActiveAdmin(u) == u.admin /\ u.exists /\ ~u.suspended /\ ~u.withdrawn
ActiveAdmins == {u \in Users : ActiveAdmin(users[u])}
HolderOf(i) == {u \in Users : i \in users[u].ids}
WithEmail(e) == {u \in Users : users[u].email = e /\ e # None}
Stranded(u) == users[u].exists /\ ~users[u].password /\ users[u].ids = {}

Begin(r, q) == At(r, "idle") /\ req' = [req EXCEPT ![r] = q]
Goto(r, pc) == req' = [req EXCEPT ![r].pc = pc]
Answer(r) == req' = [req EXCEPT ![r] = Idle]

\* r has written the row of u: a serializable transaction that read it before can
\* no longer write it.
Written(r, u) ==
  req' = [q \in Requests |-> IF q = r THEN Idle
                             ELSE IF At(q, "tx write") /\ req[q].user = u THEN [req[q] EXCEPT !.doomed = TRUE]
                             ELSE req[q]]

----------------------------------------------------------------------------
(* updateUserRole, suspendUser: one serializable transaction each           *)

\* The guards look at the requester before the transaction begins.  (A request
\* that would change nothing is left out.)
Manage(r, u, op, target, value) ==
  /\ scene.use = "roles" /\ users[u].admin /\ Accessible(u)
  /\ ~users[u].readOnly /\ u # target
  /\ value # IF op = "role" THEN users[target].admin ELSE users[target].suspended
  /\ Begin(r, [Idle EXCEPT !.pc = "tx read", !.op = op, !.user = target, !.value = value])
  /\ UNCHANGED <<scene, rows, cookie, batch, history>>

\* The change takes an active administrator away.  (Of a withdrawn one too, whom
\* the count leaves out.)
TakesAdmin(r) ==
  /\ Target(r).admin /\ ~Target(r).suspended
  /\ IF req[r].op = "role" THEN ~req[r].value ELSE req[r].value

TxRead(r) ==
  /\ At(r, "tx read")
  /\ IF Target(r).exists /\ (TakesAdmin(r) => Cardinality(ActiveAdmins) > 1)
     THEN req' = [req EXCEPT ![r].pc = "tx write", ![r].counted = TakesAdmin(r)]
     ELSE Answer(r)
  /\ UNCHANGED <<scene, rows, cookie, batch, history>>

Updated(u, r) == IF req[r].op = "role" THEN [u EXCEPT !.admin = req[r].value]
                                       ELSE [u EXCEPT !.suspended = req[r].value]

\* Mutated form: the transaction is not serializable.
TxWriteCommitted(r) ==
  /\ At(r, "tx write")
  /\ users' = [users EXCEPT ![req[r].user] = Updated(@, r)]
  /\ Answer(r)
  /\ UNCHANGED <<scene, links, space, plans, cookie, batch, history>>

\* Of two transactions that counted, or that change one row, one is undone.
TxWrite(r) ==
  /\ At(r, "tx write")
  /\ IF req[r].doomed THEN Answer(r) /\ UNCHANGED users
     ELSE /\ users' = [users EXCEPT ![req[r].user] = Updated(@, r)]
          /\ req' = [q \in Requests |->
               IF q = r THEN Idle
               ELSE IF At(q, "tx write") /\ (req[q].user = req[r].user \/ (req[q].counted /\ req[r].counted))
                    THEN [req[q] EXCEPT !.doomed = TRUE]
               ELSE req[q]]
  /\ UNCHANGED <<scene, links, space, plans, cookie, batch, history>>

----------------------------------------------------------------------------
(* deleteMe, and the clean-up of the accounts withdrawn 30 days ago         *)

Withdraw(r, u) ==
  /\ scene.use \in {"roles", "cleanup"} /\ Accessible(u)
  /\ Begin(r, [Idle EXCEPT !.pc = "withdraw", !.user = u])
  /\ UNCHANGED <<scene, rows, cookie, batch, history>>

\* The subscription and the sessions end before (modules Subscription, Sessions).
WithdrawMark(r) ==
  /\ At(r, "withdraw")
  /\ users' = [users EXCEPT ![req[r].user].withdrawn = Target(r).exists,
                            ![req[r].user].old = FALSE]
  /\ adminLeft' = (adminLeft \/ req[r].user \in ActiveAdmins)
  /\ Written(r, req[r].user)
  /\ UNCHANGED <<scene, links, space, plans, cookie, batch, overlapped, again>>

\* No request lasts 30 days.
ThirtyDays(u) ==
  /\ scene.use = "cleanup" /\ users[u].withdrawn /\ ~users[u].old
  /\ \A r \in Requests : ~(At(r, "withdraw") /\ req[r].user = u)
  /\ users' = [users EXCEPT ![u].old = TRUE]
  /\ UNCHANGED <<scene, links, space, plans, cookie, batch, req, history>>

CleanupFind ==
  /\ batch = {}
  /\ LET expired == {u \in Users : users[u].old} IN
     \E found \in SUBSET expired :
       /\ found # {} /\ (Cardinality(found) = Batch \/ (found = expired /\ Cardinality(found) < Batch))
       /\ batch' = found
  /\ UNCHANGED <<scene, rows, cookie, req, history>>

\* Mutated form: the plans of a workspace go with it.
CleanupCascade(u) ==
  /\ u \in batch /\ batch' = batch \ {u}
  /\ links' = [l \in Links |-> IF links[l].user = u THEN NoLink ELSE links[l]]
  /\ plans' = [p \in Plans |-> IF plans[p].user = u \/ (plans[p].shared /\ space.owner = u)
                               THEN [user |-> None, shared |-> FALSE] ELSE plans[p]]
  /\ space' = IF space.owner = u THEN [owner |-> None, members |-> {}]
              ELSE [space EXCEPT !.members = @ \ {u}]
  /\ users' = [users EXCEPT ![u] = Gone]
  /\ UNCHANGED <<scene, cookie, req, history>>

\* The schema takes along what refers to the row: a workspace of the account's,
\* out of which the plans of its members fall (SetNull), and its membership.
CleanupRemove(u) ==
  /\ u \in batch /\ batch' = batch \ {u}
  /\ links' = [l \in Links |-> IF links[l].user = u THEN NoLink ELSE links[l]]
  /\ plans' = [p \in Plans |-> [user   |-> IF plans[p].user = u THEN None ELSE plans[p].user,
                                shared |-> plans[p].shared /\ u \notin {plans[p].user, space.owner}]]
  /\ space' = IF space.owner = u THEN [owner |-> None, members |-> {}]
              ELSE [space EXCEPT !.members = @ \ {u}]
  /\ users' = [users EXCEPT ![u] = Gone]
  /\ UNCHANGED <<scene, cookie, req, history>>

\* The transaction of one account fails; the others go on.
CleanupFail(u) ==
  /\ u \in batch /\ batch' = batch \ {u}
  /\ UNCHANGED <<scene, rows, cookie, req, history>>

----------------------------------------------------------------------------
(* createOAuthLinkToken, linkProviderToUser, unlinkOAuth                    *)

LinkToken(u, p) == [user |-> u, provider |-> p]

LinkStart(u, p) ==
  /\ scene.use = "logins" /\ Accessible(u) /\ cookie = NoCookie
  /\ cookie' = LinkToken(u, p)
  /\ UNCHANGED <<scene, rows, batch, req, history>>

CookieExpire ==
  /\ cookie # NoCookie /\ cookie' = NoCookie
  /\ UNCHANGED <<scene, rows, batch, req, history>>

\* handleOAuthRedirect: with the cookie, whoever comes back from the provider.
LinkBack(r, i) ==
  /\ scene.use = "logins" /\ cookie # NoCookie /\ cookie' = NoCookie
  /\ At(r, "idle")
  /\ IF cookie.provider = i.provider /\ HolderOf(i) \subseteq {cookie.user}
     THEN Begin(r, [Idle EXCEPT !.pc = "link", !.user = cookie.user, !.id = i])
     ELSE UNCHANGED req
  /\ UNCHANGED <<scene, rows, batch, history>>

\* An identity belongs to one account (@unique), an account to one of each
\* provider: another one of it is written over.
Attach(r) ==
  LET u == req[r].user  i == req[r].id IN
  /\ Written(r, u)
  /\ users' = IF users[u].exists /\ HolderOf(i) \subseteq {u}
              THEN [users EXCEPT ![u].ids = {j \in @ : j.provider # i.provider} \cup {i}]
              ELSE users
  /\ UNCHANGED <<scene, links, space, plans, cookie, batch, history>>

LinkWrite(r) == At(r, "link") /\ Attach(r)

\* Mutated form: the provider that is removed counts as one that is left.
UnlinkAny(r, u, i) ==
  /\ scene.use = "logins" /\ Accessible(u)
  /\ users[u].password \/ users[u].ids # {}
  /\ Begin(r, [Idle EXCEPT !.pc = "unlink", !.user = u, !.id = i])
  /\ UNCHANGED <<scene, rows, cookie, batch, history>>

\* The last way to log in is not removed.
Unlink(r, u, i) ==
  /\ scene.use = "logins" /\ Accessible(u)
  /\ users[u].password \/ \E j \in users[u].ids : j.provider # i.provider
  /\ Begin(r, [Idle EXCEPT !.pc = "unlink", !.user = u, !.id = i])
  /\ UNCHANGED <<scene, rows, cookie, batch, history>>

UnlinkWrite(r) ==
  /\ At(r, "unlink")
  /\ users' = [users EXCEPT ![req[r].user].ids = {j \in @ : j.provider # req[r].id.provider}]
  /\ overlapped' = IF \E q \in Requests \ {r} : At(q, "unlink") /\ req[q].user = req[r].user
                   THEN overlapped \cup {req[r].user} ELSE overlapped
  /\ Written(r, req[r].user)
  /\ UNCHANGED <<scene, links, space, plans, cookie, batch, adminLeft, again>>

----------------------------------------------------------------------------
(* findOrLinkOrCreate, completeSignup                                       *)

\* findByProviderId finds the account, or the search goes on with the address.
SearchFor(r, i, op) ==
  /\ scene.use = "logins" /\ HolderOf(i) = {}
  /\ Begin(r, [Idle EXCEPT !.pc = "by email", !.op = op, !.id = i])
  /\ UNCHANGED <<scene, rows, cookie, batch, history>>

\* Who comes back from a provider that tells no address has to sign up.
SignIn(r, i) == cookie = NoCookie /\ i.email # None /\ SearchFor(r, i, "sign in")

\* With the token that was given to whoever came back without an account.
SignUp(r, i) == SearchFor(r, i, "sign up")

\* Mutated form: an account with a password is linked as well.
ByEmailAny(r) ==
  /\ At(r, "by email")
  /\ LET found == WithEmail(req[r].id.email) IN
     IF found # {} THEN \E u \in found : req' = [req EXCEPT ![r].pc = "auto link", ![r].user = u]
     ELSE IF req[r].op = "sign up" THEN Goto(r, "create") ELSE Answer(r)
  /\ UNCHANGED <<scene, rows, cookie, batch, history>>

ByEmail(r) ==
  /\ At(r, "by email")
  /\ LET found == WithEmail(req[r].id.email) IN
     CASE \E u \in found : ~users[u].password ->
            \E u \in found : req' = [req EXCEPT ![r].pc = "auto link", ![r].user = u]
       [] found = {} /\ req[r].op = "sign up" -> Goto(r, "create")
       [] OTHER -> Answer(r)
  /\ UNCHANGED <<scene, rows, cookie, batch, history>>

AutoLink(r) == At(r, "auto link") /\ Attach(r)

\* Two sign-ups of one person: the columns are unique, the second one fails.
Create(r) ==
  /\ At(r, "create") /\ Answer(r)
  /\ LET i == req[r].id IN
     IF HolderOf(i) = {} /\ WithEmail(i.email) = {}
     THEN \E u \in {v \in Users : ~users[v].exists} :
            users' = [users EXCEPT ![u] = [Gone EXCEPT !.exists = TRUE, !.email = i.email, !.ids = {i}]]
     ELSE UNCHANGED users
  /\ UNCHANGED <<scene, links, space, plans, cookie, batch, history>>

----------------------------------------------------------------------------
(* forgotPassword, resetPassword, and the password of an account without    *)

\* A user of providers is reminded of them; everybody else is mailed a link,
\* those who have no way to log in left included.
Forgot(r, u) ==
  /\ scene.use = "cleanup" /\ users[u].email # None
  /\ users[u].password \/ users[u].ids = {}
  /\ \E l \in Links :
       /\ links[l] = NoLink /\ again[l] = 0 /\ \A q \in Requests : req[q].link # l
       /\ links' = [links EXCEPT ![l] = [NoLink EXCEPT !.user = u]]
       /\ Begin(r, [Idle EXCEPT !.pc = "mail", !.user = u, !.link = l])
  /\ UNCHANGED <<scene, users, space, plans, cookie, batch, history>>

ForgotMail(r) ==
  /\ At(r, "mail")
  /\ \/ /\ links[req[r].link].user # None
        /\ links' = [links EXCEPT ![req[r].link].mailed = TRUE] /\ Answer(r)
     \/ Goto(r, "unmade") /\ UNCHANGED links
  /\ UNCHANGED <<scene, users, space, plans, cookie, batch, history>>

\* The mail failed: its link is deleted.
ForgotUndo(r) ==
  /\ At(r, "unmade")
  /\ links' = [links EXCEPT ![req[r].link] = NoLink] /\ Answer(r)
  /\ UNCHANGED <<scene, users, space, plans, cookie, batch, history>>

\* Mutated form: used links are looked at, too.
ResetAny(r, l) ==
  /\ links[l].mailed
  /\ Begin(r, [Idle EXCEPT !.pc = "reset", !.user = links[l].user, !.link = l])
  /\ UNCHANGED <<scene, rows, cookie, batch, history>>

Reset(r, l) ==
  /\ links[l].mailed /\ ~links[l].used
  /\ Begin(r, [Idle EXCEPT !.pc = "reset", !.user = links[l].user, !.link = l])
  /\ UNCHANGED <<scene, rows, cookie, batch, history>>

ResetPassword(r) ==
  /\ At(r, "reset")
  /\ IF Target(r).exists
     THEN /\ users' = [users EXCEPT ![req[r].user].password = TRUE]
          /\ again' = [again EXCEPT ![req[r].link] = IF links[req[r].link].used THEN @ + 1 ELSE @]
          /\ Goto(r, "mark")
     ELSE Answer(r) /\ UNCHANGED <<users, again>>
  /\ UNCHANGED <<scene, links, space, plans, cookie, batch, adminLeft, overlapped>>

ResetMark(r) ==
  /\ At(r, "mark")
  /\ links' = IF links[req[r].link].user = None THEN links
              ELSE [links EXCEPT ![req[r].link].used = TRUE]
  /\ Answer(r)
  /\ UNCHANGED <<scene, users, space, plans, cookie, batch, history>>

LinkExpire(l) ==
  /\ links[l].mailed /\ ~links[l].used /\ \A r \in Requests : req[r].link # l
  /\ links' = [links EXCEPT ![l].used = TRUE]
  /\ UNCHANGED <<scene, users, space, plans, cookie, batch, req, history>>

\* changePassword with a setup token; the code it takes is in Verification.
SetPassword(u) ==
  /\ scene.use = "logins" /\ Accessible(u) /\ ~users[u].password /\ users[u].email # None
  /\ users' = [users EXCEPT ![u].password = TRUE]
  /\ UNCHANGED <<scene, links, space, plans, cookie, batch, req, history>>

SetEmail(u, e) ==
  /\ scene.use = "logins" /\ Accessible(u) /\ WithEmail(e) = {}
  /\ users' = [users EXCEPT ![u].email = e]
  /\ UNCHANGED <<scene, links, space, plans, cookie, batch, req, history>>

\* A request fails between two statements.
Fail(r) ==
  /\ ~At(r, "idle") /\ Answer(r)
  /\ UNCHANGED <<scene, rows, cookie, batch, history>>

----------------------------------------------------------------------------
Init ==
  /\ scene \in Scenes
  /\ users = scene.users /\ links = [l \in Links |-> NoLink]
  /\ space = scene.space /\ plans = scene.plans
  /\ cookie = NoCookie /\ batch = {}
  /\ req = [r \in Requests |-> Idle]
  /\ adminLeft = FALSE /\ overlapped = {} /\ again = [l \in Links |-> 0]

Proceed(r) ==
  \/ TxRead(r) \/ TxWrite(r) \/ WithdrawMark(r)
  \/ LinkWrite(r) \/ UnlinkWrite(r) \/ ByEmail(r) \/ AutoLink(r) \/ Create(r)
  \/ ForgotMail(r) \/ ForgotUndo(r) \/ ResetPassword(r) \/ ResetMark(r)
  \/ Fail(r)

Arrive(r) ==
  \/ \E u, t \in Users, op \in {"role", "suspend"}, value \in BOOLEAN : Manage(r, u, op, t, value)
  \/ \E u \in Users : Withdraw(r, u) \/ Forgot(r, u)
  \/ \E i \in Identities : \/ LinkBack(r, i)
                          \/ SignIn(r, i) \/ SignUp(r, i)
                          \/ \E u \in Users : i \in users[u].ids /\ Unlink(r, u, i)
  \/ \E l \in Links : Reset(r, l)

Next ==
  \/ \E r \in Requests : Arrive(r) \/ Proceed(r)
  \/ \E u \in Users : \/ ThirtyDays(u) \/ CleanupRemove(u) \/ CleanupFail(u)
                     \/ SetPassword(u) \/ \E e \in Emails : SetEmail(u, e)
                     \/ \E i \in Identities : LinkStart(u, i.provider)
  \/ CleanupFind \/ CookieExpire
  \/ \E l \in Links : LinkExpire(l)

Spec == Init /\ [][Next]_vars

----------------------------------------------------------------------------
(***************************************************************************)
(* As long as no administrator withdraws, one who is not suspended is      *)
(* left: demotions and suspensions that each saw another one, or that were *)
(* asked for by somebody who is no administrator any more, never leave     *)
(* none (updateUserRole, suspendUser).                                     *)
(***************************************************************************)
AdminsRemain == (\E u \in Users : ActiveAdmin(scene.users[u])) /\ ~adminLeft => ActiveAdmins # {}

(***************************************************************************)
(* An account without a password and without a provider is one two unlinks *)
(* of which overlapped: nothing else takes the last way to log in away     *)
(* (unlinkOAuth; it is not so for the overlapping ones).                   *)
(***************************************************************************)
LoginMethodKept == \A u \in Users : Stranded(u) => u \in overlapped

(***************************************************************************)
(* Once a reset link is marked used, it sets a password only for the       *)
(* requests that had found it before (resetPassword marks it afterwards).  *)
(***************************************************************************)
SpentLinkStops == \A l \in Links : again[l] <= Cardinality(Requests) - 1

(***************************************************************************)
(* A sign-in attaches its provider to an account that has a password only  *)
(* if the password was set after the sign-in looked for the account        *)
(* (findOrLinkOrCreate refuses the accounts of those who signed up here).  *)
(***************************************************************************)
LocalAccountsRefused ==
  [][\A r \in Requests : At(r, "by email") /\ req'[r].pc = "auto link" => ~users[req'[r].user].password]_vars

(***************************************************************************)
(* A plan disappears only with the account of the user who made it, 30     *)
(* days after that user withdrew: the clean-up of the owner of a workspace *)
(* leaves the plans of the other members.                                  *)
(***************************************************************************)
OnlyTheirPlansGo ==
  [][\A p \in Plans : plans[p].user # None /\ plans'[p].user = None => users[plans[p].user].old]_vars
=============================================================================
