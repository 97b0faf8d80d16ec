------------------------------- MODULE Settings -------------------------------
(***************************************************************************)
(* The settings page (settings/page.tsx) on each device of one user, and   *)
(* what its calls do to the account and its sessions (auth.service.ts).    *)
(* The sections of the page have a loading flag each: a section has one    *)
(* call in flight at most, and does not wait for the others.  The notices  *)
(* have no flag: they are two sections here, "notices" and "again".  The   *)
(* page shows the account as useMe last fetched it, and each handler that  *)
(* changes the account has it fetched again.                               *)
(*                                                                         *)
(* A step of a call ends with its next statement.  What the code typed in  *)
(* is worth is Verification's business, what refresh tokens are worth is   *)
(* Sessions'.  The setting of the notices is the one that Notifications    *)
(* looks at; in one scene there is the bell alone.                         *)
(***************************************************************************)
EXTENDS Notifications

CONSTANTS
  Devices,      \* a page each, with its own tokens
  MaxSessions,  \* bound: refresh tokens at a time
  MaxCalls,     \* bound: calls in flight of a page
  Scenes        \* the sections each page uses, and the account

Sections == {"nickname", "email", "password", "social", "notices", "again", "logout", "withdraw"}
Sessions == 1 .. MaxSessions
Account  == [name : 1 .. 2, email : BOOLEAN, password : BOOLEAN, social : BOOLEAN,
             inApp : BOOLEAN, withdrawn : BOOLEAN]   \* inApp: Notifications' enabled, too

ASSUME SettingsBounds ==
  /\ MaxSessions \in Nat /\ MaxCalls \in Nat
  /\ IsFiniteSet(Devices) /\ Cardinality(Devices) <= MaxSessions   \* one each at the start
  /\ \A s \in Scenes : s.use \in [Devices -> SUBSET Sections] /\ s.account \in Account

VARIABLES
  scene,
  account,      \* the row of User
  setup,        \* the code of the password setup: in Redis, and its cooldown
  sessions,     \* refresh tokens the database holds
  page,         \* what each page shows, remembers and holds
  call,         \* the call in flight of each section of each page
  behind,       \* history: the account changed, and the page has not been told
  excused       \* history: why a page may hold a token that does not work

store == <<account, setup, sessions>>
settingsVars == <<scene, store, page, call, behind, excused, bell>>

NoCall == [pc |-> "idle", op |-> "none", arg |-> 0, session |-> 0]

\* useState at the start, and after the page is opened again.
Opened(me, token) ==
  [open |-> TRUE, me |-> me, fetch |-> "none", got |-> me, held |-> token,
   mail |-> "idle", step |-> "idle", proof |-> FALSE, dialog |-> FALSE, outStep |-> "idle", outProof |-> FALSE]

\* The button of a section is not loading.
Free(d, s) ==
  /\ page[d].open /\ s \in scene.use[d] /\ call[d][s].pc = "idle"
  /\ Cardinality({t \in Sections : call[d][t].pc # "idle"}) < MaxCalls

At(d, s, op, pc) == call[d][s].op = op /\ call[d][s].pc = pc

\* The guard lets the request in: the account is not withdrawn.
Sent(d, s, op) == At(d, s, op, "sent") /\ ~account.withdrawn
Quiet(d) == page[d].fetch = "none" /\ \A s \in Sections : call[d][s].pc = "idle"

----------------------------------------------------------------------------
(* Sending: the handlers up to their first await                            *)

Send(d, s, op, arg) ==
  /\ Free(d, s)
  /\ call' = [call EXCEPT ![d][s] = [NoCall EXCEPT !.pc = "sent", !.op = op, !.arg = arg]]
  /\ UNCHANGED <<scene, store, page, behind, excused, bell>>

handleNicknameChange(d) == \E n \in 1 .. 2 : Send(d, "nickname", "nickname", n)

\* The form shown to somebody with a password, and the three steps of somebody
\* without.
PasswordForm(p) ==
  CASE p.me.password                                -> "change"
    [] ~p.me.password /\ p.step = "idle"            -> "request"
    [] ~p.me.password /\ p.step = "code-sent"       -> "verify"
    [] ~p.me.password /\ p.step = "code-verified"   -> "set"

\* arg is what the proof is worth: a password that is right (1) or wrong (0), or
\* the token of a code (2).
handlePasswordChange(d) ==
  LET p == page[d] IN
  \/ PasswordForm(p) = "change" /\ \E right \in 0 .. 1 : Send(d, "password", "change", right)
  \/ PasswordForm(p) = "set" /\ Send(d, "password", "change", IF p.proof THEN 2 ELSE 0)

handleRequestSetupCode(d) == PasswordForm(page[d]) = "request" /\ Send(d, "password", "request", 0)
handleVerifySetupCode(d)  == PasswordForm(page[d]) = "verify" /\ Send(d, "password", "verify", 0)

\* The form there is as long as the page shows no address.
EmailForm(p) == IF p.me.email THEN "none" ELSE p.mail

handleRequestEmailCode(d) == EmailForm(page[d]) = "idle" /\ Send(d, "email", "code", 0)

\* verifyEmailCode of Verification, then updateEmail.
handleVerifyAndSaveEmail(d) == EmailForm(page[d]) = "code-sent" /\ Send(d, "email", "email", 0)

\* The button of a provider that the page shows as linked, and its dialog.
UnlinkShown(p) == p.me.social

handleUnlinkOAuth(d) == UnlinkShown(page[d]) /\ Send(d, "social", "unlink", 0)

\* The switch asks for the opposite of what the page shows.
Flipped(p) == IF p.me.inApp THEN 0 ELSE 1

handleToggleSetting(d) ==
  \E s \in {"notices", "again"} : Send(d, s, "toggle", Flipped(page[d]))

handleLogoutAll(d) == Send(d, "logout", "logout", 0)

OpenDialog(d) ==
  /\ page[d].open /\ "withdraw" \in scene.use[d] /\ ~page[d].dialog
  /\ page' = [page EXCEPT ![d].dialog = TRUE]
  /\ UNCHANGED <<scene, store, call, behind, excused, bell>>

\* Cancelling does not wait for a call: its answer comes to a dialog that starts
\* again.
CloseDialog(d) ==
  /\ page[d].open /\ page[d].dialog
  /\ page' = [page EXCEPT ![d].dialog = FALSE, ![d].outStep = "idle", ![d].outProof = FALSE]
  /\ UNCHANGED <<scene, store, call, behind, excused, bell>>

\* What the dialog asks for before its button can be pressed.
WithdrawForm(p) ==
  CASE ~p.dialog                       -> "none"
    [] p.dialog /\ p.me.password       -> "password"
    [] p.dialog /\ ~p.me.password      -> p.outStep

handleRequestDeleteCode(d) == WithdrawForm(page[d]) = "idle" /\ Send(d, "withdraw", "request", 0)
handleVerifyDeleteCode(d)  == WithdrawForm(page[d]) = "code-sent" /\ Send(d, "withdraw", "verify", 0)

handleDeleteMe(d) ==
  LET p == page[d] IN
  \/ WithdrawForm(p) = "password" /\ \E right \in 0 .. 1 : Send(d, "withdraw", "delete", right)
  \/ WithdrawForm(p) = "code-verified" /\ Send(d, "withdraw", "delete", IF p.outProof THEN 2 ELSE 0)

----------------------------------------------------------------------------
(* The server                                                               *)

\* A statement that changes the account: other pages do not learn of it.
Store(d, s, new, pc) ==
  /\ account' = new
  /\ behind' = [e \in Devices |-> behind[e] \/ (e # d /\ new # account)]
  /\ call' = [call EXCEPT ![d][s].pc = pc]
  /\ UNCHANGED <<scene, page>>

Reach(d, s, pc) ==
  /\ call' = [call EXCEPT ![d][s].pc = pc]
  /\ UNCHANGED <<scene, page, behind>>

\* updateNickname: a name that is the same is refused.
NicknameWrite(d) ==
  LET n == call[d]["nickname"].arg IN
  /\ Sent(d, "nickname", "nickname") /\ account.name # n
  /\ Store(d, "nickname", [account EXCEPT !.name = n], "tokens")
  /\ UNCHANGED <<setup, sessions, excused, bell>>

\* requestCode: a code is mailed.
EmailCode(d) ==
  /\ Sent(d, "email", "code") /\ Reach(d, "email", "ok")
  /\ UNCHANGED <<store, excused, bell>>

\* updateEmail: assertVerified, and the address is nobody else's.
EmailWrite(d) ==
  /\ Sent(d, "email", "email")
  /\ Store(d, "email", [account EXCEPT !.email = TRUE], "tokens")
  /\ UNCHANGED <<setup, sessions, excused, bell>>

\* changePassword: the proof is one of what the account has now.
Proved(arg) == arg = IF account.password THEN 1 ELSE 2

ChangeCheck(d) ==
  /\ Sent(d, "password", "change") /\ Proved(call[d]["password"].arg)
  /\ Reach(d, "password", "hashed")
  /\ UNCHANGED <<store, excused, bell>>

ChangeWrite(d) ==
  /\ At(d, "password", "change", "hashed")
  /\ Store(d, "password", [account EXCEPT !.password = TRUE], "end")
  /\ UNCHANGED <<setup, sessions, excused, bell>>

\* deleteMany of changePassword, logoutAll, deleteMe.  Another page's token goes
\* with it, and one that another section of this page has not received yet.
EndSessions(d, s) ==
  /\ \/ At(d, s, "change", "end") /\ Reach(d, s, "tokens")
     \/ Sent(d, s, "logout") /\ Reach(d, s, "ok")
     \/ At(d, s, "delete", "end") /\ Reach(d, s, "mark")
  /\ sessions' = {}
  /\ excused' = [e \in Devices |-> \/ excused[e]
                                   \/ e # d /\ page[e].held \in sessions
                                   \/ \E t \in Sections : call[e][t].session \in sessions]
  /\ UNCHANGED <<account, setup, bell>>

\* Tokens nobody holds or is about to be given.
FreeSessions ==
  {n \in Sessions \ sessions :
     \A d \in Devices : page[d].held # n /\ \A t \in Sections : call[d][t].session # n}
NextSession == CHOOSE n \in FreeSessions : TRUE

\* generateTokenPair.
IssueTokens(d, s) ==
  /\ call[d][s].pc = "tokens" /\ FreeSessions # {}
  /\ sessions' = sessions \cup {NextSession}
  /\ call' = [call EXCEPT ![d][s].pc = "ok", ![d][s].session = NextSession]
  /\ UNCHANGED <<scene, account, setup, page, behind, excused, bell>>

\* requestPasswordSetup: a code at most every minute, the last one counts.
SetupRequest(d, s) ==
  /\ Sent(d, s, "request")
  /\ ~account.password /\ account.email /\ ~setup.cooldown
  /\ setup' = [code |-> TRUE, cooldown |-> TRUE]
  /\ Reach(d, s, "ok")
  /\ UNCHANGED <<account, sessions, excused, bell>>

\* verifyPasswordSetup: a code is good for one token.
SetupVerify(d, s) ==
  /\ Sent(d, s, "verify")
  /\ ~account.password /\ account.email /\ setup.code
  /\ setup' = [setup EXCEPT !.code = FALSE]
  /\ Reach(d, s, "ok")
  /\ UNCHANGED <<account, sessions, excused, bell>>

\* unlinkOAuth, of the one provider there is here.
UnlinkWrite(d) ==
  /\ Sent(d, "social", "unlink") /\ account.password
  /\ Store(d, "social", [account EXCEPT !.social = FALSE], "ok")
  /\ UNCHANGED <<setup, sessions, excused, bell>>

\* updateSettings.
SettingsWrite(d, s) ==
  /\ Sent(d, s, "toggle")
  /\ Store(d, s, [account EXCEPT !.inApp = call[d][s].arg = 1], "ok")
  /\ enabled' = account'.inApp
  /\ UNCHANGED <<setup, sessions, excused, unread, written, making, shown, poll, clicks>>

WithdrawCheck(d) ==
  /\ Sent(d, "withdraw", "delete") /\ Proved(call[d]["withdraw"].arg)
  /\ Reach(d, "withdraw", "end")
  /\ UNCHANGED <<store, excused, bell>>

WithdrawMark(d) ==
  /\ At(d, "withdraw", "delete", "mark")
  /\ Store(d, "withdraw", [account EXCEPT !.withdrawn = TRUE], "ok")
  /\ UNCHANGED <<setup, sessions, excused, bell>>

CodeExpires ==
  /\ setup' \in {[setup EXCEPT !.code = FALSE], [setup EXCEPT !.cooldown = FALSE]}
  /\ setup' # setup
  /\ UNCHANGED <<scene, account, sessions, page, call, behind, excused, bell>>

----------------------------------------------------------------------------
(* Answers                                                                  *)

\* Mutated form: the query joins the fetch under way.
invalidateMeJoin(p) == IF p.fetch = "none" THEN [p EXCEPT !.fetch = "sent"] ELSE p

\* invalidateQueries: a fetch under way is given up for a new one.
invalidateMe(p) == [p EXCEPT !.fetch = "sent"]

\* Mutated form: the pair that changePassword answers with is not stored.
setTokensNot(p, n) == p

setTokens(p, n) == [p EXCEPT !.held = n]

\* What the handler does with a good answer.
Handled(d, s) ==
  LET c == call[d][s]  p == page[d] IN
  CASE c.op = "nickname" -> invalidateMe(setTokens(p, c.session))
    [] c.op = "email"    -> [invalidateMe(setTokens(p, c.session)) EXCEPT !.mail = "idle"]
    [] c.op = "code"     -> [p EXCEPT !.mail = "code-sent"]
    [] c.op = "change"  -> [invalidateMe(setTokens(p, c.session)) EXCEPT !.step = "idle", !.proof = FALSE]
    [] c.op \in {"unlink", "toggle"} -> invalidateMe(p)
    [] c.op \in {"logout", "delete"} -> [p EXCEPT !.held = 0, !.open = FALSE]
    [] c.op = "request" /\ s = "password" -> [p EXCEPT !.step = "code-sent"]
    [] c.op = "request" /\ s = "withdraw" -> [p EXCEPT !.outStep = "code-sent"]
    [] c.op = "verify"  /\ s = "password" -> [p EXCEPT !.step = "code-verified", !.proof = TRUE]
    [] c.op = "verify"  /\ s = "withdraw" -> [p EXCEPT !.outStep = "code-verified", !.outProof = TRUE]

\* A handler goes on when its page has been left: it stores its tokens, too.
Answered(d, s) ==
  /\ call[d][s].pc = "ok"
  /\ page' = [page EXCEPT ![d] = IF page[d].open THEN Handled(d, s)
                                 ELSE [@ EXCEPT !.held = Handled(d, s).held]]
  /\ call' = [call EXCEPT ![d][s] = NoCall]
  /\ UNCHANGED <<scene, store, behind, excused, bell>>

\* The call is refused, or fails at a statement, or its answer is lost: the
\* page shows a message.
Failed(d, s) ==
  /\ call[d][s].pc # "idle"
  /\ call' = [call EXCEPT ![d][s] = NoCall]
  /\ LET c == call[d][s] IN
     /\ behind' = [behind EXCEPT ![d] = @ \/ c.pc \in {"end", "tokens", "mark", "ok"}]
     /\ excused' = [excused EXCEPT ![d] = @ \/ (c.op \in {"change", "logout", "delete"}
                                              /\ c.pc \in {"tokens", "mark", "ok"})]
  /\ UNCHANGED <<scene, store, page, bell>>

\* getMe, as it is when the server reads it.
FetchRead(d) ==
  /\ page[d].fetch = "sent"
  /\ page' = [page EXCEPT ![d].fetch = "read", ![d].got = account]
  /\ behind' = [behind EXCEPT ![d] = FALSE]
  /\ UNCHANGED <<scene, store, call, excused, bell>>

FetchArrive(d) ==
  /\ page[d].fetch = "read"
  /\ page' = [page EXCEPT ![d].fetch = "none", ![d].me = page[d].got]
  /\ UNCHANGED <<scene, store, call, behind, excused, bell>>

\* After the one retry of the client: what was shown is still shown.
FetchFail(d) ==
  /\ page[d].fetch # "none"
  /\ page' = [page EXCEPT ![d].fetch = "none"]
  /\ behind' = [behind EXCEPT ![d] = TRUE]
  /\ UNCHANGED <<scene, store, call, excused, bell>>

\* The user logs in again, after the last answer has come.
OpenPage(d) ==
  /\ ~page[d].open /\ ~account.withdrawn /\ Quiet(d)
  /\ FreeSessions # {}
  /\ sessions' = sessions \cup {NextSession}
  /\ page' = [page EXCEPT ![d] = Opened(account, NextSession)]
  /\ behind' = [behind EXCEPT ![d] = FALSE] /\ excused' = [excused EXCEPT ![d] = FALSE]
  /\ UNCHANGED <<scene, account, setup, call, bell>>

----------------------------------------------------------------------------
PagesInit ==
  /\ scene \in Scenes /\ account = scene.account
  /\ setup = [code |-> FALSE, cooldown |-> FALSE]
  /\ sessions = 1 .. Cardinality(Devices)
  /\ LET own == CHOOSE f \in [Devices -> sessions] : \A d, e \in Devices : f[d] = f[e] => d = e
     IN page = [d \in Devices |-> Opened(account, own[d])]
  /\ call = [d \in Devices |-> [s \in Sections |-> NoCall]]
  /\ behind = [d \in Devices |-> FALSE] /\ excused = [d \in Devices |-> FALSE]

SettingsInit == PagesInit /\ BellInit /\ enabled = account.inApp

User(d) ==
  \/ handleNicknameChange(d) \/ handlePasswordChange(d) \/ handleRequestSetupCode(d)
  \/ handleVerifySetupCode(d) \/ handleRequestEmailCode(d)
  \/ handleVerifyAndSaveEmail(d) \/ handleUnlinkOAuth(d)
  \/ handleToggleSetting(d) \/ handleLogoutAll(d) \/ OpenDialog(d) \/ CloseDialog(d)
  \/ handleRequestDeleteCode(d) \/ handleVerifyDeleteCode(d) \/ handleDeleteMe(d)
  \/ OpenPage(d)

Server(d) ==
  \/ NicknameWrite(d) \/ EmailCode(d) \/ EmailWrite(d) \/ ChangeCheck(d) \/ ChangeWrite(d)
  \/ UnlinkWrite(d) \/ WithdrawCheck(d) \/ WithdrawMark(d) \/ FetchRead(d)
  \/ \E s \in Sections : EndSessions(d, s) \/ IssueTokens(d, s) \/ SettingsWrite(d, s)
                       \/ SetupRequest(d, s) \/ SetupVerify(d, s)

Back(d) ==
  \/ FetchArrive(d) \/ FetchFail(d)
  \/ \E s \in Sections : Answered(d, s) \/ Failed(d, s)

SettingsNext ==
  \/ \E d \in Devices : User(d) \/ Server(d) \/ Back(d)
  \/ CodeExpires
  \/ (\A d \in Devices : scene.use[d] = {}) /\ BellNext /\ UNCHANGED <<scene, store, page, call, behind, excused>>

SettingsSpec == SettingsInit /\ [][SettingsNext]_settingsVars /\ BellFairness

----------------------------------------------------------------------------
(***************************************************************************)
(* A page on which nothing is under way shows the account as it is stored, *)
(* in whatever order the answers of its sections and the fetches they ask  *)
(* for came, unless another page changed the account since, an answer was  *)
(* lost, or a fetch failed (invalidateMe of each handler).                 *)
(***************************************************************************)
ShownIsStored ==
  \A d \in Devices : page[d].open /\ Quiet(d) /\ ~behind[d] => page[d].me = account

(***************************************************************************)
(* A page on which nothing is under way holds a refresh token that works,  *)
(* though a change of the password ends every session and its answer       *)
(* competes with the tokens other sections are given: unless another page  *)
(* ended the sessions, the answer was lost, or the sessions ended between  *)
(* the moment a token was issued to another section and its answer.        *)
(***************************************************************************)
PageTokenWorks ==
  \A d \in Devices : page[d].open /\ Quiet(d) /\ ~excused[d] => page[d].held \in sessions
=============================================================================
