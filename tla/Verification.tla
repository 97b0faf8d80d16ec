---------------------------- MODULE Verification ----------------------------
(***************************************************************************)
(* What the backend keeps of an e-mail address to prove that it belongs to *)
(* somebody: a mailed code with a counter of wrong attempts and a cooldown *)
(* (email-verification.service.ts for signing up and for a new address,    *)
(* the password_setup methods of auth.service.ts), and the counter and the *)
(* lock of failed logins (loginInternal).                                  *)
(*                                                                         *)
(* The keys live in Redis, one command at a time.  Without Redis, a map in *)
(* the process replaces the keys of the sign-up, password setup refuses    *)
(* and logins are not counted.                                             *)
(***************************************************************************)
EXTENDS Integers, FiniteSets

CONSTANTS
  Emails,
  Requests,        \* requests in flight at a time
  MaxAttempts,     \* MAX_ATTEMPTS
  MaxLoginFails,   \* MAX_LOGIN_FAILS
  MaxCodes,        \* bound: codes issued
  Scenes           \* what is used, with which store, from where, of which
                   \* addresses, and a bound on the codes issued

None == "none"
Codes == 1 .. MaxCodes

ASSUME LimitsArePositive ==
  /\ MaxAttempts \in Nat \ {0} /\ MaxLoginFails \in Nat \ {0} /\ MaxCodes \in Nat
  /\ Scenes \subseteq [flow : {"signup", "setup", "login"}, redis : BOOLEAN, page : BOOLEAN,
                     emails : SUBSET Emails, codes : Codes]

ASSUME RequestsAssumption == IsFiniteSet(Requests)

VARIABLES
  scene,
  keys,       \* what is stored of an address
  issued,     \* codes made so far
  mailed,     \* the codes that reached the mailbox of an address
  accounts,   \* addresses with an account; in flow setup, with a password
  req,
  wrong,      \* history: wrong guesses since the counter was last cleared
  sent,       \* history: mails since the cooldown last began
  proved      \* history: addresses whose code was entered

store == <<keys, issued, mailed, accounts, wrong, sent, proved>>

\* A code of 0 is a missing key.
Nothing == [code |-> 0, attempts |-> 0, resend |-> FALSE, passed |-> FALSE, lock |-> FALSE]

Idle == [pc |-> "idle", from |-> "elsewhere", op |-> None, email |-> None, guess |-> 0, stored |-> 0]

PC == {"idle", "resend", "store", "clear", "hold", "mail", "undo code", "undo attempts",
       "undo resend", "code", "count", "drop code", "drop attempts", "pass", "consume",
       "lookup", "create", "compare", "lock", "unlock", "ok", "error"}

At(r, pc) == req[r].pc = pc
Key(r) == keys[req[r].email]
Goto(r, pc) == req' = [req EXCEPT ![r].pc = pc]

Begin(r, from, op, e, guess, pc) ==
  /\ At(r, "idle")
  /\ req' = [req EXCEPT ![r] = [pc |-> pc, from |-> from, op |-> op, email |-> e,
                                guess |-> guess, stored |-> 0]]

\* The page waits for its answer; nobody else's is looked at.
Reply(r, answer) ==
  req' = [req EXCEPT ![r] = IF @.from = "page" THEN [@ EXCEPT !.pc = answer] ELSE Idle]

\* The histories are kept where requests come from several places.
Count(n) == IF scene.page THEN 0 ELSE n
Cleared(r) == wrong' = [wrong EXCEPT ![req[r].email] = 0]
Started(r) == sent' = IF Key(r).resend THEN sent ELSE [sent EXCEPT ![req[r].email] = 0]

----------------------------------------------------------------------------
(* requestCode, requestPasswordSetup *)

\* There is no account with this address, or none with a password: else the
\* request is refused at once.  The captcha is left out.
Ask(r, from, op, e) ==
  /\ scene.flow = "signup" \/ (scene.flow = "setup" /\ scene.redis)
  /\ e \in accounts => from = "page"
  /\ Begin(r, from, op, e, 0, IF e \in accounts THEN "error" ELSE "resend")
  /\ UNCHANGED <<scene, store>>

NewCode(r) ==
  /\ issued < scene.codes
  /\ issued' = issued + 1
  /\ req' = [req EXCEPT ![r].pc = IF scene.redis THEN "clear" ELSE "mail",
                        ![r].stored = issued + 1]

AskCooldown(r) ==
  /\ At(r, "resend") /\ scene.redis
  /\ IF Key(r).resend THEN Reply(r, "error") ELSE Goto(r, "store")
  /\ UNCHANGED <<scene, store>>

\* Without Redis the new entry takes the place of the old one, its mark included.
AskInMemory(r) ==
  /\ At(r, "resend") /\ ~scene.redis
  /\ IF Key(r).resend
     THEN Reply(r, "error") /\ UNCHANGED <<keys, issued, wrong>>
     ELSE /\ NewCode(r)
          /\ keys' = [keys EXCEPT ![req[r].email] = [Nothing EXCEPT !.code = issued + 1, !.resend = TRUE]]
          /\ Cleared(r)
  /\ Started(r)
  /\ UNCHANGED <<scene, mailed, accounts, proved>>

AskStore(r) ==
  /\ At(r, "store") /\ NewCode(r)
  /\ keys' = [keys EXCEPT ![req[r].email].code = issued + 1]
  /\ UNCHANGED <<scene, mailed, accounts, wrong, sent, proved>>

AskClear(r) ==
  /\ At(r, "clear")
  /\ keys' = [keys EXCEPT ![req[r].email].attempts = 0] /\ Cleared(r)
  /\ Goto(r, "hold")
  /\ UNCHANGED <<scene, issued, mailed, accounts, sent, proved>>

\* Mutated form: no cooldown.
AskHoldNot(r) ==
  /\ At(r, "hold")
  /\ Goto(r, "mail")
  /\ UNCHANGED <<scene, store>>

AskHold(r) ==
  /\ At(r, "hold")
  /\ keys' = [keys EXCEPT ![req[r].email].resend = TRUE] /\ Started(r)
  /\ Goto(r, "mail")
  /\ UNCHANGED <<scene, issued, mailed, accounts, wrong, proved>>

AskMailed(r) ==
  /\ At(r, "mail")
  /\ mailed' = [mailed EXCEPT ![req[r].email] = @ \cup {req[r].stored}]
  /\ sent' = [sent EXCEPT ![req[r].email] = Count(@ + 1)]
  /\ Reply(r, "ok")
  /\ UNCHANGED <<scene, keys, issued, accounts, wrong, proved>>

\* The mail cannot be sent: the keys are removed, whosever they are by now.
AskUnmailed(r) ==
  /\ At(r, "mail")
  /\ IF scene.redis
     THEN Goto(r, "undo code") /\ UNCHANGED <<keys, wrong>>
     ELSE /\ keys' = [keys EXCEPT ![req[r].email] = Nothing]
          /\ Cleared(r) /\ Reply(r, "error")
  /\ UNCHANGED <<scene, issued, mailed, accounts, sent, proved>>

Undo(r) ==
  /\ \/ At(r, "undo code") /\ keys' = [keys EXCEPT ![req[r].email].code = 0] /\ Goto(r, "undo attempts") /\ UNCHANGED wrong
     \/ At(r, "undo attempts") /\ keys' = [keys EXCEPT ![req[r].email].attempts = 0] /\ Cleared(r) /\ Goto(r, "undo resend")
     \/ At(r, "undo resend") /\ keys' = [keys EXCEPT ![req[r].email].resend = FALSE] /\ Reply(r, "error") /\ UNCHANGED wrong
  /\ UNCHANGED <<scene, issued, mailed, accounts, sent, proved>>

----------------------------------------------------------------------------
(* verifyCode, verifyPasswordSetup *)

\* Mutated form: one attempt too many.
VerifyOneMore(r, from, e, guess) ==
  /\ scene.flow = "signup" \/ (scene.flow = "setup" /\ e \notin accounts)
  /\ guess \in mailed[e] \cup {0} /\ scene.redis
  /\ keys[e].attempts <= MaxAttempts
  /\ Begin(r, from, "verify", e, guess, "code")
  /\ UNCHANGED <<scene, store>>

\* A guess is a mailed code, or 0: a wrong one.
Verify(r, from, e, guess) ==
  /\ scene.flow = "signup" \/ (scene.flow = "setup" /\ e \notin accounts)
  /\ guess \in mailed[e] \cup {0} /\ scene.redis
  /\ keys[e].attempts < MaxAttempts
  /\ Begin(r, from, "verify", e, guess, "code")
  /\ UNCHANGED <<scene, store>>

\* Without Redis nothing is awaited.
VerifyInMemory(r, from, e, guess) ==
  /\ scene.flow = "signup" /\ ~scene.redis /\ guess \in mailed[e] \cup {0}
  /\ keys[e].code # 0 /\ keys[e].attempts < MaxAttempts
  /\ At(r, "idle")
  /\ LET right == guess = keys[e].code IN
     /\ keys' = IF right THEN [keys EXCEPT ![e].code = 0, ![e].attempts = 0, ![e].passed = TRUE]
                ELSE [keys EXCEPT ![e].attempts = @ + 1]
     /\ wrong' = [wrong EXCEPT ![e] = IF right THEN 0 ELSE Count(@ + 1)]
     /\ proved' = IF right THEN proved \cup {e} ELSE proved
     /\ req' = [req EXCEPT ![r] = IF from = "page"
                                  THEN [Idle EXCEPT !.pc = IF right THEN "ok" ELSE "error",
                                                    !.from = from, !.op = "verify", !.email = e]
                                  ELSE Idle]
  /\ UNCHANGED <<scene, issued, mailed, accounts, sent>>

VerifyRead(r) ==
  /\ At(r, "code")
  /\ IF Key(r).code = 0 THEN Reply(r, "error")
     ELSE req' = [req EXCEPT ![r].pc = "count", ![r].stored = Key(r).code]
  /\ UNCHANGED <<scene, store>>

\* The attempt is counted, and then the guess is compared with the code read before.
VerifyCount(r) ==
  /\ At(r, "count")
  /\ keys' = [keys EXCEPT ![req[r].email].attempts = Key(r).attempts + 1]
  /\ LET right == req[r].guess = req[r].stored IN
     /\ IF right THEN Goto(r, "drop code") ELSE Reply(r, "error")
     /\ wrong' = [wrong EXCEPT ![req[r].email] = IF right THEN @ ELSE Count(@ + 1)]
     /\ proved' = IF right THEN proved \cup {req[r].email} ELSE proved
  /\ UNCHANGED <<scene, issued, mailed, accounts, sent>>

VerifyDrop(r) ==
  /\ \/ At(r, "drop code") /\ keys' = [keys EXCEPT ![req[r].email].code = 0] /\ Goto(r, "drop attempts") /\ UNCHANGED wrong
     \/ At(r, "drop attempts") /\ keys' = [keys EXCEPT ![req[r].email].attempts = 0] /\ Cleared(r) /\ Goto(r, "pass")
  /\ UNCHANGED <<scene, issued, mailed, accounts, sent, proved>>

\* The mark of a proved address; in flow setup, the token that says the same.
VerifyPass(r) ==
  /\ At(r, "pass")
  /\ keys' = [keys EXCEPT ![req[r].email].passed = TRUE] /\ Reply(r, "ok")
  /\ UNCHANGED <<scene, issued, mailed, accounts, wrong, sent, proved>>

----------------------------------------------------------------------------
(* register, updateEmail (assertVerified, findUnique, create), changePassword *)
(* with a setup token                                                         *)

\* Mutated form: the mark is not asked for.
ClaimUnproved(r, from, e) ==
  /\ scene.flow = "signup"
  /\ Begin(r, from, "claim", e, 0, "lookup")
  /\ UNCHANGED <<scene, store>>

\* Without Redis the entry goes in the same step.
Claim(r, from, e) ==
  /\ scene.flow \in {"signup", "setup"} /\ keys[e].passed
  /\ scene.flow = "setup" => e \notin accounts
  /\ Begin(r, from, "claim", e, 0, IF scene.flow = "setup" THEN "create"
                                   ELSE IF scene.redis THEN "consume"
                                   ELSE "lookup")
  /\ keys' = IF scene.redis THEN keys ELSE [keys EXCEPT ![e] = Nothing]
  /\ wrong' = IF scene.redis THEN wrong ELSE [wrong EXCEPT ![e] = 0]
  /\ UNCHANGED <<scene, issued, mailed, accounts, sent, proved>>

ClaimConsume(r) ==
  /\ At(r, "consume")
  /\ keys' = [keys EXCEPT ![req[r].email].passed = FALSE] /\ Goto(r, "lookup")
  /\ UNCHANGED <<scene, issued, mailed, accounts, wrong, sent, proved>>

\* Also checkEmailAvailability, which ends here.
Lookup(r) ==
  /\ At(r, "lookup")
  /\ IF req[r].email \in accounts THEN Reply(r, "error")
     ELSE IF req[r].op = "check" THEN Reply(r, "ok")
     ELSE Goto(r, "create")
  /\ UNCHANGED <<scene, store>>

\* The address is unique; a password is written over another.
ClaimCreate(r) ==
  /\ At(r, "create")
  /\ Reply(r, IF scene.flow = "signup" /\ req[r].email \in accounts THEN "error" ELSE "ok")
  /\ accounts' = accounts \cup {req[r].email}
  /\ UNCHANGED <<scene, keys, issued, mailed, wrong, sent, proved>>

Check(r, from, e) ==
  /\ scene.flow = "signup"
  /\ Begin(r, from, "check", e, 0, "lookup")
  /\ UNCHANGED <<scene, store>>

----------------------------------------------------------------------------
(* loginInternal *)

Login(r, e) ==
  /\ scene.flow = "login" /\ ~keys[e].lock
  /\ Begin(r, "elsewhere", "login", e, 0, "compare")
  /\ UNCHANGED <<scene, store>>

\* A wrong password, or one of somebody who is no administrator at the login of
\* the administrators.
LoginWrong(r) ==
  /\ At(r, "compare")
  /\ wrong' = [wrong EXCEPT ![req[r].email] = @ + 1]
  /\ IF scene.redis
     THEN /\ keys' = [keys EXCEPT ![req[r].email].attempts = Key(r).attempts + 1]
          /\ IF Key(r).attempts + 1 >= MaxLoginFails THEN Goto(r, "lock") ELSE Reply(r, "error")
     ELSE UNCHANGED keys /\ Reply(r, "error")
  /\ UNCHANGED <<scene, issued, mailed, accounts, sent, proved>>

LoginLock(r) ==
  /\ At(r, "lock")
  /\ keys' = [keys EXCEPT ![req[r].email].lock = TRUE] /\ Reply(r, "error")
  /\ UNCHANGED <<scene, issued, mailed, accounts, wrong, sent, proved>>

LoginRight(r) ==
  /\ \/ At(r, "compare") /\ keys' = [keys EXCEPT ![req[r].email].attempts = 0] /\ Cleared(r) /\ Goto(r, "unlock")
     \/ At(r, "unlock") /\ keys' = [keys EXCEPT ![req[r].email].lock = FALSE] /\ Reply(r, "ok") /\ UNCHANGED wrong
  /\ UNCHANGED <<scene, issued, mailed, accounts, sent, proved>>

----------------------------------------------------------------------------
\* A request fails between two commands, or its answer is lost on the way.  (One
\* that fails when it should lock leaves that to the next wrong password.)
Fail(r) ==
  /\ req[r].pc \notin {"idle", "lock", "error"}
  /\ Reply(r, "error")
  /\ UNCHANGED <<scene, store>>

\* The lives of the keys run out: the counter outlives the code it counts for
\* (ATTEMPT_TTL > CODE_TTL), and a lock the failures it was set for.
Expire(e) ==
  /\ \/ keys[e].code # 0 /\ keys' = [keys EXCEPT ![e].code = 0] /\ UNCHANGED wrong
     \/ /\ keys[e].attempts > 0 /\ keys[e].code = 0
        /\ keys' = [keys EXCEPT ![e].attempts = 0]
        /\ wrong' = [wrong EXCEPT ![e] = 0]
     \/ keys[e].resend /\ keys' = [keys EXCEPT ![e].resend = FALSE] /\ UNCHANGED wrong
     \/ keys[e].passed /\ keys' = [keys EXCEPT ![e].passed = FALSE] /\ UNCHANGED wrong
     \/ /\ keys[e].lock /\ keys[e].attempts = 0
        /\ keys' = [keys EXCEPT ![e].lock = FALSE] /\ UNCHANGED wrong
  /\ UNCHANGED <<scene, issued, mailed, accounts, sent, req, proved>>

StoreInit ==
  /\ scene \in Scenes
  /\ keys = [e \in Emails |-> Nothing] /\ issued = 0 /\ mailed = [e \in Emails |-> {}]
  /\ accounts = {}
  /\ req = [r \in Requests |-> Idle]
  /\ wrong = [e \in Emails |-> 0] /\ sent = [e \in Emails |-> 0] /\ proved = {}

\* What a request that has begun does next.
Proceed(r) ==
  \/ AskCooldown(r) \/ AskInMemory(r) \/ AskStore(r) \/ AskClear(r) \/ AskHold(r)
  \/ AskMailed(r) \/ AskUnmailed(r) \/ Undo(r)
  \/ VerifyRead(r) \/ VerifyCount(r) \/ VerifyDrop(r) \/ VerifyPass(r)
  \/ ClaimConsume(r) \/ Lookup(r) \/ ClaimCreate(r)
  \/ LoginWrong(r) \/ LoginLock(r) \/ LoginRight(r)
  \/ Fail(r)

\* Requests that come from other tabs and other people.
Arrive(r, e) ==
  /\ ~scene.page
  /\ \/ Ask(r, "elsewhere", "ask", e)
     \/ \E guess \in Codes \cup {0} : \/ Verify(r, "elsewhere", e, guess)
                                      \/ VerifyInMemory(r, "elsewhere", e, guess)
     \/ Claim(r, "elsewhere", e)
     \/ Login(r, e)

----------------------------------------------------------------------------
(***************************************************************************)
(* However requests overlap, the wrong codes taken before the counter is   *)
(* cleared exceed the limit by the requests in flight beside the last one; *)
(* the wrong passwords by as many for every login that succeeded earlier   *)
(* and removes the lock set since, which lets the others and itself try    *)
(* again: with n requests, by 1 + 2 + ... + n in all.                      *)
(***************************************************************************)
GuessesBounded ==
  \A e \in Emails :
    /\ scene.flow = "login" /\ scene.redis =>
         2 * (wrong[e] - (MaxLoginFails - 1)) <= Cardinality(Requests) * (Cardinality(Requests) + 1)
    /\ scene.flow # "login" /\ scene.redis => wrong[e] <= MaxAttempts - 1 + Cardinality(Requests)
    /\ scene.flow # "login" /\ ~scene.redis => wrong[e] <= MaxAttempts

(***************************************************************************)
(* Within a cooldown an address gets one mail, and one more only from each *)
(* request that had passed the check before the cooldown began.            *)
(***************************************************************************)
MailsBounded == \A e \in Emails : sent[e] <= Cardinality(Requests)

(***************************************************************************)
(* An account has an address, and an account without a password gets one,  *)
(* only when the code mailed to that address was entered.                  *)
(***************************************************************************)
AccountsProved == accounts \subseteq proved
=============================================================================
