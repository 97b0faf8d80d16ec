------------------------------- MODULE Signup -------------------------------
(***************************************************************************)
(* The page that signs up a user by e-mail (register/page.tsx): address,   *)
(* code, nickname, password, done; on top of the requests it sends to the  *)
(* backend (Verification).  Answers come late and in any order, the page   *)
(* is reloaded, and handlers go on after the user has turned back.         *)
(***************************************************************************)
EXTENDS Verification

VARIABLE page

vars == <<scene, keys, issued, mailed, accounts, req, wrong, sent, proved, page>>

\* clock: 2 while the code lives and a new one must be waited for, 1 while the
\* code lives, 0 afterwards.
Fresh == [step |-> 1, input |-> None, checked |-> None, email |-> None, saved |-> None, code |-> "idle", form |-> FALSE, checking |-> FALSE,
          resending |-> FALSE, due |-> FALSE, clock |-> 0]

Waiting(r) == req[r].from = "page" /\ req[r].pc \in {"ok", "error"}

----------------------------------------------------------------------------
(* What the user does *)

\* What the buttons of the steps allow.
CodeFormOpen     == page.step = 2 /\ page.code = "idle" /\ page.clock > 0
MayResend        == page.step = 2 /\ page.code = "idle" /\ page.clock < 2 /\ ~page.resending
MayGoBack        == page.step = 2 /\ page.code # "loading"
NicknameFormOpen == page.step = 3
PasswordFormOpen == page.step = 4 /\ ~page.form
MayLeave         == page.step # 5

TypeEmail(e) ==
  /\ page.step = 1 /\ page.input # e
  /\ page' = [page EXCEPT !.input = e, !.checked = None]
  /\ UNCHANGED <<scene, store, req>>

onCheckEmail(r) ==
  /\ page.step = 1 /\ page.input # None /\ ~page.checking
  /\ Check(r, "page", page.input)
  /\ page' = [page EXCEPT !.checking = TRUE]

\* Mutated form: the form can be sent while it is busy.
onStep1SubmitBusy(r) ==
  /\ page.step = 1 /\ page.input # None /\ page.checked = page.input
  /\ Ask(r, "page", "ask", page.input)
  /\ UNCHANGED page

onStep1Submit(r) ==
  /\ page.step = 1 /\ page.input # None /\ page.checked = page.input
  /\ ~page.form
  /\ Ask(r, "page", "ask", page.input)
  /\ page' = [page EXCEPT !.form = TRUE]

onStep2Submit(r, guess) ==
  /\ CodeFormOpen
  /\ Verify(r, "page", page.email, guess) \/ VerifyInMemory(r, "page", page.email, guess)
  /\ page' = [page EXCEPT !.code = "loading"]

onResend(r) ==
  /\ MayResend
  /\ Ask(r, "page", "again", page.email)
  /\ page' = [page EXCEPT !.resending = TRUE]

goBackToEmailStep ==
  /\ MayGoBack
  /\ page' = [page EXCEPT !.step = 1, !.input = page.email, !.checked = None, !.saved = None,
                         !.code = "idle", !.form = FALSE, !.checking = FALSE,
                         !.resending = FALSE, !.clock = 0]
  /\ UNCHANGED <<scene, store, req>>

onStep3Submit ==
  /\ NicknameFormOpen
  /\ page' = [page EXCEPT !.step = 4]
  /\ UNCHANGED <<scene, store, req>>

onStep4Submit(r) ==
  /\ PasswordFormOpen
  /\ Claim(r, "page", page.email)
  /\ page' = [page EXCEPT !.form = TRUE]

\* The page is opened again: answers still to come are lost.
Open(kept) ==
  /\ page' = kept
  /\ req' = [r \in Requests |-> IF Waiting(r) THEN Idle ELSE [req[r] EXCEPT !.from = "elsewhere"]]
  /\ UNCHANGED <<scene, store>>

\* The address of a code that is still alive is restored.
Reload ==
  /\ page # Fresh
  /\ Open(IF page.saved # None /\ page.clock > 0
          THEN [Fresh EXCEPT !.step = 2, !.email = page.saved, !.saved = page.saved, !.clock = page.clock]
          ELSE Fresh)

\* To the login page (resetRegisterState) and back.
Leave == page # Fresh /\ MayLeave /\ Open(Fresh)

----------------------------------------------------------------------------
(* What the answers do *)

Take(r) == req' = [req EXCEPT ![r] = Idle]

Checked(r) ==
  /\ Waiting(r) /\ req[r].op = "check" /\ Take(r)
  /\ page' = [page EXCEPT !.checking = FALSE,
                         !.checked = IF req[r].pc = "ok" /\ page.step = 1 THEN req[r].email ELSE None]
  /\ UNCHANGED <<scene, store>>

\* Of the request sent in step 1, and of the one sent again in step 2.
CodeSent(r) ==
  /\ Waiting(r) /\ req[r].op = "ask" /\ Take(r)
  /\ page' = IF req[r].pc = "error" THEN [page EXCEPT !.form = FALSE]
             ELSE [page EXCEPT !.step = 2, !.email = req[r].email, !.saved = req[r].email,
                               !.clock = 2, !.form = FALSE, !.input = None, !.checked = None]
  /\ UNCHANGED <<scene, store>>

CodeResent(r) ==
  /\ Waiting(r) /\ req[r].op = "again" /\ Take(r)
  /\ page' = IF req[r].pc = "error" THEN [page EXCEPT !.resending = FALSE]
             ELSE [page EXCEPT !.saved = req[r].email, !.clock = 2,
                               !.code = "idle", !.resending = FALSE]
  /\ UNCHANGED <<scene, store>>

\* The next step follows a moment later, whatever the page shows by then.
CodeVerified(r) ==
  /\ Waiting(r) /\ req[r].op = "verify" /\ Take(r)
  /\ page' = IF req[r].pc = "error" THEN [page EXCEPT !.code = "idle"]
             ELSE [page EXCEPT !.saved = None, !.code = "success", !.due = TRUE]
  /\ UNCHANGED <<scene, store>>

Advance ==
  /\ page.due
  /\ page' = [page EXCEPT !.due = FALSE, !.step = 3, !.code = "idle",
                         !.input = None, !.checked = None]
  /\ UNCHANGED <<scene, store, req>>

Registered(r) ==
  /\ Waiting(r) /\ req[r].op = "claim" /\ Take(r)
  /\ page' = [page EXCEPT !.form = FALSE, !.step = IF req[r].pc = "error" THEN @ ELSE 5]
  /\ UNCHANGED <<scene, store>>

\* startTimer
Tick ==
  /\ page.clock > 0
  /\ page' = [page EXCEPT !.clock = @ - 1]
  /\ UNCHANGED <<scene, store, req>>
----------------------------------------------------------------------------
Answered(r) == Checked(r) \/ CodeSent(r) \/ CodeResent(r) \/ CodeVerified(r) \/ Registered(r)

Init == StoreInit /\ page = Fresh

User ==
  /\ scene.page
  /\ \/ \E e \in scene.emails : TypeEmail(e)
     \/ goBackToEmailStep \/ onStep3Submit \/ Reload \/ Leave
     \/ \E r \in Requests : \/ onCheckEmail(r) \/ onStep1Submit(r) \/ onResend(r) \/ onStep4Submit(r)
                            \/ \E guess \in Codes \cup {0} : onStep2Submit(r, guess)

Next ==
  \/ User \/ Advance \/ Tick
  \/ \E r \in Requests : Answered(r)
  \/ /\ UNCHANGED page
     /\ \/ \E r \in Requests : Proceed(r) \/ \E e \in scene.emails : Arrive(r, e)
        \/ \E e \in scene.emails : Expire(e)

Spec == Init /\ [][Next]_vars

(***************************************************************************)
(* The page says that the account was made only when there is one for the  *)
(* address it shows.                                                       *)
(***************************************************************************)
SuccessIsReal == page.step = 5 => page.email \in accounts
=============================================================================
