---------------------------- MODULE SignupProofs ----------------------------
(***************************************************************************)
(* Proofs about Signup, and so about Verification, for any addresses,      *)
(* limits, number of codes and number of requests, in whatever scene.      *)
(***************************************************************************)
EXTENDS Signup, FiniteSetTheorems, TLAPS

USE LimitsArePositive, RequestsAssumption

-----------------------------------------------------------------------------
(* Types *)

Entry == [code : Codes \cup {0}, attempts : Nat, resend : BOOLEAN, passed : BOOLEAN, lock : BOOLEAN]

Asking   == {"resend", "store", "clear", "hold", "mail", "undo code", "undo attempts", "undo resend"}
Counting == {"code", "count"}
Trusted  == {"drop code", "drop attempts", "pass"}
Ended    == {"ok", "error"}

Request == [pc : PC, from : {"page", "elsewhere"},
            op : {None, "ask", "again", "verify", "claim", "check", "login"},
            email : Emails \cup {None}, guess : Codes \cup {0}, stored : Codes \cup {0}]

\* Where a request of each kind can be, and in which scenes s there are such requests.
Stages ==
    ({None} \X {"idle"})
    \cup ({"ask", "again"} \X (Asking \cup Ended))
    \cup ({"verify"} \X (Counting \cup Trusted \cup Ended))
    \cup ({"claim"} \X ({"consume", "lookup", "create"} \cup Ended))
    \cup ({"check"} \X ({"lookup"} \cup Ended))
    \cup ({"login"} \X ({"compare", "lock", "unlock"} \cup Ended))

Proper(q, s) ==
    /\ q \in Request
    /\ <<q.op, q.pc>> \in Stages
    /\ q.op # None => q.email \in Emails
    /\ q.op = None => q.from = "elsewhere"
    /\ q.op # None => (q.op = "login" <=> s.flow = "login")
    /\ q.pc \in {"store"} \cup Counting => s.redis

RequestsOK == req \in [Requests -> Request] /\ \A r \in Requests : Proper(req[r], scene)

StoreOK ==
    /\ scene \in Scenes
    /\ keys \in [Emails -> Entry]
    /\ issued \in Codes \cup {0}
    /\ mailed \in [Emails -> SUBSET (Codes \cup {0})]
    /\ accounts \subseteq Emails
    /\ wrong \in [Emails -> Nat] /\ sent \in [Emails -> Nat]
    /\ proved \subseteq Emails

Form == [step : {1, 2, 3, 4, 5}, input : Emails \cup {None}, checked : Emails \cup {None},
         email : Emails \cup {None}, saved : Emails \cup {None},
         code : {"idle", "loading", "success"}, form : BOOLEAN, checking : BOOLEAN,
         resending : BOOLEAN, due : BOOLEAN, clock : {0, 1, 2}]

\* Where the page goes on with its address, it has one.
PageOK ==
    /\ page \in Form
    /\ page.step # 1 \/ page.due => page.email \in Emails
    /\ \A r \in Requests : req[r].from = "page" /\ req[r].op \in {"verify", "claim"} => page.email \in Emails

TypeInv == StoreOK /\ RequestsOK /\ PageOK

-----------------------------------------------------------------------------
(* What a step does to the requests *)

\* Request r alone goes on: it is over, or the same request at another place.
Turned(r) ==
    /\ req' \in [Requests -> Request]
    /\ \A o \in Requests \ {r} : req'[o] = req[o]
    /\ Proper(req'[r], scene)
    /\ \/ req'[r] = Idle
       \/ /\ req'[r].op = req[r].op /\ req'[r].email = req[r].email
          /\ req'[r].from = req[r].from

LEMMA GoesTo ==
    ASSUME TypeInv, NEW r \in Requests, NEW pc \in PC, <<req[r].op, pc>> \in Stages,
           pc \notin {"store"} \cup Counting \/ scene.redis, Goto(r, pc)
    PROVE  Turned(r) /\ req'[r].pc = pc /\ req'[r].op = req[r].op
<1>1. req'[r] = [req[r] EXCEPT !.pc = pc] /\ req' = [req EXCEPT ![r] = [req[r] EXCEPT !.pc = pc]]
  BY DEF TypeInv, RequestsOK, Goto
<1>2. req[r] \in Request /\ Proper(req[r], scene)
  BY DEF TypeInv, RequestsOK
<1>3. req'[r] \in Request
  BY <1>1, <1>2 DEF Request
<1>4. /\ req'[r].pc = pc /\ req'[r].op = req[r].op /\ req'[r].email = req[r].email
      /\ req'[r].from = req[r].from
  BY <1>1, <1>2 DEF Request
<1>5. req' \in [Requests -> Request] /\ \A o \in Requests \ {r} : req'[o] = req[o]
  BY <1>1, <1>3 DEF TypeInv, RequestsOK
<1> QED BY <1>2, <1>3, <1>4, <1>5 DEF Turned, Proper

LEMMA GoesWith ==
    ASSUME TypeInv, NEW r \in Requests, NEW pc \in PC, NEW n \in Codes \cup {0},
           <<req[r].op, pc>> \in Stages, pc \notin {"store"} \cup Counting \/ scene.redis,
           req' = [req EXCEPT ![r].pc = pc, ![r].stored = n]
    PROVE  Turned(r) /\ req'[r].pc = pc /\ req'[r].op = req[r].op
<1> DEFINE q == [req[r] EXCEPT !.pc = pc, !.stored = n]
<1>1. req' = [req EXCEPT ![r] = q]
  BY DEF TypeInv, RequestsOK
<1>2. req[r] \in Request /\ Proper(req[r], scene)
  BY DEF TypeInv, RequestsOK
<1>3. q \in Request
  BY <1>2 DEF Request
<1>4. q.pc = pc /\ q.op = req[r].op /\ q.email = req[r].email /\ q.from = req[r].from
  BY <1>2 DEF Request
<1> HIDE DEF q
<1>5. req' \in [Requests -> Request] /\ req'[r] = q /\ \A o \in Requests \ {r} : req'[o] = req[o]
  BY <1>1, <1>3 DEF TypeInv, RequestsOK
<1> QED BY <1>2, <1>3, <1>4, <1>5 DEF Turned, Proper

LEMMA Replies ==
    ASSUME TypeInv, NEW r \in Requests, NEW answer \in Ended, req[r].op # None, Reply(r, answer)
    PROVE  /\ Turned(r)
           /\ req'[r] = Idle \/ (req'[r].pc = answer /\ req'[r].op = req[r].op)
<1>1. CASE req[r].from = "page"
  <2>1. req' = [req EXCEPT ![r] = [req[r] EXCEPT !.pc = answer]]
    BY <1>1 DEF TypeInv, RequestsOK, Reply
  <2>2. Goto(r, answer)
    BY <2>1 DEF TypeInv, RequestsOK, Goto
  <2>3. req[r].op \in {"ask", "again", "verify", "claim", "check", "login"}
    BY DEF TypeInv, RequestsOK, Request
  <2>4. <<req[r].op, answer>> \in Stages
    BY <2>3 DEF Stages, Ended
  <2>5. answer \in PC /\ answer \notin {"store"} \cup Counting
    BY DEF Ended, PC, Counting
  <2> QED BY <2>2, <2>4, <2>5, GoesTo
<1>2. CASE req[r].from # "page"
  <2>1. req' = [req EXCEPT ![r] = Idle]
    BY <1>2 DEF TypeInv, RequestsOK, Reply
  <2>2. Idle \in Request /\ Proper(Idle, scene)
    BY DEF Idle, Request, Proper, PC, Stages, Counting, None
  <2> QED BY <2>1, <2>2 DEF TypeInv, RequestsOK, Turned
<1> QED BY <1>1, <1>2

LEMMA StagesOf ==
    ASSUME TypeInv, NEW r \in Requests
    PROVE  /\ req[r].pc \in Asking => req[r].op \in {"ask", "again"}
           /\ req[r].pc \in Counting \cup Trusted => req[r].op = "verify"
           /\ req[r].pc \in {"consume", "create"} => req[r].op = "claim"
           /\ req[r].pc = "lookup" => req[r].op \in {"claim", "check"}
           /\ req[r].pc \in {"compare", "lock", "unlock"} => req[r].op = "login"
           /\ req[r].pc # "idle" => req[r].op # None /\ req[r].email \in Emails
           /\ req[r].pc \in PC /\ req[r].stored \in Codes \cup {0}
<1>1. <<req[r].op, req[r].pc>> \in Stages /\ req[r] \in Request /\ (req[r].op # None => req[r].email \in Emails)
  BY DEF TypeInv, RequestsOK, Proper
<1>2. req[r].pc \in PC /\ req[r].stored \in Codes \cup {0}
  BY <1>1 DEF Request
<1> QED BY <1>1, <1>2 DEF Stages, Asking, Counting, Trusted, Ended, None

LEMMA ScenesTyped ==
    ASSUME TypeInv
    PROVE  /\ scene.redis \in BOOLEAN /\ scene.page \in BOOLEAN /\ scene.emails \subseteq Emails
           /\ scene.flow \in {"signup", "setup", "login"}
           /\ issued < scene.codes => issued + 1 \in Codes \cup {0}
           /\ \A n \in Nat : Count(n) \in 0 .. n
<1>1. scene \in [flow : {"signup", "setup", "login"}, redis : BOOLEAN, page : BOOLEAN,
                emails : SUBSET Emails, codes : Codes]
  BY DEF TypeInv, StoreOK
<1>2. issued \in Codes \cup {0}
  BY DEF TypeInv, StoreOK
<1>3. scene.codes \in Codes
  BY <1>1
<1>4. issued < scene.codes => issued + 1 \in Codes \cup {0}
  BY <1>2, <1>3 DEF Codes
<1>5. \A n \in Nat : Count(n) \in 0 .. n
  BY DEF Count
<1> QED BY <1>1, <1>4, <1>5

LEMMA Places ==
    /\ \A op \in {"ask", "again"}, pc \in Asking \cup Ended : <<op, pc>> \in Stages
    /\ \A pc \in Counting \cup Trusted \cup Ended : <<"verify", pc>> \in Stages
    /\ \A pc \in {"consume", "lookup", "create"} : <<"claim", pc>> \in Stages
    /\ \A pc \in {"compare", "lock", "unlock"} : <<"login", pc>> \in Stages
  BY DEF Stages

\* The places it goes to, unless it is over.
Moves == {<<"resend", "store">>, <<"resend", "mail">>, <<"store", "clear">>, <<"clear", "hold">>,
          <<"hold", "mail">>, <<"mail", "undo code">>, <<"undo code", "undo attempts">>,
          <<"undo attempts", "undo resend">>, <<"code", "count">>, <<"count", "drop code">>,
          <<"drop code", "drop attempts">>, <<"drop attempts", "pass">>, <<"consume", "lookup">>,
          <<"lookup", "create">>, <<"compare", "lock">>, <<"compare", "unlock">>}

\* What a request that has begun does leads to the same request, or to none.
LEMMA Turns ==
    ASSUME TypeInv, NEW r \in Requests, Proceed(r)
    PROVE  Turned(r) /\ (req'[r].pc \in Ended \cup {"idle"} \/ <<req[r].pc, req'[r].pc>> \in Moves)
<1> USE StagesOf, Places DEF At
<1>0. Idle.pc = "idle"
  BY DEF Idle
<1>1. CASE AskCooldown(r)
  BY <1>0, <1>1, Replies, GoesTo DEF AskCooldown, Asking, Ended, PC, Counting, Moves
<1>2. CASE AskInMemory(r)
  <2>1. CASE Key(r).resend
    BY <1>0, <1>2, <2>1, Replies DEF AskInMemory, Asking, Ended, Moves
  <2>2. CASE ~Key(r).resend
    <3>1. NewCode(r) /\ ~scene.redis /\ req[r].pc = "resend"
      BY <1>2, <2>2 DEF AskInMemory
    <3>2. issued + 1 \in Codes \cup {0} /\ req' = [req EXCEPT ![r].pc = "mail", ![r].stored = issued + 1]
      BY <3>1, ScenesTyped DEF NewCode
    <3> QED BY ZenonT(30), <1>0, <3>1, <3>2, GoesWith DEF Asking, PC, Counting, Moves
  <2> QED BY <2>1, <2>2
<1>3. CASE AskStore(r)
  <2>1. NewCode(r) /\ scene.redis /\ req[r].pc = "store"
    BY <1>3 DEF AskStore, TypeInv, RequestsOK, Proper
  <2>2. issued + 1 \in Codes \cup {0} /\ req' = [req EXCEPT ![r].pc = "clear", ![r].stored = issued + 1]
    BY <2>1, ScenesTyped DEF NewCode
  <2> QED BY ZenonT(30), <2>1, <2>2, GoesWith DEF Asking, PC, Counting, Moves
<1>4. CASE AskClear(r)
  BY <1>0, <1>4, GoesTo DEF AskClear, Asking, PC, Counting, Moves
<1>5. CASE AskHold(r)
  BY <1>0, <1>5, GoesTo DEF AskHold, Asking, PC, Counting, Moves
<1>6. CASE AskMailed(r)
  BY <1>0, <1>6, Replies DEF AskMailed, Asking, Ended, Moves
<1>7. CASE AskUnmailed(r)
  BY <1>0, <1>7, Replies, GoesTo DEF AskUnmailed, Asking, Ended, PC, Counting, Moves
<1>8. CASE Undo(r)
  BY <1>0, <1>8, Replies, GoesTo DEF Undo, Asking, Ended, PC, Counting, Moves
<1>9. CASE VerifyRead(r)
  <2>1. CASE Key(r).code = 0
    BY <1>0, <1>9, <2>1, Replies DEF VerifyRead, Counting, Ended, Moves
  <2>2. CASE Key(r).code # 0
    <3>1. Key(r).code \in Codes \cup {0} /\ scene.redis
      BY <1>9 DEF VerifyRead, TypeInv, StoreOK, Entry, Key, RequestsOK, Proper, Counting
    <3>2. req' = [req EXCEPT ![r].pc = "count", ![r].stored = Key(r).code] /\ req[r].pc = "code"
      BY <1>9, <2>2 DEF VerifyRead
    <3> QED BY ZenonT(30), <1>0, <3>1, <3>2, GoesWith DEF Counting, PC, Moves
  <2> QED BY <2>1, <2>2
<1>10. CASE VerifyCount(r)
  BY <1>0, <1>10, Replies, GoesTo DEF VerifyCount, Counting, Trusted, Ended, PC, Moves
<1>11. CASE VerifyDrop(r)
  BY <1>0, <1>11, GoesTo DEF VerifyDrop, Counting, Trusted, PC, Moves
<1>12. CASE VerifyPass(r)
  BY <1>0, <1>12, Replies DEF VerifyPass, Trusted, Ended, Moves
<1>13. CASE ClaimConsume(r)
  BY <1>0, <1>13, GoesTo DEF ClaimConsume, PC, Counting, Moves
<1>14. CASE Lookup(r)
  BY <1>0, <1>14, Replies, GoesTo DEF Lookup, Ended, PC, Counting, Moves
<1>15. CASE ClaimCreate(r)
  BY <1>0, <1>15, Replies DEF ClaimCreate, Ended, Moves
<1>16. CASE LoginWrong(r)
  BY <1>0, <1>16, Replies, GoesTo DEF LoginWrong, Ended, PC, Counting, Moves
<1>17. CASE LoginLock(r)
  BY <1>0, <1>17, Replies DEF LoginLock, Ended, Moves
<1>18. CASE LoginRight(r)
  BY <1>0, <1>18, Replies, GoesTo DEF LoginRight, Ended, PC, Counting, Moves
<1>19. CASE Fail(r)
  BY <1>0, <1>19, Replies DEF Fail, Ended, Moves
<1> QED
  BY <1>1, <1>2, <1>3, <1>4, <1>5, <1>6, <1>7, <1>8, <1>9, <1>10, <1>11, <1>12, <1>13,
     <1>14, <1>15, <1>16, <1>17, <1>18, <1>19 DEF Proceed

\* Entries with a field written anew are entries.
LEMMA EntriesOf ==
    ASSUME TypeInv, NEW e \in Emails
    PROVE  /\ keys[e] \in Entry /\ Nothing \in Entry
           /\ \A n \in Codes \cup {0} : [keys EXCEPT ![e].code = n] \in [Emails -> Entry]
           /\ \A n \in Nat : [keys EXCEPT ![e].attempts = n] \in [Emails -> Entry]
           /\ \A b \in BOOLEAN : /\ [keys EXCEPT ![e].resend = b] \in [Emails -> Entry]
                                 /\ [keys EXCEPT ![e].passed = b] \in [Emails -> Entry]
                                 /\ [keys EXCEPT ![e].lock = b] \in [Emails -> Entry]
           /\ \A k \in Entry : [keys EXCEPT ![e] = k] \in [Emails -> Entry]
<1>1. keys \in [Emails -> Entry] /\ keys[e] \in Entry
  BY DEF TypeInv, StoreOK
<1>2. Nothing \in Entry
  BY DEF Nothing, Entry
<1>3. \A n \in Codes \cup {0} : [keys EXCEPT ![e].code = n] \in [Emails -> Entry]
  BY <1>1 DEF Entry
<1>4. \A n \in Nat : [keys EXCEPT ![e].attempts = n] \in [Emails -> Entry]
  BY <1>1 DEF Entry
<1>5. \A b \in BOOLEAN : [keys EXCEPT ![e].resend = b] \in [Emails -> Entry]
  BY <1>1 DEF Entry
<1>6. \A b \in BOOLEAN : [keys EXCEPT ![e].passed = b] \in [Emails -> Entry]
  BY <1>1 DEF Entry
<1>7. \A b \in BOOLEAN : [keys EXCEPT ![e].lock = b] \in [Emails -> Entry]
  BY <1>1 DEF Entry
<1>8. \A k \in Entry : [keys EXCEPT ![e] = k] \in [Emails -> Entry]
  BY <1>1
<1> QED BY <1>1, <1>2, <1>3, <1>4, <1>5, <1>6, <1>7, <1>8

LEMMA ProceedStore ==
    ASSUME TypeInv, NEW r \in Requests, Proceed(r)
    PROVE  StoreOK'
<1> DEFINE e == req[r].email
           Others == /\ scene \in Scenes /\ issued \in Codes \cup {0} /\ accounts \subseteq Emails
                     /\ mailed \in [Emails -> SUBSET (Codes \cup {0})]
                     /\ keys \in [Emails -> Entry]
                     /\ wrong \in [Emails -> Nat] /\ sent \in [Emails -> Nat] /\ proved \subseteq Emails
<1>0. Others /\ (StoreOK' <=> Others')
  BY DEF TypeInv, StoreOK
<1>1. CASE req[r].pc = "idle" \/ UNCHANGED <<scene, store>>
  <2>1. UNCHANGED <<scene, store>>
    <3>1. ASSUME req[r].pc = "idle" PROVE FALSE
      BY <3>1 DEF Proceed, At, AskCooldown, AskInMemory, AskStore, AskClear, AskHold, AskMailed,
         AskUnmailed, Undo, VerifyRead, VerifyCount, VerifyDrop, VerifyPass, ClaimConsume, Lookup,
         ClaimCreate, LoginWrong, LoginLock, LoginRight, Fail
    <3> QED BY <1>1, <3>1
  <2> QED BY <1>0, <2>1 DEF store
<1>2. CASE req[r].pc # "idle" /\ ~UNCHANGED <<scene, store>>
  <2>1. e \in Emails /\ keys[e] \in Entry /\ Nothing \in Entry /\ Key(r) = keys[e]
    BY <1>2, StagesOf, EntriesOf DEF Key
  <2>2. /\ [wrong EXCEPT ![e] = 0] \in [Emails -> Nat] /\ [sent EXCEPT ![e] = 0] \in [Emails -> Nat]
        /\ Cleared(r) => wrong' \in [Emails -> Nat]
        /\ Started(r) => sent' \in [Emails -> Nat]
    BY <1>0, <2>1 DEF Cleared, Started
  <2>3. Count(sent[e] + 1) \in Nat /\ Count(wrong[e] + 1) \in Nat /\ wrong[e] + 1 \in Nat
    BY <1>0, <2>1, ScenesTyped
  <2>4. keys[e].attempts + 1 \in Nat /\ keys[e].attempts \in Nat
    BY <2>1 DEF Entry
  <2>5. issued < scene.codes => issued + 1 \in Codes \cup {0}
    BY ScenesTyped
  <2>6. req[r].stored \in Codes \cup {0}
    BY StagesOf
  <2>22. /\ [keys EXCEPT ![e].code = 0] \in [Emails -> Entry]
         /\ [keys EXCEPT ![e].attempts = 0] \in [Emails -> Entry]
         /\ [keys EXCEPT ![e].resend = FALSE] \in [Emails -> Entry]
         /\ [keys EXCEPT ![e].lock = FALSE] \in [Emails -> Entry]
         /\ [keys EXCEPT ![e] = Nothing] \in [Emails -> Entry]
    BY <2>1, EntriesOf
  <2> USE <1>0, <2>1, EntriesOf
  <2>7. CASE AskInMemory(r)
    <3>1. issued' \in Codes \cup {0} /\ wrong' \in [Emails -> Nat] /\ sent' \in [Emails -> Nat]
      BY <2>7, <2>2, <2>5 DEF AskInMemory, NewCode
    <3>2. keys' \in [Emails -> Entry]
      <4>1. issued < scene.codes => [Nothing EXCEPT !.code = issued + 1, !.resend = TRUE] \in Entry
        BY <2>5 DEF Nothing, Entry
      <4>2. keys' = keys \/ (issued < scene.codes /\ keys' = [keys EXCEPT ![e] =
                                [Nothing EXCEPT !.code = issued + 1, !.resend = TRUE]])
        BY <2>7 DEF AskInMemory, NewCode
      <4> QED BY <4>1, <4>2
    <3> QED BY <2>7, <3>1, <3>2 DEF AskInMemory
  <2>8. CASE AskStore(r)
    BY <2>8, <2>5 DEF AskStore, NewCode
  <2>9. CASE AskClear(r)
    BY <2>9, <2>2 DEF AskClear
  <2>10. CASE AskHold(r)
    BY <2>10, <2>2 DEF AskHold
  <2>11. CASE AskMailed(r)
    BY <2>11, <2>3, <2>6 DEF AskMailed
  <2>12. CASE AskUnmailed(r)
    <3>1. CASE scene.redis
      BY <2>12, <3>1 DEF AskUnmailed
    <3>2. CASE ~scene.redis
      BY <2>12, <2>22, <2>2, <3>2 DEF AskUnmailed
    <3> QED BY <3>1, <3>2
  <2>13. CASE Undo(r)
    <3>1. CASE At(r, "undo code")
      BY <2>13, <2>22, <3>1 DEF Undo, At
    <3>2. CASE At(r, "undo attempts")
      BY <2>13, <2>22, <3>2, <2>2 DEF Undo, At
    <3>3. CASE At(r, "undo resend")
      BY <2>13, <2>22, <3>3 DEF Undo, At
    <3> QED BY <2>13, <3>1, <3>2, <3>3 DEF Undo
  <2>14. CASE VerifyCount(r)
    <3>1. keys' \in [Emails -> Entry] /\ proved' \subseteq Emails
      BY <2>14, <2>4 DEF VerifyCount
    <3>2. wrong' \in [Emails -> Nat]
      BY <2>14, <2>3 DEF VerifyCount
    <3> QED BY <2>14, <3>1, <3>2 DEF VerifyCount
  <2>15. CASE VerifyDrop(r)
    <3>1. CASE At(r, "drop code")
      BY <2>15, <2>22, <3>1 DEF VerifyDrop, At
    <3>2. CASE At(r, "drop attempts")
      BY <2>15, <2>22, <3>2, <2>2 DEF VerifyDrop, At
    <3> QED BY <2>15, <3>1, <3>2 DEF VerifyDrop
  <2>16. CASE VerifyPass(r)
    BY <2>16 DEF VerifyPass
  <2>17. CASE ClaimConsume(r)
    BY <2>17 DEF ClaimConsume
  <2>18. CASE ClaimCreate(r)
    BY <2>18 DEF ClaimCreate
  <2>19. CASE LoginWrong(r)
    BY SMTT(30), <2>19, <2>3, <2>4 DEF LoginWrong
  <2>20. CASE LoginLock(r)
    BY <2>20 DEF LoginLock
  <2>21. CASE LoginRight(r)
    <3>1. CASE At(r, "compare")
      BY <2>21, <2>22, <3>1, <2>2 DEF LoginRight, At
    <3>2. CASE At(r, "unlock")
      BY <2>21, <2>22, <3>2 DEF LoginRight, At
    <3> QED BY <2>21, <3>1, <3>2 DEF LoginRight
  <2> QED
    BY <1>2, <2>7, <2>8, <2>9, <2>10, <2>11, <2>12, <2>13, <2>14, <2>15, <2>16, <2>17, <2>18,
       <2>19, <2>20, <2>21 DEF Proceed, AskCooldown, VerifyRead, Lookup, Fail
<1> QED BY <1>1, <1>2

\* Request r begins, or its answer comes in the same step and nobody waits for it.
Began(r, from, op, e) ==
    /\ req[r].pc = "idle"
    /\ req' \in [Requests -> Request]
    /\ \A o \in Requests \ {r} : req'[o] = req[o]
    /\ Proper(req'[r], scene)
    /\ \/ req'[r] = Idle
       \/ req'[r].op = op /\ req'[r].email = e /\ req'[r].from = from

LEMMA Begins ==
    ASSUME TypeInv, NEW r \in Requests, NEW from \in {"page", "elsewhere"},
           NEW op \in {"ask", "again", "verify", "claim", "check", "login"}, NEW e \in Emails,
           NEW guess \in Codes \cup {0}, NEW pc \in PC, <<op, pc>> \in Stages,
           op = "login" <=> scene.flow = "login", pc \notin {"store"} \cup Counting \/ scene.redis,
           Begin(r, from, op, e, guess, pc)
    PROVE  Began(r, from, op, e) /\ req'[r].pc = pc /\ req'[r].op = op /\ req'[r].email = e
<1> DEFINE q == [pc |-> pc, from |-> from, op |-> op, email |-> e, guess |-> guess, stored |-> 0]
<1>1. q \in Request /\ q.pc = pc /\ q.from = from /\ q.op = op /\ q.email = e
  BY DEF Request
<1>2. req' = [req EXCEPT ![r] = q] /\ req[r].pc = "idle"
  BY DEF Begin, At
<1> HIDE DEF q
<1>3. req' \in [Requests -> Request] /\ req'[r] = q /\ \A o \in Requests \ {r} : req'[o] = req[o]
  BY <1>1, <1>2 DEF TypeInv, RequestsOK
<1>4. Proper(q, scene)
  BY <1>1 DEF Proper, None
<1> QED BY <1>1, <1>2, <1>3, <1>4 DEF Began

LEMMA Asks ==
    ASSUME TypeInv, NEW r \in Requests, NEW from \in {"page", "elsewhere"},
           NEW op \in {"ask", "again"}, NEW e \in Emails, Ask(r, from, op, e)
    PROVE  /\ Began(r, from, op, e) /\ StoreOK' /\ UNCHANGED <<scene, store>>
           /\ req'[r].pc \in {"resend", "error"} /\ req'[r].op = op /\ req'[r].email = e
<1> DEFINE pc == IF e \in accounts THEN "error" ELSE "resend"
<1>1. UNCHANGED <<scene, store>> /\ scene.flow # "login"
  BY DEF Ask
<1>2. Begin(r, from, op, e, 0, pc)
  BY DEF Ask
<1>3. pc \in PC /\ <<op, pc>> \in Stages /\ pc \notin {"store"} \cup Counting /\ 0 \in Codes \cup {0}
  BY Places DEF PC, Counting, Asking, Ended
<1> HIDE DEF pc
<1>4. op \in {"ask", "again", "verify", "claim", "check", "login"} /\ (op = "login" <=> scene.flow = "login")
  BY <1>1
<1>5. Began(r, from, op, e) /\ req'[r].pc = pc /\ req'[r].op = op /\ req'[r].email = e
  BY <1>2, <1>3, <1>4, Begins
<1>6. StoreOK'
  BY <1>1 DEF TypeInv, StoreOK, store
<1> QED BY <1>1, <1>5, <1>6 DEF pc

LEMMA Verifies ==
    ASSUME TypeInv, NEW r \in Requests, NEW from \in {"page", "elsewhere"}, NEW e \in Emails,
           NEW guess \in Codes \cup {0}, Verify(r, from, e, guess)
    PROVE  /\ Began(r, from, "verify", e) /\ StoreOK' /\ UNCHANGED <<scene, store>>
           /\ req'[r].pc = "code" /\ req'[r].op = "verify" /\ req'[r].email = e
<1>1. UNCHANGED <<scene, store>> /\ scene.flow # "login" /\ scene.redis
  BY DEF Verify
<1>2. Begin(r, from, "verify", e, guess, "code")
  BY DEF Verify
<1>3. "code" \in PC /\ <<"verify", "code">> \in Stages
  BY Places DEF PC, Counting
<1>4. Began(r, from, "verify", e) /\ req'[r].pc = "code" /\ req'[r].op = "verify" /\ req'[r].email = e
  BY <1>1, <1>2, <1>3, Begins
<1>5. StoreOK'
  BY <1>1 DEF TypeInv, StoreOK, store
<1> QED BY <1>1, <1>4, <1>5

LEMMA VerifiesInMemory ==
    ASSUME TypeInv, NEW r \in Requests, NEW from \in {"page", "elsewhere"}, NEW e \in Emails,
           NEW guess \in Codes \cup {0}, VerifyInMemory(r, from, e, guess)
    PROVE  /\ Began(r, from, "verify", e) /\ StoreOK'
           /\ req'[r] = Idle \/ (req'[r].pc \in Ended /\ req'[r].op = "verify")
<1> DEFINE right == guess = keys[e].code
           q == [Idle EXCEPT !.pc = IF right THEN "ok" ELSE "error",
                             !.from = from, !.op = "verify", !.email = e]
<1>1. /\ q \in Request /\ q.pc \in Ended /\ q.from = from /\ q.op = "verify" /\ q.email = e
      /\ Idle \in Request
  BY DEF Request, Idle, Ended, PC
<1>2. scene.flow = "signup" /\ Proper(Idle, scene)
  BY <1>1 DEF VerifyInMemory, Proper, Idle, Stages, Counting, None
<1>3. Proper(q, scene)
  <2> HIDE DEF q
  <2>1. <<"verify", q.pc>> \in Stages /\ q.pc \notin {"store"} \cup Counting
    BY <1>1, Places DEF Counting, Ended
  <2> QED BY <1>1, <1>2, <2>1 DEF Proper, None
<1>4. req' = [req EXCEPT ![r] = q] \/ req' = [req EXCEPT ![r] = Idle]
  BY DEF VerifyInMemory
<1>5. req[r].pc = "idle"
  BY DEF VerifyInMemory, At
<1> HIDE DEF q
<1>6. /\ req' \in [Requests -> Request] /\ req'[r] \in {q, Idle}
      /\ \A o \in Requests \ {r} : req'[o] = req[o]
  BY <1>1, <1>4 DEF TypeInv, RequestsOK
<1>7. Began(r, from, "verify", e) /\ (req'[r] = Idle \/ (req'[r].pc \in Ended /\ req'[r].op = "verify"))
  BY <1>1, <1>2, <1>3, <1>5, <1>6 DEF Began
<1>8. StoreOK'
  <2>1. keys' \in [Emails -> Entry]
    <3>1. keys[e] \in Entry /\ \A k \in Entry : [keys EXCEPT ![e] = k] \in [Emails -> Entry]
      BY EntriesOf
    <3>2. keys \in [Emails -> Entry]
      BY DEF TypeInv, StoreOK
    <3>3. CASE guess = keys[e].code
      <4>1. keys' = [keys EXCEPT ![e].code = 0, ![e].attempts = 0, ![e].passed = TRUE]
        BY <3>3 DEF VerifyInMemory
      <4> QED BY ZenonT(30), <3>2, <4>1 DEF Entry
    <3>4. CASE guess # keys[e].code
      <4>1. keys' = [keys EXCEPT ![e].attempts = keys[e].attempts + 1]
        BY <3>2, <3>4 DEF VerifyInMemory
      <4> QED BY <3>1, <3>2, <4>1 DEF Entry
    <3> QED BY <3>3, <3>4
  <2>2. wrong' \in [Emails -> Nat] /\ proved' \subseteq Emails
    <3>1. Count(wrong[e] + 1) \in Nat /\ wrong \in [Emails -> Nat] /\ proved \subseteq Emails
      BY ScenesTyped DEF TypeInv, StoreOK
    <3>2. wrong' = [wrong EXCEPT ![e] = 0] \/ wrong' = [wrong EXCEPT ![e] = Count(wrong[e] + 1)]
      BY <3>1 DEF VerifyInMemory
    <3> QED BY <3>1, <3>2 DEF VerifyInMemory
  <2> QED BY <2>1, <2>2 DEF VerifyInMemory, TypeInv, StoreOK
<1> QED BY <1>7, <1>8

LEMMA Claims ==
    ASSUME TypeInv, NEW r \in Requests, NEW from \in {"page", "elsewhere"}, NEW e \in Emails,
           Claim(r, from, e)
    PROVE  /\ Began(r, from, "claim", e) /\ StoreOK'
           /\ req'[r].pc \in {"create", "consume", "lookup"} /\ req'[r].op = "claim" /\ req'[r].email = e
<1> DEFINE pc == IF scene.flow = "setup" THEN "create" ELSE IF scene.redis THEN "consume" ELSE "lookup"
<1>1. scene.flow # "login" /\ Begin(r, from, "claim", e, 0, pc)
  BY DEF Claim
<1>2. pc \in {"create", "consume", "lookup"}
  OBVIOUS
<1> HIDE DEF pc
<1>3. pc \in PC /\ <<"claim", pc>> \in Stages /\ pc \notin {"store"} \cup Counting
  BY <1>2, Places DEF PC, Counting
<1>4. Began(r, from, "claim", e) /\ req'[r].pc = pc /\ req'[r].op = "claim" /\ req'[r].email = e
  BY <1>1, <1>3, Begins
<1>5. StoreOK'
  <2>1. keys' = keys \/ keys' = [keys EXCEPT ![e] = Nothing]
    BY DEF Claim
  <2>2. wrong' = wrong \/ wrong' = [wrong EXCEPT ![e] = 0]
    BY DEF Claim
  <2>3. keys' \in [Emails -> Entry] /\ wrong' \in [Emails -> Nat]
    BY <2>1, <2>2, EntriesOf DEF TypeInv, StoreOK
  <2> QED BY <2>3 DEF Claim, TypeInv, StoreOK
<1> QED BY <1>2, <1>4, <1>5

LEMMA Checks ==
    ASSUME TypeInv, NEW r \in Requests, NEW from \in {"page", "elsewhere"}, NEW e \in Emails,
           Check(r, from, e)
    PROVE  /\ Began(r, from, "check", e) /\ StoreOK' /\ UNCHANGED <<scene, store>>
           /\ req'[r].pc = "lookup" /\ req'[r].op = "check" /\ req'[r].email = e
<1>1. UNCHANGED <<scene, store>> /\ scene.flow # "login" /\ Begin(r, from, "check", e, 0, "lookup")
  BY DEF Check
<1>2. "lookup" \in PC /\ <<"check", "lookup">> \in Stages /\ "lookup" \notin {"store"} \cup Counting
  BY DEF PC, Counting, Stages
<1>3. Began(r, from, "check", e) /\ req'[r].pc = "lookup" /\ req'[r].op = "check" /\ req'[r].email = e
  BY <1>1, <1>2, Begins
<1>4. StoreOK'
  BY <1>1 DEF TypeInv, StoreOK, store
<1> QED BY <1>1, <1>3, <1>4

LEMMA Logins ==
    ASSUME TypeInv, NEW r \in Requests, NEW e \in Emails, Login(r, e)
    PROVE  /\ Began(r, "elsewhere", "login", e) /\ StoreOK' /\ UNCHANGED <<scene, store>>
           /\ req'[r].pc = "compare" /\ req'[r].op = "login" /\ req'[r].email = e
<1>1. UNCHANGED <<scene, store>> /\ scene.flow = "login" /\ Begin(r, "elsewhere", "login", e, 0, "compare")
  BY DEF Login
<1>2. "compare" \in PC /\ <<"login", "compare">> \in Stages /\ "compare" \notin {"store"} \cup Counting
  BY Places DEF PC, Counting
<1>3. Began(r, "elsewhere", "login", e) /\ req'[r].pc = "compare" /\ req'[r].op = "login" /\ req'[r].email = e
  BY <1>1, <1>2, Begins
<1>4. StoreOK'
  BY <1>1 DEF TypeInv, StoreOK, store
<1> QED BY <1>1, <1>3, <1>4

LEMMA Takes ==
    ASSUME TypeInv, NEW r \in Requests, Take(r)
    PROVE  Turned(r) /\ req'[r] = Idle
<1>1. Idle \in Request /\ Proper(Idle, scene)
  BY DEF Idle, Request, Proper, PC, Stages, Counting, None
<1>2. req' = [req EXCEPT ![r] = Idle]
  BY DEF Take
<1> QED BY <1>1, <1>2 DEF TypeInv, RequestsOK, Turned

\* The page is opened again: every request goes on without it, or is forgotten.
LEMMA Opens ==
    ASSUME TypeInv, NEW kept, Open(kept)
    PROVE  /\ RequestsOK' /\ UNCHANGED <<scene, store>> /\ page' = kept
           /\ \A o \in Requests : /\ req'[o].from = "elsewhere"
                                  /\ \/ req'[o] = Idle /\ req[o].pc \in Ended
                                     \/ /\ req'[o].pc = req[o].pc /\ req'[o].op = req[o].op
                                        /\ req'[o].email = req[o].email
<1>1. UNCHANGED <<scene, store>> /\ page' = kept
  BY DEF Open
<1>2. req' = [o \in Requests |-> IF Waiting(o) THEN Idle ELSE [req[o] EXCEPT !.from = "elsewhere"]]
  BY DEF Open
<1>3. Idle \in Request /\ Proper(Idle, scene) /\ Idle.from = "elsewhere"
  BY DEF Idle, Request, Proper, PC, Stages, Counting, None
<1>4. ASSUME NEW o \in Requests
      PROVE  /\ Proper(req'[o], scene) /\ req'[o] \in Request
             /\ req'[o].from = "elsewhere"
             /\ \/ req'[o] = Idle /\ req[o].pc \in Ended
                \/ /\ req'[o].pc = req[o].pc /\ req'[o].op = req[o].op
                   /\ req'[o].email = req[o].email
  <2>1. CASE Waiting(o)
    BY <1>2, <1>3, <2>1 DEF Waiting, Ended
  <2>2. CASE ~Waiting(o)
    <3> DEFINE q == [req[o] EXCEPT !.from = "elsewhere"]
    <3>1. req[o] \in Request /\ Proper(req[o], scene)
      BY DEF TypeInv, RequestsOK
    <3>2. /\ q \in Request /\ q.from = "elsewhere" /\ q.pc = req[o].pc /\ q.op = req[o].op
          /\ q.email = req[o].email
      BY <3>1 DEF Request
    <3>3. req'[o] = q
      BY <1>2, <2>2
    <3> HIDE DEF q
    <3> QED BY <3>1, <3>2, <3>3 DEF Proper
  <2> QED BY <2>1, <2>2
<1>5. req' \in [Requests -> Request]
  <2> DEFINE f(o) == IF Waiting(o) THEN Idle ELSE [req[o] EXCEPT !.from = "elsewhere"]
  <2>1. \A o \in Requests : req'[o] = f(o)
    BY <1>2
  <2> HIDE DEF f
  <2>2. req' = [o \in Requests |-> f(o)]
    BY <1>2 DEF f
  <2> QED BY <1>4, <2>1, <2>2
<1> QED BY <1>1, <1>4, <1>5 DEF RequestsOK

LEMMA RequestsStay ==
    ASSUME TypeInv, UNCHANGED scene, NEW r \in Requests, NEW from, NEW op, NEW e,
           Turned(r) \/ Began(r, from, op, e)
    PROVE  RequestsOK'
  BY DEF TypeInv, RequestsOK, Turned, Began

\* Steps of the backend, the page looking on.
LEMMA ProceedTypes ==
    ASSUME TypeInv, UNCHANGED page, NEW r \in Requests, Proceed(r)
    PROVE  TypeInv' /\ UNCHANGED scene
<1>1. Turned(r) /\ StoreOK'
  BY Turns, ProceedStore
<1>2. UNCHANGED scene
  BY DEF Proceed, AskCooldown, AskInMemory, AskStore, AskClear, AskHold, AskMailed,
     AskUnmailed, Undo, VerifyRead, VerifyCount, VerifyDrop, VerifyPass, ClaimConsume, Lookup,
     ClaimCreate, LoginWrong, LoginLock, LoginRight, Fail
<1>3. PageOK'
  <2>1. \A o \in Requests : req'[o].from = "page" /\ req'[o].op \in {"verify", "claim"}
                              => req[o].from = "page" /\ req[o].op \in {"verify", "claim"}
    BY <1>1 DEF Turned, Idle
  <2> QED BY <2>1 DEF TypeInv, PageOK
<1> QED BY <1>1, <1>2, <1>3, RequestsStay DEF TypeInv

LEMMA ArriveTypes ==
    ASSUME TypeInv, UNCHANGED page, NEW r \in Requests, NEW e \in scene.emails, Arrive(r, e)
    PROVE  TypeInv' /\ UNCHANGED scene
<1>1. e \in Emails
  BY ScenesTyped
<1>2. StoreOK' /\ \E op \in {"ask", "verify", "claim", "login"} : Began(r, "elsewhere", op, e)
  BY <1>1, Asks, Verifies, VerifiesInMemory, Claims, Logins DEF Arrive
<1>3. UNCHANGED scene
  BY DEF Arrive, Ask, Verify, VerifyInMemory, Claim, Login
<1>4. PageOK'
  <2>1. \A o \in Requests : req'[o].from = "page" /\ req'[o].op \in {"verify", "claim"}
                              => req[o].from = "page" /\ req[o].op \in {"verify", "claim"}
    BY <1>2 DEF Began, Idle
  <2> QED BY <2>1 DEF TypeInv, PageOK
<1> QED BY <1>2, <1>3, <1>4, RequestsStay DEF TypeInv

LEMMA ExpireTypes ==
    ASSUME TypeInv, UNCHANGED page, NEW e \in Emails, Expire(e)
    PROVE  TypeInv'
<1>1. /\ [keys EXCEPT ![e].code = 0] \in [Emails -> Entry]
      /\ [keys EXCEPT ![e].attempts = 0] \in [Emails -> Entry]
      /\ [keys EXCEPT ![e].resend = FALSE] \in [Emails -> Entry]
      /\ [keys EXCEPT ![e].passed = FALSE] \in [Emails -> Entry]
      /\ [keys EXCEPT ![e].lock = FALSE] \in [Emails -> Entry]
      /\ wrong \in [Emails -> Nat] /\ [wrong EXCEPT ![e] = 0] \in [Emails -> Nat]
  BY EntriesOf DEF TypeInv, StoreOK
<1>2. keys' \in [Emails -> Entry] /\ wrong' \in [Emails -> Nat]
  BY <1>1 DEF Expire
<1>3. UNCHANGED <<scene, issued, mailed, accounts, sent, req, proved>>
  BY DEF Expire
<1> QED BY <1>2, <1>3 DEF TypeInv, StoreOK, RequestsOK, PageOK

LEMMA UserTypes ==
    ASSUME TypeInv, User
    PROVE  TypeInv'
<1>0. page \in Form /\ (page.step # 1 \/ page.due => page.email \in Emails)
  BY DEF TypeInv, PageOK
<1>1. ASSUME page' \in Form, UNCHANGED <<scene, store, req>>, page'.email = page.email,
             page'.due = page.due, page'.step = 1 \/ page.step # 1
      PROVE  TypeInv'
  <2>1. PageOK'
    BY <1>1 DEF TypeInv, PageOK
  <2> QED BY <1>1, <2>1 DEF TypeInv, StoreOK, store, RequestsOK
<1>2. ASSUME NEW e \in scene.emails, TypeEmail(e) PROVE TypeInv'
  <2>1. page' = [page EXCEPT !.input = e, !.checked = None] /\ e \in Emails
    BY <1>2, ScenesTyped DEF TypeEmail
  <2>2. /\ page' \in Form /\ page'.email = page.email /\ page'.due = page.due
        /\ page'.step = page.step
    BY <1>0, <2>1 DEF Form
  <2> QED BY <1>1, <1>2, <2>2 DEF TypeEmail
<1>3. CASE goBackToEmailStep
  <2>1. /\ page' \in Form /\ page'.email = page.email /\ page'.due = page.due
        /\ page'.step = 1
    <3> DEFINE p == [page EXCEPT !.step = 1, !.input = page.email, !.checked = None, !.saved = None,
                                 !.code = "idle"]
    <3>1. p \in Form /\ p.email = page.email /\ p.due = page.due /\ p.step = 1
      BY <1>0 DEF Form
    <3>2. page' = [p EXCEPT !.form = FALSE, !.checking = FALSE, !.resending = FALSE, !.clock = 0]
      BY <1>3 DEF goBackToEmailStep
    <3> HIDE DEF p
    <3> QED BY <3>1, <3>2 DEF Form
  <2> QED BY <1>1, <1>3, <2>1 DEF goBackToEmailStep
<1>4. CASE onStep3Submit
  <2>1. /\ page' \in Form /\ page'.email = page.email /\ page'.due = page.due
        /\ page.step # 1
    BY <1>0, <1>4 DEF onStep3Submit, NicknameFormOpen, Form
  <2> QED BY <1>1, <1>4, <2>1 DEF onStep3Submit
<1>5. CASE Reload \/ Leave
  <2> DEFINE restored == [Fresh EXCEPT !.step = 2, !.email = page.saved, !.saved = page.saved,
                                       !.clock = page.clock]
  <2>1. Fresh \in Form /\ Fresh.step = 1 /\ ~Fresh.due
    BY DEF Fresh, Form
  <2>2. page.saved # None => restored \in Form /\ restored.email \in Emails
    <3>1. page.saved \in Emails \cup {None} /\ page.clock \in {0, 1, 2}
      BY <1>0 DEF Form
    <3> QED BY <2>1, <3>1 DEF Form
  <2>3. PICK kept : Open(kept) /\ (kept = Fresh \/ (page.saved # None /\ kept = restored))
    BY <1>5 DEF Reload, Leave
  <2> HIDE DEF restored
  <2>4. RequestsOK' /\ UNCHANGED <<scene, store>> /\ page' = kept
        /\ \A o \in Requests : req'[o].from = "elsewhere"
    BY <2>3, Opens
  <2>5. PageOK'
    BY <2>1, <2>2, <2>3, <2>4 DEF PageOK
  <2> QED BY <2>4, <2>5 DEF TypeInv, StoreOK, store
<1>6. ASSUME NEW r \in Requests, NEW op \in {"ask", "again", "verify", "claim", "check"},
             NEW e \in Emails, Began(r, "page", op, e), StoreOK', UNCHANGED scene,
             page' \in Form, page'.email = page.email, page'.due = page.due, page'.step = page.step,
             op \in {"verify", "claim"} => page.email \in Emails
      PROVE  TypeInv'
  <2>1. RequestsOK'
    BY <1>6, RequestsStay
  <2>2. \A o \in Requests : req'[o].from = "page" /\ req'[o].op \in {"verify", "claim"}
          => (req[o].from = "page" /\ req[o].op \in {"verify", "claim"}) \/ op \in {"verify", "claim"}
    BY <1>6 DEF Began, Idle
  <2>3. PageOK'
    BY <1>0, <1>6, <2>2 DEF TypeInv, PageOK
  <2> QED BY <1>6, <2>1, <2>3 DEF TypeInv
<1>7. ASSUME NEW r \in Requests, onCheckEmail(r) PROVE TypeInv'
  <2>1. page.input \in Emails /\ Check(r, "page", page.input)
    BY <1>0, <1>7 DEF onCheckEmail, Form
  <2>2. Began(r, "page", "check", page.input) /\ StoreOK' /\ UNCHANGED scene
    BY <2>1, Checks
  <2>3. page' \in Form /\ page'.email = page.email /\ page'.due = page.due /\ page'.step = page.step
    BY <1>0, <1>7 DEF onCheckEmail, Form
  <2> QED BY <1>6, <2>1, <2>2, <2>3
<1>8. ASSUME NEW r \in Requests, onStep1Submit(r) PROVE TypeInv'
  <2>1. page.input \in Emails /\ Ask(r, "page", "ask", page.input)
    BY <1>0, <1>8 DEF onStep1Submit, Form
  <2>2. Began(r, "page", "ask", page.input) /\ StoreOK' /\ UNCHANGED scene
    BY <2>1, Asks
  <2>3. page' \in Form /\ page'.email = page.email /\ page'.due = page.due /\ page'.step = page.step
    BY <1>0, <1>8 DEF onStep1Submit, Form
  <2> QED BY <1>6, <2>1, <2>2, <2>3
<1>9. ASSUME NEW r \in Requests, onResend(r) PROVE TypeInv'
  <2>1. page.email \in Emails /\ Ask(r, "page", "again", page.email)
    BY <1>0, <1>9 DEF onResend, MayResend
  <2>2. Began(r, "page", "again", page.email) /\ StoreOK' /\ UNCHANGED scene
    BY <2>1, Asks
  <2>3. page' \in Form /\ page'.email = page.email /\ page'.due = page.due /\ page'.step = page.step
    BY <1>0, <1>9 DEF onResend, Form
  <2> QED BY <1>6, <2>1, <2>2, <2>3
<1>10. ASSUME NEW r \in Requests, onStep4Submit(r) PROVE TypeInv'
  <2>1. page.email \in Emails /\ Claim(r, "page", page.email)
    BY <1>0, <1>10 DEF onStep4Submit, PasswordFormOpen
  <2>2. Began(r, "page", "claim", page.email) /\ StoreOK' /\ UNCHANGED scene
    BY <2>1, Claims DEF Claim
  <2>3. page' \in Form /\ page'.email = page.email /\ page'.due = page.due /\ page'.step = page.step
    BY <1>0, <1>10 DEF onStep4Submit, Form
  <2> QED BY <1>6, <2>1, <2>2, <2>3
<1>11. ASSUME NEW r \in Requests, NEW guess \in Codes \cup {0}, onStep2Submit(r, guess) PROVE TypeInv'
  <2>1. page.email \in Emails
    BY <1>0, <1>11 DEF onStep2Submit, CodeFormOpen
  <2>2. Began(r, "page", "verify", page.email) /\ StoreOK' /\ UNCHANGED scene
    BY <1>11, <2>1, Verifies, VerifiesInMemory DEF onStep2Submit, Verify, VerifyInMemory
  <2>3. page' \in Form /\ page'.email = page.email /\ page'.due = page.due /\ page'.step = page.step
    BY <1>0, <1>11 DEF onStep2Submit, Form
  <2> QED BY <1>6, <2>1, <2>2, <2>3
<1> QED BY <1>2, <1>3, <1>4, <1>5, <1>7, <1>8, <1>9, <1>10, <1>11 DEF User

LEMMA ClockTypes ==
    ASSUME TypeInv, Advance \/ Tick
    PROVE  TypeInv'
<1>0. page \in Form /\ (page.step # 1 \/ page.due => page.email \in Emails)
  BY DEF TypeInv, PageOK
<1>1. page' \in Form /\ page'.email = page.email /\ (page'.step # 1 \/ page'.due => page.email \in Emails)
  <2>1. CASE Advance
    <3>1. page' = [page EXCEPT !.due = FALSE, !.step = 3, !.code = "idle", !.input = None, !.checked = None]
      BY <2>1 DEF Advance
    <3>2. page' \in Form
      BY <1>0, <3>1 DEF Form
    <3>3. page'.email = page.email
      BY <1>0, <3>1 DEF Form
    <3>4. page.due
      BY <2>1 DEF Advance
    <3> QED BY <1>0, <3>2, <3>3, <3>4
  <2>2. CASE Tick
    <3>1. page.clock - 1 \in {0, 1, 2} /\ page' = [page EXCEPT !.clock = page.clock - 1]
      BY <1>0, <2>2 DEF Tick, Form
    <3> QED BY <1>0, <3>1 DEF Form
  <2> QED BY <2>1, <2>2
<1>2. UNCHANGED <<scene, store, req>>
  BY DEF Advance, Tick
<1>3. PageOK'
  BY <1>1, <1>2 DEF TypeInv, PageOK
<1> QED BY <1>2, <1>3 DEF TypeInv, StoreOK, store, RequestsOK

LEMMA AnswerTypes ==
    ASSUME TypeInv, NEW r \in Requests, Answered(r)
    PROVE  TypeInv'
<1>0. page \in Form /\ (page.step # 1 \/ page.due => page.email \in Emails)
  BY DEF TypeInv, PageOK
<1>1. Take(r) /\ UNCHANGED <<scene, store>> /\ req[r].from = "page" /\ req[r].op # None
  BY DEF Answered, Checked, CodeSent, CodeResent, CodeVerified, Registered, Waiting, None
<1>2. Turned(r) /\ RequestsOK' /\ req[r].email \in Emails
  BY <1>1, Takes, RequestsStay DEF TypeInv, RequestsOK, Proper
<1>3. \A o \in Requests : req'[o].from = "page" /\ req'[o].op \in {"verify", "claim"}
        => req[o].from = "page" /\ req[o].op \in {"verify", "claim"} /\ page.email \in Emails
  BY <1>2 DEF Turned, Idle, TypeInv, PageOK
<1>4. page' \in Form /\ (page'.step # 1 \/ page'.due => page'.email \in Emails)
        /\ (page.email \in Emails => page'.email \in Emails)
  <2>1. CASE Checked(r)
    BY <1>0, <1>2, <2>1 DEF Checked, Form
  <2>2. CASE CodeSent(r)
    <3>1. CASE req[r].pc = "error"
      BY <1>0, <2>2, <3>1 DEF CodeSent, Form
    <3>2. CASE req[r].pc # "error"
      BY <1>0, <1>2, <2>2, <3>2 DEF CodeSent, Form
    <3> QED BY <3>1, <3>2
  <2>3. CASE CodeResent(r)
    <3>1. CASE req[r].pc = "error"
      BY <1>0, <2>3, <3>1 DEF CodeResent, Form
    <3>2. CASE req[r].pc # "error"
      BY <1>0, <1>2, <2>3, <3>2 DEF CodeResent, Form
    <3> QED BY <3>1, <3>2
  <2>4. CASE CodeVerified(r)
    <3>1. page.email \in Emails
      BY <1>1, <2>4 DEF CodeVerified, TypeInv, PageOK
    <3> QED BY <1>0, <2>4, <3>1 DEF CodeVerified, Form
  <2>5. CASE Registered(r)
    <3>1. page.email \in Emails
      BY <1>1, <2>5 DEF Registered, TypeInv, PageOK
    <3> QED BY <1>0, <2>5, <3>1 DEF Registered, Form
  <2> QED BY <2>1, <2>2, <2>3, <2>4, <2>5 DEF Answered
<1>5. PageOK'
  BY <1>3, <1>4 DEF PageOK
<1> QED BY <1>1, <1>2, <1>5 DEF TypeInv, StoreOK, store

LEMMA TypeInit == Init => TypeInv
<1> SUFFICES ASSUME Init PROVE TypeInv
  OBVIOUS
<1>1. StoreOK
  BY DEF Init, StoreInit, StoreOK, Nothing, Entry
<1>2. RequestsOK
  <2>1. Idle \in Request /\ Proper(Idle, scene)
    BY DEF Idle, Request, Proper, PC, Stages, Counting, None
  <2> QED BY <2>1 DEF Init, StoreInit, RequestsOK
<1>3. PageOK
  BY DEF Init, StoreInit, PageOK, Fresh, Form, Idle
<1> QED BY <1>1, <1>2, <1>3 DEF TypeInv

LEMMA TypeNext == TypeInv /\ [Next]_vars => TypeInv'
<1> SUFFICES ASSUME TypeInv, [Next]_vars PROVE TypeInv'
  OBVIOUS
<1>1. CASE UNCHANGED vars
  BY <1>1 DEF vars, TypeInv, StoreOK, RequestsOK, PageOK
<1>2. CASE Next
  <2>1. \A e \in scene.emails : e \in Emails
    BY ScenesTyped
  <2>2. CASE User
    BY <2>2, UserTypes
  <2>3. CASE Advance \/ Tick
    BY <2>3, ClockTypes
  <2>4. ASSUME NEW r \in Requests, Answered(r) PROVE TypeInv'
    BY <2>4, AnswerTypes
  <2>5. ASSUME UNCHANGED page, NEW r \in Requests, Proceed(r) PROVE TypeInv'
    BY <2>5, ProceedTypes
  <2>6. ASSUME UNCHANGED page, NEW r \in Requests, NEW e \in scene.emails, Arrive(r, e) PROVE TypeInv'
    BY <2>6, ArriveTypes
  <2>7. ASSUME UNCHANGED page, NEW e \in scene.emails, Expire(e) PROVE TypeInv'
    BY <2>1, <2>7, ExpireTypes
  <2> QED BY <1>2, <2>2, <2>3, <2>4, <2>5, <2>6, <2>7 DEF Next
<1> QED BY <1>1, <1>2

(***************************************************************************)
(* Types: entries, requests and the page have the shapes the code gives    *)
(* them, a request is only where one of its kind can be, and a page that   *)
(* goes on with an address has one.                                        *)
(***************************************************************************)
THEOREM TypeCorrect == Spec => []TypeInv
<1>1. Init => TypeInv
  BY TypeInit
<1>2. TypeInv /\ [Next]_vars => TypeInv'
  BY TypeNext
<1> QED BY <1>1, <1>2, PTL DEF Spec

-----------------------------------------------------------------------------
(* Addresses are proved before they are used                                *)

\* A request that has entered the right code, or has used the mark it leaves.
Sure(q) == q.pc \in Trusted \cup {"consume", "create"} \/ (q.pc = "lookup" /\ q.op = "claim")

ProvedInv ==
    /\ accounts \subseteq proved
    /\ \A e \in Emails : keys[e].passed => e \in proved
    /\ \A r \in Requests : Sure(req[r]) => req[r].email \in proved

\* What a step of the backend needs to keep it.
LEMMA ProvedBy ==
    ASSUME TypeInv, ProvedInv, NEW r \in Requests, NEW from, NEW op, NEW e,
           Turned(r) \/ Began(r, from, op, e),
           proved \subseteq proved', accounts' \subseteq proved',
           \A x \in Emails : keys'[x].passed => x \in proved',
           Sure(req'[r]) => req'[r].email \in proved'
    PROVE  ProvedInv'
  BY DEF ProvedInv, Turned, Began

LEMMA ProvedProceed ==
    ASSUME TypeInv, ProvedInv, NEW r \in Requests, Proceed(r)
    PROVE  ProvedInv'
<1> USE StagesOf, Places DEF At
<1>0. Turned(r) /\ keys \in [Emails -> Entry] /\ ProvedInv /\ proved \subseteq Emails
  BY Turns DEF TypeInv, StoreOK
<1>1. ~Sure(Idle)
  BY DEF Sure, Idle, Trusted
<1>2. ASSUME UNCHANGED accounts, UNCHANGED proved, ~Sure(req'[r]) \/ Sure(req[r]),
             \A x \in Emails : keys'[x].passed => keys[x].passed
      PROVE  ProvedInv'
  <2>1. Sure(req'[r]) => req'[r].email \in proved'
    BY <1>0, <1>1, <1>2 DEF ProvedInv, Turned
  <2> QED BY <1>0, <1>2, <2>1, ProvedBy DEF ProvedInv
<1>3. ASSUME NEW a \in Ended, req[r].pc # "idle", Reply(r, a)
      PROVE  ~Sure(req'[r])
  BY <1>1, <1>3, Replies DEF Sure, Trusted, Ended
<1>4. ASSUME NEW pc \in PC, <<req[r].op, pc>> \in Stages, pc \notin {"store"} \cup Counting \/ scene.redis,
             Goto(r, pc), pc \notin Trusted \cup {"consume", "create", "lookup"}
      PROVE  ~Sure(req'[r])
  BY <1>4, GoesTo DEF Sure
<1>5. ASSUME NEW v, \/ keys' = [keys EXCEPT ![req[r].email].code = v]
                    \/ keys' = [keys EXCEPT ![req[r].email].attempts = v]
                    \/ keys' = [keys EXCEPT ![req[r].email].resend = v]
                    \/ keys' = [keys EXCEPT ![req[r].email].lock = v]
                    \/ keys' = [keys EXCEPT ![req[r].email].passed = FALSE]
                    \/ keys' = [keys EXCEPT ![req[r].email] = Nothing]
                    \/ keys' = keys,
             NEW x \in Emails
      PROVE  keys'[x].passed => keys[x].passed
  <2> DEFINE e == req[r].email
  <2>1. CASE keys' = [keys EXCEPT ![e].code = v]
    BY <1>0, <2>1 DEF Entry
  <2>2. CASE keys' = [keys EXCEPT ![e].attempts = v]
    BY <1>0, <2>2 DEF Entry
  <2>3. CASE keys' = [keys EXCEPT ![e].resend = v]
    BY <1>0, <2>3 DEF Entry
  <2>4. CASE keys' = [keys EXCEPT ![e].lock = v]
    BY <1>0, <2>4 DEF Entry
  <2>5. CASE keys' = [keys EXCEPT ![e].passed = FALSE]
    BY <1>0, <2>5 DEF Entry
  <2>6. CASE keys' = [keys EXCEPT ![e] = Nothing]
    BY <1>0, <2>6 DEF Entry, Nothing
  <2> QED BY <1>5, <2>1, <2>2, <2>3, <2>4, <2>5, <2>6
<1>6. CASE AskCooldown(r)
  <2>1. ~Sure(req'[r])
    BY <1>3, <1>4, <1>6 DEF AskCooldown, Asking, PC, Counting, Trusted, Ended
  <2> QED BY <1>2, <1>6, <2>1 DEF AskCooldown, store
<1>7. CASE AskInMemory(r)
  <2>1. CASE Key(r).resend
    <3>1. ~Sure(req'[r])
      BY <1>3, <1>7, <2>1 DEF AskInMemory, Ended
    <3> QED BY <1>2, <1>7, <2>1, <3>1 DEF AskInMemory
  <2>2. CASE ~Key(r).resend
    <3>1. req' = [req EXCEPT ![r].pc = "mail", ![r].stored = issued + 1] /\ issued < scene.codes
      BY <1>7, <2>2 DEF AskInMemory, NewCode
    <3>2. req'[r].pc = "mail"
      BY ZenonT(30), <1>7, <3>1, GoesWith, ScenesTyped DEF AskInMemory, Asking, PC, Counting
    <3>3. keys' = [keys EXCEPT ![req[r].email] = [Nothing EXCEPT !.code = issued + 1, !.resend = TRUE]]
      BY <1>7, <2>2 DEF AskInMemory
    <3>4. \A x \in Emails : keys'[x].passed => keys[x].passed
      BY <1>0, <3>3 DEF Entry, Nothing
    <3>5. ~Sure(req'[r])
      BY <3>2 DEF Sure, Trusted
    <3> QED BY <1>2, <1>7, <3>4, <3>5 DEF AskInMemory
  <2> QED BY <2>1, <2>2
<1>8. CASE AskStore(r)
  <2>1. req[r].pc = "store" /\ scene.redis
    BY <1>8 DEF AskStore, TypeInv, RequestsOK, Proper
  <2>2. req'[r].pc = "clear"
    <3>1. req' = [req EXCEPT ![r].pc = "clear", ![r].stored = issued + 1] /\ issued < scene.codes
      BY <1>8, <2>1 DEF AskStore, NewCode
    <3> QED BY ZenonT(30), <2>1, <3>1, GoesWith, ScenesTyped DEF Asking, PC, Counting
  <2>3. ~Sure(req'[r])
    BY <2>2 DEF Sure, Trusted
  <2> QED BY <1>2, <1>5, <1>8, <2>3 DEF AskStore
<1>9. CASE AskClear(r)
  <2>1. ~Sure(req'[r])
    BY <1>4, <1>9 DEF AskClear, Asking, PC, Counting, Trusted
  <2> QED BY <1>2, <1>5, <1>9, <2>1 DEF AskClear
<1>10. CASE AskHold(r)
  <2>1. ~Sure(req'[r])
    BY <1>4, <1>10 DEF AskHold, Asking, PC, Counting, Trusted
  <2> QED BY <1>2, <1>5, <1>10, <2>1 DEF AskHold
<1>11. CASE AskMailed(r)
  <2>1. ~Sure(req'[r])
    BY <1>3, <1>11 DEF AskMailed, Ended
  <2> QED BY <1>2, <1>11, <2>1 DEF AskMailed
<1>12. CASE AskUnmailed(r)
  <2>1. ~Sure(req'[r])
    BY <1>3, <1>4, <1>12 DEF AskUnmailed, Asking, PC, Counting, Trusted, Ended
  <2> QED BY <1>2, <1>5, <1>12, <2>1 DEF AskUnmailed
<1>13. CASE Undo(r)
  <2>1. ~Sure(req'[r])
    BY <1>3, <1>4, <1>13 DEF Undo, Asking, PC, Counting, Trusted, Ended
  <2> QED BY <1>2, <1>5, <1>13, <2>1 DEF Undo
<1>14. CASE VerifyRead(r)
  <2>1. ~Sure(req'[r])
    <3>1. CASE Key(r).code = 0
      BY <1>3, <1>14, <3>1 DEF VerifyRead, Ended
    <3>2. CASE Key(r).code # 0
      <4>1. req' = [req EXCEPT ![r].pc = "count", ![r].stored = Key(r).code] /\ req[r].pc = "code"
        BY <1>14, <3>2 DEF VerifyRead
      <4>2. req[r].op = "verify" /\ scene.redis /\ Key(r).code \in Codes \cup {0}
        BY <1>0, <4>1 DEF Key, Entry, Counting, TypeInv, RequestsOK, Proper
      <4>3. req'[r].pc = "count"
        BY ZenonT(30), <4>1, <4>2, GoesWith DEF Counting, PC
      <4> QED BY <4>3 DEF Sure, Trusted
    <3> QED BY <3>1, <3>2
  <2> QED BY <1>2, <1>14, <2>1 DEF VerifyRead, store
<1>15. CASE VerifyCount(r)
  <2>1. \A x \in Emails : keys'[x].passed => keys[x].passed
    BY <1>5, <1>15 DEF VerifyCount
  <2>2. UNCHANGED accounts /\ req[r].email \in Emails
    BY <1>15 DEF VerifyCount
  <2>3. CASE req[r].guess = req[r].stored
    <3>1. proved' = proved \cup {req[r].email}
      BY <1>15, <2>3 DEF VerifyCount
    <3>2. req'[r] = Idle \/ req'[r].email = req[r].email
      BY <1>0 DEF Turned
    <3> QED BY <1>0, <1>1, <2>1, <2>2, <3>1, <3>2, ProvedBy DEF ProvedInv
  <2>4. CASE req[r].guess # req[r].stored
    <3>1. UNCHANGED proved /\ Reply(r, "error") /\ req[r].pc = "count"
      BY <1>15, <2>4 DEF VerifyCount
    <3>2. ~Sure(req'[r])
      BY <1>3, <3>1 DEF Ended
    <3> QED BY <1>2, <2>1, <2>2, <3>1, <3>2
  <2> QED BY <2>3, <2>4
<1>16. CASE VerifyDrop(r)
  <2>1. Sure(req[r])
    BY <1>16 DEF VerifyDrop, Sure, Trusted
  <2> QED BY <1>2, <1>5, <1>16, <2>1 DEF VerifyDrop
<1>17. CASE VerifyPass(r)
  <2>1. req[r].email \in proved /\ ~Sure(req'[r])
    BY <1>0, <1>3, <1>17 DEF VerifyPass, ProvedInv, Sure, Trusted, Ended
  <2>2. keys' = [keys EXCEPT ![req[r].email].passed = TRUE] /\ UNCHANGED <<accounts, proved>>
    BY <1>17 DEF VerifyPass
  <2>3. \A x \in Emails : keys'[x].passed => keys[x].passed \/ x = req[r].email
    BY <1>0, <2>2 DEF Entry
  <2>4. \A x \in Emails : keys'[x].passed => x \in proved'
    BY <1>0, <2>1, <2>2, <2>3 DEF ProvedInv
  <2>5. accounts' \subseteq proved'
    BY <1>0, <2>2 DEF ProvedInv
  <2> QED BY <1>0, <2>1, <2>2, <2>4, <2>5, ProvedBy
<1>18. CASE ClaimConsume(r)
  <2>1. Sure(req[r])
    BY <1>18 DEF ClaimConsume, Sure
  <2> QED BY <1>2, <1>5, <1>18, <2>1 DEF ClaimConsume
<1>19. CASE Lookup(r)
  <2>1. ~Sure(req'[r]) \/ Sure(req[r])
    <3>1. CASE req[r].op = "claim"
      BY <1>19, <3>1 DEF Lookup, Sure
    <3>2. CASE req[r].op = "check"
      BY <1>3, <1>19, <3>2 DEF Lookup, Ended
    <3> QED BY <1>19, <3>1, <3>2 DEF Lookup
  <2> QED BY <1>2, <1>19, <2>1 DEF Lookup, store
<1>20. CASE ClaimCreate(r)
  <2>1. req[r].email \in proved /\ ~Sure(req'[r])
    BY <1>0, <1>3, <1>20 DEF ClaimCreate, ProvedInv, Sure, Trusted, Ended
  <2>2. UNCHANGED <<keys, proved>> /\ accounts' = accounts \cup {req[r].email}
    BY <1>20 DEF ClaimCreate
  <2> QED BY <1>0, <2>1, <2>2, ProvedBy DEF ProvedInv
<1>21. CASE LoginWrong(r)
  <2>1. ~Sure(req'[r])
    BY <1>3, <1>4, <1>21 DEF LoginWrong, PC, Counting, Trusted, Ended
  <2> QED BY <1>2, <1>5, <1>21, <2>1 DEF LoginWrong
<1>22. CASE LoginLock(r)
  <2>1. ~Sure(req'[r])
    BY <1>3, <1>22 DEF LoginLock, Ended
  <2>2. \A x \in Emails : keys'[x].passed => keys[x].passed
    BY <1>5, <1>22 DEF LoginLock
  <2> QED BY <1>2, <1>22, <2>1, <2>2 DEF LoginLock
<1>23. CASE LoginRight(r)
  <2>1. ~Sure(req'[r])
    BY <1>3, <1>4, <1>23 DEF LoginRight, PC, Counting, Trusted, Ended
  <2> QED BY <1>2, <1>5, <1>23, <2>1 DEF LoginRight
<1>24. CASE Fail(r)
  <2>1. ~Sure(req'[r])
    BY <1>3, <1>24 DEF Fail, Ended
  <2> QED BY <1>2, <1>24, <2>1 DEF Fail, store
<1> QED
  BY <1>6, <1>7, <1>8, <1>9, <1>10, <1>11, <1>12, <1>13, <1>14, <1>15, <1>16, <1>17, <1>18,
     <1>19, <1>20, <1>21, <1>22, <1>23, <1>24 DEF Proceed

LEMMA ProvedNext == TypeInv /\ ProvedInv /\ [Next]_vars => ProvedInv'
<1> SUFFICES ASSUME TypeInv, ProvedInv, [Next]_vars PROVE ProvedInv'
  OBVIOUS
<1>0. ~Sure(Idle) /\ \A q : q.pc \in Ended \cup {"resend", "code", "compare"} => ~Sure(q)
  BY DEF Sure, Idle, Trusted, Ended
<1>1. ASSUME UNCHANGED store, NEW r \in Requests, NEW from, NEW op, NEW e,
             Turned(r) \/ Began(r, from, op, e), ~Sure(req'[r])
      PROVE  ProvedInv'
  BY <1>1, ProvedBy DEF ProvedInv, store
<1>2. ASSUME NEW r \in Requests, NEW from \in {"page", "elsewhere"}, NEW e \in Emails,
             Claim(r, from, e)
      PROVE  ProvedInv'
  <2>1. Began(r, from, "claim", e) /\ req'[r].email = e
    BY <1>2, Claims
  <2>2. e \in proved /\ UNCHANGED <<accounts, proved>> /\ keys \in [Emails -> Entry]
    BY <1>2 DEF Claim, ProvedInv, TypeInv, StoreOK
  <2>3. keys' = keys \/ keys' = [keys EXCEPT ![e] = Nothing]
    BY <1>2 DEF Claim
  <2>4. \A x \in Emails : keys'[x].passed => keys[x].passed
    BY <2>2, <2>3 DEF Entry, Nothing
  <2> QED BY <2>1, <2>2, <2>4, ProvedBy DEF ProvedInv
<1>3. ASSUME NEW r \in Requests, NEW from \in {"page", "elsewhere"}, NEW e \in Emails,
             NEW guess \in Codes \cup {0},
             Verify(r, from, e, guess) \/ VerifyInMemory(r, from, e, guess)
      PROVE  ProvedInv'
  <2>1. CASE Verify(r, from, e, guess)
    BY <1>0, <1>1, <2>1, Verifies
  <2>2. CASE VerifyInMemory(r, from, e, guess)
    <3>1. Began(r, from, "verify", e) /\ ~Sure(req'[r])
      BY <1>0, <2>2, VerifiesInMemory
    <3>2. keys \in [Emails -> Entry] /\ UNCHANGED accounts
      BY <2>2 DEF TypeInv, StoreOK, VerifyInMemory
    <3>3. CASE guess = keys[e].code
      <4>1. /\ keys' = [keys EXCEPT ![e].code = 0, ![e].attempts = 0, ![e].passed = TRUE]
            /\ proved' = proved \cup {e}
        BY <2>2, <3>3 DEF VerifyInMemory
      <4>2. \A x \in Emails : keys'[x].passed => keys[x].passed \/ x = e
        BY <3>2, <4>1 DEF Entry
      <4> QED BY <3>1, <3>2, <4>1, <4>2, ProvedBy DEF ProvedInv
    <3>4. CASE guess # keys[e].code
      <4>1. keys' = [keys EXCEPT ![e].attempts = keys[e].attempts + 1] /\ proved' = proved
        BY <2>2, <3>2, <3>4 DEF VerifyInMemory
      <4>2. \A x \in Emails : keys'[x].passed => keys[x].passed
        BY <3>2, <4>1 DEF Entry
      <4> QED BY <3>1, <3>2, <4>1, <4>2, ProvedBy DEF ProvedInv
    <3> QED BY <3>3, <3>4
  <2> QED BY <1>3, <2>1, <2>2
<1>4. ASSUME NEW r \in Requests, NEW from \in {"page", "elsewhere"}, NEW op \in {"ask", "again"},
             NEW e \in Emails, Ask(r, from, op, e)
      PROVE  ProvedInv'
  BY <1>0, <1>1, <1>4, Asks DEF Ended
<1>5. ASSUME NEW r \in Requests, NEW e \in Emails, Login(r, e) PROVE ProvedInv'
  BY <1>0, <1>1, <1>5, Logins
<1>6. ASSUME NEW r \in Requests, NEW e \in Emails, Check(r, "page", e) PROVE ProvedInv'
  <2>1. Began(r, "page", "check", e) /\ UNCHANGED store /\ req'[r].pc = "lookup" /\ req'[r].op = "check"
    BY <1>6, Checks
  <2> QED BY <1>1, <2>1 DEF Sure, Trusted
<1>7. ASSUME UNCHANGED <<store, req>> PROVE ProvedInv'
  BY <1>7 DEF ProvedInv, store
<1>8. CASE User
  <2>0. page \in Form /\ (page.step # 1 \/ page.due => page.email \in Emails)
    BY DEF TypeInv, PageOK
  <2>1. ASSUME \E e \in scene.emails : TypeEmail(e) PROVE ProvedInv'
    BY <1>7, <2>1 DEF TypeEmail
  <2>2. CASE goBackToEmailStep \/ onStep3Submit
    BY <1>7, <2>2 DEF goBackToEmailStep, onStep3Submit
  <2>3. CASE Reload \/ Leave
    <3>1. PICK kept : Open(kept)
      BY <2>3 DEF Reload, Leave
    <3>2. UNCHANGED store /\ \A o \in Requests : \/ req'[o] = Idle
                                                 \/ /\ req'[o].pc = req[o].pc /\ req'[o].op = req[o].op
                                                    /\ req'[o].email = req[o].email
      BY <3>1, Opens
    <3>3. \A o \in Requests : Sure(req'[o]) => Sure(req[o]) /\ req'[o].email = req[o].email
      BY <1>0, <3>2 DEF Sure
    <3> QED BY <3>2, <3>3 DEF ProvedInv, store
  <2>4. ASSUME NEW r \in Requests, onCheckEmail(r) PROVE ProvedInv'
    <3>1. page.input \in Emails /\ Check(r, "page", page.input)
      BY <2>0, <2>4 DEF onCheckEmail, Form
    <3> QED BY <1>6, <3>1
  <2>5. ASSUME NEW r \in Requests, onStep1Submit(r) PROVE ProvedInv'
    <3>1. page.input \in Emails /\ Ask(r, "page", "ask", page.input)
      BY <2>0, <2>5 DEF onStep1Submit, Form
    <3> QED BY <1>4, <3>1
  <2>6. ASSUME NEW r \in Requests, onResend(r) PROVE ProvedInv'
    <3>1. page.email \in Emails /\ Ask(r, "page", "again", page.email)
      BY <2>0, <2>6 DEF onResend, MayResend
    <3> QED BY <1>4, <3>1
  <2>7. ASSUME NEW r \in Requests, onStep4Submit(r) PROVE ProvedInv'
    <3>1. page.email \in Emails /\ Claim(r, "page", page.email)
      BY <2>0, <2>7 DEF onStep4Submit, PasswordFormOpen
    <3> QED BY <1>2, <3>1
  <2>8. ASSUME NEW r \in Requests, NEW guess \in Codes \cup {0}, onStep2Submit(r, guess)
        PROVE  ProvedInv'
    <3>1. /\ page.email \in Emails
          /\ Verify(r, "page", page.email, guess) \/ VerifyInMemory(r, "page", page.email, guess)
      BY <2>0, <2>8 DEF onStep2Submit, CodeFormOpen
    <3> QED BY <1>3, <3>1
  <2> QED BY <1>8, <2>1, <2>2, <2>3, <2>4, <2>5, <2>6, <2>7, <2>8 DEF User
<1>9. CASE Advance \/ Tick \/ UNCHANGED vars
  BY <1>7, <1>9 DEF Advance, Tick, vars, store
<1>10. ASSUME NEW r \in Requests, Answered(r) PROVE ProvedInv'
  <2>1. Take(r) /\ UNCHANGED store
    BY <1>10 DEF Answered, Checked, CodeSent, CodeResent, CodeVerified, Registered
  <2>2. Turned(r) /\ ~Sure(req'[r])
    BY <1>0, <2>1, Takes
  <2> QED BY <1>1, <2>1, <2>2
<1>11. ASSUME NEW r \in Requests, Proceed(r) PROVE ProvedInv'
  BY <1>11, ProvedProceed
<1>12. ASSUME NEW r \in Requests, NEW e \in scene.emails, Arrive(r, e) PROVE ProvedInv'
  <2>1. e \in Emails
    BY ScenesTyped
  <2> QED BY <1>2, <1>3, <1>4, <1>5, <1>12, <2>1 DEF Arrive
<1>13. ASSUME NEW e \in scene.emails, Expire(e) PROVE ProvedInv'
  <2>1. keys \in [Emails -> Entry] /\ e \in Emails
    BY ScenesTyped DEF TypeInv, StoreOK
  <2>2. \/ keys' = [keys EXCEPT ![e].code = 0] \/ keys' = [keys EXCEPT ![e].attempts = 0]
        \/ keys' = [keys EXCEPT ![e].resend = FALSE] \/ keys' = [keys EXCEPT ![e].passed = FALSE]
        \/ keys' = [keys EXCEPT ![e].lock = FALSE]
    BY <1>13 DEF Expire
  <2>3. \A x \in Emails : keys'[x].passed => keys[x].passed
    BY <2>1, <2>2 DEF Entry
  <2>4. UNCHANGED <<accounts, proved, req>>
    BY <1>13 DEF Expire
  <2> QED BY <2>3, <2>4 DEF ProvedInv
<1> QED BY <1>8, <1>9, <1>10, <1>11, <1>12, <1>13 DEF Next

(***************************************************************************)
(* However the requests of several people for one address interleave and   *)
(* wherever they fail, an account has an address, and an account without a *)
(* password gets one, only when the code mailed to the address was         *)
(* entered.                                                                *)
(***************************************************************************)
THEOREM AddressesProved == Spec => []AccountsProved
<1>1. Init => ProvedInv
  <2> SUFFICES ASSUME Init PROVE ProvedInv
    OBVIOUS
  <2>1. ~Sure(Idle) /\ ~Nothing.passed
    BY DEF Sure, Idle, Trusted, Nothing
  <2>2. accounts = {} /\ (\A e \in Emails : keys[e] = Nothing) /\ \A r \in Requests : req[r] = Idle
    BY DEF Init, StoreInit
  <2> QED BY <2>1, <2>2 DEF ProvedInv
<1>2. ProvedInv => AccountsProved
  BY DEF ProvedInv, AccountsProved
<1> QED BY <1>1, <1>2, TypeCorrect, ProvedNext, PTL DEF Spec

-----------------------------------------------------------------------------
(* What the page says is so                                                 *)

\* A request of the forms of steps 1 and 4, for which the page waits.
Fills(q) == q.from = "page" /\ q.op \in {"ask", "claim"}

(***************************************************************************)
(* At most one form is under way, and only while the page says that it is  *)
(* busy, which it never is in steps 2 and 5; so the address it shows when  *)
(* the answer comes is the one it has sent.                                *)
(***************************************************************************)
FormInv ==
    /\ \A r, o \in Requests : Fills(req[r]) /\ Fills(req[o]) => r = o
    /\ \A r \in Requests : Fills(req[r]) => page.form /\ page.step \notin {2, 5}
    /\ \A r \in Requests : Fills(req[r]) /\ req[r].op = "claim" =>
         req[r].email = page.email /\ (req[r].pc = "ok" => req[r].email \in accounts)
    /\ page.step = 5 => page.email \in accounts

\* What a request was, but for its place.
Of(q, p) == q.op = p.op /\ q.email = p.email /\ q.from = p.from

LEMMA FormQuiet ==
    ASSUME TypeInv, FormInv, accounts \subseteq accounts',
           page'.form = page.form, page'.step = page.step \/ page'.step \notin {2, 5},
           page'.email = page.email,
           \A o \in Requests : Fills(req'[o]) => Of(req'[o], req[o]),
           \A o \in Requests : Fills(req'[o]) /\ req'[o].op = "claim" /\ req'[o].pc = "ok"
                                 => req[o].pc = "ok" \/ req[o].email \in accounts'
    PROVE  FormInv'
<1>1. \A o \in Requests : Fills(req'[o]) => Fills(req[o])
  BY DEF Fills, Of
<1>2. \A r, o \in Requests : Fills(req'[r]) /\ Fills(req'[o]) => r = o
  BY <1>1 DEF FormInv
<1>3. \A r \in Requests : Fills(req'[r]) => page'.form /\ page'.step \notin {2, 5}
  BY <1>1 DEF FormInv
<1>4. ASSUME NEW r \in Requests, Fills(req'[r]), req'[r].op = "claim"
      PROVE  req'[r].email = page'.email /\ (req'[r].pc = "ok" => req'[r].email \in accounts')
  BY <1>1, <1>4 DEF FormInv, Of
<1>5. page'.step = 5 => page'.email \in accounts'
  BY DEF FormInv
<1> QED BY <1>2, <1>3, <1>4, <1>5 DEF FormInv

LEMMA FormProceed ==
    ASSUME TypeInv, FormInv, UNCHANGED page, NEW r \in Requests, Proceed(r)
    PROVE  FormInv'
<1> USE StagesOf, Places DEF At
<1>1. Turned(r)
  BY Turns
<1>2. accounts \subseteq accounts'
  BY DEF Proceed, AskCooldown, AskInMemory, AskStore, AskClear, AskHold, AskMailed,
     AskUnmailed, Undo, VerifyRead, VerifyCount, VerifyDrop, VerifyPass, ClaimConsume, Lookup,
     ClaimCreate, LoginWrong, LoginLock, LoginRight, Fail, store
<1>3. \A o \in Requests : Fills(req'[o]) => Of(req'[o], req[o])
  BY <1>1 DEF Turned, Fills, Of, Idle
<1>4. ASSUME req'[r].op = "claim", req'[r].pc = "ok"
      PROVE  req[r].email \in accounts'
  <2>1. req[r].op = "claim"
    BY <1>1, <1>4 DEF Turned, Idle, None
  <2>2. /\ req[r].pc \in {"consume", "lookup", "create", "ok", "error"}
        /\ req[r].pc \notin Asking \cup Counting \cup Trusted \cup {"compare", "lock", "unlock"}
    <3>1. <<"claim", req[r].pc>> \in Stages
      BY <2>1 DEF TypeInv, RequestsOK, Proper
    <3>2. req[r].pc \in {"consume", "lookup", "create", "ok", "error"}
      BY <3>1 DEF Stages, Ended, None
    <3> QED BY <3>2 DEF Asking, Counting, Trusted
  <2>3. ClaimConsume(r) \/ Lookup(r) \/ ClaimCreate(r) \/ Fail(r)
    BY <2>2 DEF Proceed, AskCooldown, AskInMemory, AskStore, AskClear, AskHold, AskMailed,
       AskUnmailed, Undo, VerifyRead, VerifyCount, VerifyDrop, VerifyPass, LoginWrong, LoginLock,
       LoginRight, Asking, Counting, Trusted
  <2>4. ~Fail(r)
    BY <1>4, Replies DEF Fail, Ended, Idle
  <2>5. ~ClaimConsume(r)
    BY <1>4, GoesTo DEF ClaimConsume, PC, Counting
  <2>6. ~Lookup(r)
    <3>1. ASSUME Lookup(r) PROVE (Reply(r, "error") \/ Goto(r, "create")) /\ req[r].op # None
      BY <2>1, <3>1 DEF Lookup, None
    <3>2. ASSUME Lookup(r) PROVE FALSE
      <4>1. CASE Reply(r, "error")
        BY <1>4, <3>1, <3>2, <4>1, Replies DEF Ended, Idle
      <4>2. CASE Goto(r, "create")
        BY <1>4, <2>1, <4>2, GoesTo DEF PC, Counting
      <4> QED BY <3>1, <3>2, <4>1, <4>2
    <3> QED BY <3>2
  <2> QED BY <2>3, <2>4, <2>5, <2>6 DEF ClaimCreate
<1>5. \A o \in Requests : Fills(req'[o]) /\ req'[o].op = "claim" /\ req'[o].pc = "ok"
                            => req[o].pc = "ok" \/ req[o].email \in accounts'
  BY <1>1, <1>4 DEF Turned
<1> QED BY <1>2, <1>3, <1>5, FormQuiet

LEMMA FormUser ==
    ASSUME TypeInv, FormInv, User
    PROVE  FormInv'
<1>0. page \in Form /\ (page.step # 1 \/ page.due => page.email \in Emails)
  BY DEF TypeInv, PageOK
<1>1. ASSUME UNCHANGED <<store, req>>, page'.form = page.form, page'.email = page.email,
             page'.step = page.step \/ page'.step \notin {2, 5}
      PROVE  FormInv'
  BY <1>1, FormQuiet DEF store, Of
<1>2. ASSUME NEW r \in Requests, NEW op, NEW e, Began(r, "page", op, e), op \notin {"ask", "claim"},
             UNCHANGED accounts, page'.form = page.form, page'.email = page.email,
             page'.step = page.step
      PROVE  FormInv'
  BY <1>2, FormQuiet DEF Began, Fills, Of, Idle
<1>3. ASSUME NEW r \in Requests, NEW op \in {"ask", "claim"}, NEW e, Began(r, "page", op, e),
             UNCHANGED accounts, ~page.form, page'.form, page'.email = page.email,
             page'.step = page.step, page.step \notin {2, 5},
             op = "claim" => e = page.email /\ req'[r].pc # "ok"
      PROVE  FormInv'
  <2>1. \A o \in Requests : ~Fills(req[o])
    BY <1>3 DEF FormInv
  <2>2. \A o \in Requests : Fills(req'[o]) => o = r
    BY <1>3, <2>1 DEF Began
  <2>3. req'[r].op = "claim" => req'[r].email = page.email /\ req'[r].pc # "ok"
    BY <1>3 DEF Began, Idle, None
  <2> QED BY <1>3, <2>2, <2>3 DEF FormInv
<1>4. ASSUME NEW e \in scene.emails, TypeEmail(e) PROVE FormInv'
  <2>1. page'.form = page.form /\ page'.email = page.email /\ page'.step = page.step
    BY <1>0, <1>4 DEF TypeEmail, Form
  <2> QED BY <1>1, <1>4, <2>1 DEF TypeEmail
<1>5. CASE goBackToEmailStep
  <2>1. page'.step = 1
    BY <1>0, <1>5 DEF goBackToEmailStep, Form
  <2>2. UNCHANGED <<store, req>> /\ \A o \in Requests : ~Fills(req[o])
    BY <1>5 DEF goBackToEmailStep, MayGoBack, FormInv
  <2> QED BY <2>1, <2>2 DEF FormInv
<1>6. CASE onStep3Submit
  <2>1. page'.form = page.form /\ page'.email = page.email /\ page'.step = 4
    BY <1>0, <1>6 DEF onStep3Submit, Form
  <2> QED BY <1>1, <1>6, <2>1 DEF onStep3Submit
<1>7. CASE Reload \/ Leave
  <2> DEFINE restored == [Fresh EXCEPT !.step = 2, !.email = page.saved, !.saved = page.saved,
                                       !.clock = page.clock]
  <2>0. Fresh.step = 1 /\ restored.step = 2
    BY DEF Fresh
  <2>1. PICK kept : Open(kept) /\ kept.step # 5
    <3>1. Open(Fresh) \/ Open(restored)
      BY <1>7 DEF Reload, Leave
    <3> HIDE DEF restored
    <3> QED BY <2>0, <3>1
  <2>2. page' = kept /\ \A o \in Requests : ~Fills(req'[o])
    BY <2>1, Opens DEF Fills
  <2> QED BY <2>1, <2>2 DEF FormInv
<1>8. ASSUME NEW r \in Requests, onCheckEmail(r) PROVE FormInv'
  <2>1. page.input \in Emails /\ Check(r, "page", page.input)
    BY <1>0, <1>8 DEF onCheckEmail, Form
  <2>2. Began(r, "page", "check", page.input) /\ UNCHANGED accounts
    BY <2>1, Checks DEF store
  <2>3. page'.form = page.form /\ page'.email = page.email /\ page'.step = page.step
    BY <1>0, <1>8 DEF onCheckEmail, Form
  <2> QED BY <1>2, <2>2, <2>3
<1>9. ASSUME NEW r \in Requests, onStep1Submit(r) PROVE FormInv'
  <2>1. page.input \in Emails /\ Ask(r, "page", "ask", page.input) /\ ~page.form /\ page.step = 1
    BY <1>0, <1>9 DEF onStep1Submit, Form
  <2>2. Began(r, "page", "ask", page.input) /\ UNCHANGED accounts
    BY <2>1, Asks DEF store
  <2>3. page'.form /\ page'.email = page.email /\ page'.step = page.step
    BY <1>0, <1>9 DEF onStep1Submit, Form
  <2> QED BY <1>3, <2>1, <2>2, <2>3
<1>10. ASSUME NEW r \in Requests, onResend(r) PROVE FormInv'
  <2>1. page.email \in Emails /\ Ask(r, "page", "again", page.email)
    BY <1>0, <1>10 DEF onResend, MayResend
  <2>2. Began(r, "page", "again", page.email) /\ UNCHANGED accounts
    BY <2>1, Asks DEF store
  <2>3. page'.form = page.form /\ page'.email = page.email /\ page'.step = page.step
    BY <1>0, <1>10 DEF onResend, Form
  <2> QED BY <1>2, <2>2, <2>3
<1>11. ASSUME NEW r \in Requests, onStep4Submit(r) PROVE FormInv'
  <2>1. page.email \in Emails /\ Claim(r, "page", page.email) /\ ~page.form /\ page.step = 4
    BY <1>0, <1>11 DEF onStep4Submit, PasswordFormOpen
  <2>2. Began(r, "page", "claim", page.email) /\ UNCHANGED accounts /\ req'[r].pc # "ok"
    BY <2>1, Claims DEF Claim
  <2>3. page'.form /\ page'.email = page.email /\ page'.step = page.step
    BY <1>0, <1>11 DEF onStep4Submit, Form
  <2> QED BY <1>3, <2>1, <2>2, <2>3
<1>12. ASSUME NEW r \in Requests, NEW guess \in Codes \cup {0}, onStep2Submit(r, guess)
       PROVE  FormInv'
  <2>1. /\ page.email \in Emails
        /\ Verify(r, "page", page.email, guess) \/ VerifyInMemory(r, "page", page.email, guess)
    BY <1>0, <1>12 DEF onStep2Submit, CodeFormOpen
  <2>2. Began(r, "page", "verify", page.email) /\ UNCHANGED accounts
    BY <2>1, Verifies, VerifiesInMemory DEF VerifyInMemory, store
  <2>3. page'.form = page.form /\ page'.email = page.email /\ page'.step = page.step
    BY <1>0, <1>12 DEF onStep2Submit, Form
  <2> QED BY <1>2, <2>2, <2>3
<1> QED BY <1>4, <1>5, <1>6, <1>7, <1>8, <1>9, <1>10, <1>11, <1>12 DEF User

LEMMA FormAnswered ==
    ASSUME TypeInv, FormInv, NEW r \in Requests, Answered(r)
    PROVE  FormInv'
<1>0. page \in Form /\ req[r].email \in Emails \cup {None}
  BY DEF TypeInv, PageOK, RequestsOK, Request
<1>1. Take(r) /\ UNCHANGED store /\ Waiting(r)
  BY DEF Answered, Checked, CodeSent, CodeResent, CodeVerified, Registered
<1>2. Turned(r) /\ req'[r] = Idle /\ ~Fills(Idle)
  BY <1>1, Takes DEF Fills, Idle
<1>3. ASSUME page'.form = page.form, page'.email = page.email, page'.step = page.step PROVE FormInv'
  <2>1. \A o \in Requests : Fills(req'[o]) => o # r /\ req'[o] = req[o]
    BY <1>2 DEF Turned
  <2> QED BY <1>1, <1>3, <2>1, FormQuiet DEF Of, store
<1>4. ASSUME Fills(req[r]), page'.step = 5 => page'.email \in accounts' PROVE FormInv'
  <2>1. \A o \in Requests : ~Fills(req'[o])
    BY <1>2, <1>4 DEF Turned, FormInv
  <2> QED BY <1>4, <2>1 DEF FormInv
<1>5. CASE Checked(r)
  <2>1. page'.form = page.form /\ page'.email = page.email /\ page'.step = page.step
    BY <1>0, <1>5 DEF Checked, Form
  <2> QED BY <1>3, <2>1
<1>6. CASE CodeSent(r)
  <2>1. Fills(req[r])
    BY <1>6 DEF CodeSent, Waiting, Fills
  <2>2. page.step # 5
    BY <2>1 DEF FormInv
  <2>3. page'.step # 5
    BY <1>0, <1>6, <2>2 DEF CodeSent, Form
  <2> QED BY <1>4, <2>1, <2>3
<1>7. CASE CodeResent(r)
  <2>1. page'.form = page.form /\ page'.email = page.email /\ page'.step = page.step
    BY <1>0, <1>7 DEF CodeResent, Form
  <2> QED BY <1>3, <2>1
<1>8. CASE CodeVerified(r)
  <2>1. page'.form = page.form /\ page'.email = page.email /\ page'.step = page.step
    BY <1>0, <1>8 DEF CodeVerified, Form
  <2> QED BY <1>3, <2>1
<1>9. CASE Registered(r)
  <2>1. Fills(req[r]) /\ req[r].op = "claim" /\ req[r].pc \in {"ok", "error"}
    BY <1>9 DEF Registered, Waiting, Fills
  <2>2. page.step # 5 /\ req[r].email = page.email /\ (req[r].pc = "ok" => req[r].email \in accounts)
    BY <2>1 DEF FormInv
  <2>3. page'.email = page.email /\ (req[r].pc = "error" => page'.step = page.step)
    BY <1>0, <1>9 DEF Registered, Form
  <2>4. page'.step = 5 => page'.email \in accounts'
    BY <1>1, <2>1, <2>2, <2>3 DEF store
  <2> QED BY <1>4, <2>1, <2>4
<1> QED BY <1>5, <1>6, <1>7, <1>8, <1>9 DEF Answered

LEMMA FormNext == TypeInv /\ FormInv /\ [Next]_vars => FormInv'
<1> SUFFICES ASSUME TypeInv, FormInv, [Next]_vars PROVE FormInv'
  OBVIOUS
<1>1. CASE UNCHANGED vars
  BY <1>1 DEF FormInv, vars
<1>2. CASE User
  BY <1>2, FormUser
<1>3. CASE Advance \/ Tick
  <2>1. page \in Form /\ UNCHANGED <<store, req>>
    BY <1>3 DEF TypeInv, PageOK, Advance, Tick
  <2>2. /\ page'.form = page.form /\ page'.email = page.email
        /\ page'.step = page.step \/ page'.step \notin {2, 5}
    <3>1. CASE Advance
      BY <2>1, <3>1 DEF Advance, Form
    <3>2. CASE Tick
      BY <2>1, <3>2 DEF Tick, Form
    <3> QED BY <1>3, <3>1, <3>2
  <2> QED BY <2>1, <2>2, FormQuiet DEF store, Of
<1>4. ASSUME NEW r \in Requests, Answered(r) PROVE FormInv'
  BY <1>4, FormAnswered
<1>5. ASSUME UNCHANGED page, NEW r \in Requests, Proceed(r) PROVE FormInv'
  BY <1>5, FormProceed
<1>6. ASSUME UNCHANGED page, NEW r \in Requests, NEW e \in scene.emails, Arrive(r, e) PROVE FormInv'
  <2>1. e \in Emails
    BY ScenesTyped
  <2>2. \E op \in {"ask", "verify", "claim", "login"} : Began(r, "elsewhere", op, e)
    BY <1>6, <2>1, Asks, Verifies, VerifiesInMemory, Claims, Logins DEF Arrive
  <2>3. UNCHANGED accounts
    BY <1>6 DEF Arrive, Ask, Verify, VerifyInMemory, Claim, Login, store
  <2>4. \A o \in Requests : Fills(req'[o]) => req'[o] = req[o]
    BY <2>2 DEF Began, Fills, Idle
  <2> QED BY <1>6, <2>3, <2>4, FormQuiet DEF Of
<1>7. ASSUME UNCHANGED page, NEW e \in scene.emails, Expire(e) PROVE FormInv'
  BY <1>7 DEF Expire, FormInv
<1> QED BY <1>1, <1>2, <1>3, <1>4, <1>5, <1>6, <1>7 DEF Next

(***************************************************************************)
(* However late the answers come and however the user goes back and forth, *)
(* the page says that the account was made only when there is one for the  *)
(* address it shows.                                                       *)
(***************************************************************************)
THEOREM SuccessCorrect == Spec => []SuccessIsReal
<1>1. Init => FormInv
  BY DEF Init, StoreInit, FormInv, Fresh, Fills, Idle
<1>2. FormInv => SuccessIsReal
  BY DEF FormInv, SuccessIsReal
<1> QED BY <1>1, <1>2, TypeCorrect, FormNext, PTL DEF Spec

-----------------------------------------------------------------------------
(* Counting the requests of an address                                      *)

In(q, e, P) == q.email = e /\ q.pc \in P
Those(e, P) == {o \in Requests : In(req[o], e, P)}
Many(e, P)  == Cardinality(Those(e, P))
N == Cardinality(Requests)

LEMMA ManyBounded ==
    ASSUME NEW e, NEW P
    PROVE  IsFiniteSet(Those(e, P)) /\ Many(e, P) \in Nat /\ N \in Nat /\ Many(e, P) <= N
<1>1. Those(e, P) \subseteq Requests
  BY DEF Those
<1> QED BY <1>1, FS_Subset, FS_CardinalityType DEF Many, N

LEMMA ManyMore ==
    ASSUME NEW e, NEW Q, NEW P \in SUBSET Q
    PROVE  Many(e, P) <= Many(e, Q)
<1>1. Those(e, P) \subseteq Those(e, Q)
  BY DEF Those, In
<1> QED BY <1>1, ManyBounded, FS_Subset DEF Many

\* One request goes on: the count changes by what it was and what it is.
LEMMA Counted ==
    ASSUME NEW r \in Requests, \A o \in Requests \ {r} : req'[o] = req[o], NEW e, NEW P
    PROVE  /\ Many(e, P) \in Nat /\ Many(e, P)' \in Nat
           /\ In(req[r], e, P) /\ In(req'[r], e, P) => Many(e, P)' = Many(e, P)
           /\ In(req[r], e, P) /\ ~In(req'[r], e, P) => Many(e, P)' = Many(e, P) - 1
           /\ ~In(req[r], e, P) /\ In(req'[r], e, P) => Many(e, P)' = Many(e, P) + 1
           /\ ~In(req[r], e, P) /\ ~In(req'[r], e, P) => Many(e, P)' = Many(e, P)
<1> DEFINE S == Those(e, P)
           T == {o \in Requests : In(req'[o], e, P)}
<1>1. IsFiniteSet(S) /\ Many(e, P) = Cardinality(S) /\ Many(e, P) \in Nat
  BY ManyBounded DEF Many
<1>2. Many(e, P)' = Cardinality(T)
  BY DEF Many, Those
<1>3. T \subseteq Requests
  OBVIOUS
<1>4. IsFiniteSet(T) /\ Cardinality(T) \in Nat
  BY <1>3, FS_Subset, FS_CardinalityType
<1>5. CASE In(req[r], e, P) <=> In(req'[r], e, P)
  <2>1. T = S
    BY <1>5 DEF Those
  <2> QED BY <1>1, <1>2, <1>5, <2>1
<1>6. CASE In(req[r], e, P) /\ ~In(req'[r], e, P)
  <2>1. r \in S /\ T = S \ {r}
    BY <1>6 DEF Those
  <2>2. Cardinality(T) = Cardinality(S) - 1
    BY <1>1, <2>1, FS_RemoveElement
  <2> QED BY <1>1, <1>2, <1>4, <1>6, <2>2
<1>7. CASE ~In(req[r], e, P) /\ In(req'[r], e, P)
  <2>1. r \notin S /\ T = S \cup {r}
    BY <1>7 DEF Those
  <2>2. Cardinality(T) = Cardinality(S) + 1
    BY <1>1, <2>1, FS_AddElement
  <2> QED BY <1>1, <1>2, <1>4, <1>7, <2>2
<1> QED BY <1>5, <1>6, <1>7

LEMMA CountedSame ==
    ASSUME NEW e, NEW P, \A o \in Requests : In(req'[o], e, P) <=> In(req[o], e, P)
    PROVE  Many(e, P)' = Many(e, P)
<1>1. Those(e, P)' = Those(e, P)
  BY DEF Those
<1> QED BY <1>1 DEF Many

-----------------------------------------------------------------------------
(* The mails of a cooldown                                                  *)

Passed == {"store", "clear", "hold", "mail"}

(***************************************************************************)
(* While the cooldown of an address runs, those that passed the check      *)
(* before it began are all that can still mail; before it begins again,    *)
(* those that have marked it.                                              *)
(***************************************************************************)
MailsLeft(e) ==
    /\ sent[e] + Many(e, {"mail"}) <= N
    /\ keys[e].resend => sent[e] + Many(e, Passed) <= N

MailInv == \A e \in Emails : MailsLeft(e)

LEMMA MailsStop ==
    ASSUME TypeInv, TypeInv', MailInv, NEW r \in Requests, \A o \in Requests \ {r} : req'[o] = req[o],
           NEW e \in Emails, sent'[e] <= sent[e],
           In(req'[r], e, {"mail"}) => In(req[r], e, {"mail"}),
           keys'[e].resend => keys[e].resend /\ (In(req'[r], e, Passed) => In(req[r], e, Passed))
    PROVE  MailsLeft(e)'
<1>1. sent[e] \in Nat /\ sent'[e] \in Nat /\ N \in Nat /\ MailsLeft(e)
  BY ManyBounded DEF TypeInv, StoreOK, MailInv
<1>2. Many(e, {"mail"}) \in Nat /\ Many(e, {"mail"})' \in Nat /\ Many(e, {"mail"})' <= Many(e, {"mail"})
  BY Counted
<1>3. /\ Many(e, Passed) \in Nat /\ Many(e, Passed)' \in Nat
      /\ keys'[e].resend => Many(e, Passed)' <= Many(e, Passed)
  BY Counted
<1>4. sent'[e] + Many(e, {"mail"})' <= N
  BY <1>1, <1>2 DEF MailsLeft
<1>5. keys'[e].resend => sent'[e] + Many(e, Passed)' <= N
  BY <1>1, <1>3 DEF MailsLeft
<1>6. N' = N
  BY DEF N
<1> QED BY <1>4, <1>5, <1>6 DEF MailsLeft

LEMMA MailsBegin ==
    ASSUME NEW e \in Emails, sent'[e] = 0
    PROVE  MailsLeft(e)'
<1>1. \A P : Many(e, P)' \in Nat /\ Many(e, P)' <= N
  <2> TAKE P
  <2>1. Those(e, P)' \subseteq Requests
    BY DEF Those
  <2> QED BY <2>1, FS_Subset, FS_CardinalityType DEF Many, N
<1>2. N \in Nat /\ N' = N
  BY FS_CardinalityType DEF N
<1> QED BY <1>1, <1>2 DEF MailsLeft

\* What a written field leaves as it was.
LEMMA FieldsOf ==
    ASSUME TypeInv, NEW e \in Emails, NEW x \in Emails, NEW v
    PROVE  /\ keys' = [keys EXCEPT ![e].code = v] \/ keys' = [keys EXCEPT ![e].passed = v] =>
                /\ keys'[x].attempts = keys[x].attempts /\ keys'[x].resend = keys[x].resend
                /\ keys'[x].lock = keys[x].lock
           /\ keys' = [keys EXCEPT ![e].attempts = v] =>
                /\ keys'[x].attempts = IF x = e THEN v ELSE keys[x].attempts
                /\ keys'[x].resend = keys[x].resend /\ keys'[x].lock = keys[x].lock
           /\ keys' = [keys EXCEPT ![e].resend = v] =>
                /\ keys'[x].attempts = keys[x].attempts /\ keys'[x].lock = keys[x].lock
                /\ keys'[x].resend = IF x = e THEN v ELSE keys[x].resend
           /\ keys' = [keys EXCEPT ![e].lock = v] =>
                /\ keys'[x].attempts = keys[x].attempts /\ keys'[x].resend = keys[x].resend
                /\ keys'[x].lock = IF x = e THEN v ELSE keys[x].lock
           /\ keys' = [keys EXCEPT ![e] = v] => keys'[x] = IF x = e THEN v ELSE keys[x]
<1>1. keys \in [Emails -> Entry]
  BY DEF TypeInv, StoreOK
<1>2. ASSUME keys' = [keys EXCEPT ![e].code = v]
      PROVE  /\ keys'[x].attempts = keys[x].attempts /\ keys'[x].resend = keys[x].resend
             /\ keys'[x].lock = keys[x].lock
  BY <1>1, <1>2 DEF Entry
<1>3. ASSUME keys' = [keys EXCEPT ![e].passed = v]
      PROVE  /\ keys'[x].attempts = keys[x].attempts /\ keys'[x].resend = keys[x].resend
             /\ keys'[x].lock = keys[x].lock
  BY <1>1, <1>3 DEF Entry
<1>4. ASSUME keys' = [keys EXCEPT ![e].attempts = v]
      PROVE  /\ keys'[x].attempts = IF x = e THEN v ELSE keys[x].attempts
             /\ keys'[x].resend = keys[x].resend /\ keys'[x].lock = keys[x].lock
  BY <1>1, <1>4 DEF Entry
<1>5. ASSUME keys' = [keys EXCEPT ![e].resend = v]
      PROVE  /\ keys'[x].attempts = keys[x].attempts /\ keys'[x].lock = keys[x].lock
             /\ keys'[x].resend = IF x = e THEN v ELSE keys[x].resend
  BY <1>1, <1>5 DEF Entry
<1>6. ASSUME keys' = [keys EXCEPT ![e].lock = v]
      PROVE  /\ keys'[x].attempts = keys[x].attempts /\ keys'[x].resend = keys[x].resend
             /\ keys'[x].lock = IF x = e THEN v ELSE keys[x].lock
  BY <1>1, <1>6 DEF Entry
<1>7. ASSUME keys' = [keys EXCEPT ![e] = v] PROVE keys'[x] = IF x = e THEN v ELSE keys[x]
  BY <1>1, <1>7
<1> QED BY <1>2, <1>3, <1>4, <1>5, <1>6, <1>7

LEMMA MailsProceed ==
    ASSUME TypeInv, TypeInv', MailInv, NEW r \in Requests, Proceed(r), NEW e \in Emails
    PROVE  MailsLeft(e)'
<1> DEFINE m == req[r].email
<1> USE DEF At
<1>1. /\ Turned(r) /\ \A o \in Requests \ {r} : req'[o] = req[o]
      /\ req'[r].pc \in Ended \cup {"idle"} \/ <<req[r].pc, req'[r].pc>> \in Moves
  BY Turns DEF Turned
<1>2. req'[r].email = m \/ req'[r] = Idle
  BY <1>1 DEF Turned
<1>3. /\ sent[e] \in Nat /\ sent'[e] \in Nat /\ N \in Nat /\ MailsLeft(e) /\ sent \in [Emails -> Nat]
      /\ Idle.pc = "idle"
  BY ManyBounded DEF TypeInv, StoreOK, MailInv, Idle
<1>4. req[r].pc # "idle" => m \in Emails
  BY StagesOf
\* Requests that neither mark nor mail.
<1>5. ASSUME UNCHANGED sent, req[r].pc \notin {"resend", "hold"} \/ req'[r].pc \notin Passed,
             keys'[e].resend => keys[e].resend
      PROVE  MailsLeft(e)'
  <2>1. In(req'[r], e, {"mail"}) => In(req[r], e, {"mail"})
    BY <1>1, <1>2, <1>3, <1>5 DEF In, Moves, Passed, Ended
  <2>2. In(req'[r], e, Passed) => In(req[r], e, Passed)
    BY <1>1, <1>2, <1>3, <1>5 DEF In, Moves, Passed, Ended
  <2> QED BY <1>1, <1>3, <1>5, <2>1, <2>2, MailsStop
<1>6. CASE AskCooldown(r)
  <2>1. UNCHANGED <<keys, sent>> /\ req[r].pc = "resend"
    BY <1>6 DEF AskCooldown, store
  <2>2. CASE Key(r).resend
    <3>1. req'[r].pc \notin Passed
      BY <1>3, <1>6, <2>2, Replies, StagesOf DEF AskCooldown, Ended, Passed
    <3> QED BY <1>5, <2>1, <3>1
  <2>3. CASE ~Key(r).resend
    <3>1. req'[r].pc # "mail"
      BY <1>6, <2>3, GoesTo, StagesOf, Places DEF AskCooldown, Asking, PC, Counting
    <3>2. In(req'[r], e, {"mail"}) => In(req[r], e, {"mail"})
      BY <3>1 DEF In
    <3>3. keys'[e].resend => e # m
      BY <2>1, <2>3 DEF Key
    <3>4. e # m => ~In(req'[r], e, Passed)
      BY <1>2, <1>3 DEF In, Passed
    <3> QED BY <1>1, <1>3, <2>1, <3>2, <3>3, <3>4, MailsStop
  <2> QED BY <2>2, <2>3
<1>7. CASE AskInMemory(r)
  <2>0. req[r].pc = "resend" /\ m \in Emails /\ Started(r)
    BY <1>4, <1>7 DEF AskInMemory
  <2>1. CASE Key(r).resend
    <3>1. req'[r].pc \notin Passed
      BY <1>3, <1>7, <2>1, Replies, StagesOf DEF AskInMemory, Ended, Passed
    <3>2. UNCHANGED <<keys, sent>>
      BY <1>7, <2>1 DEF AskInMemory, Started
    <3> QED BY <1>5, <3>1, <3>2
  <2>2. CASE ~Key(r).resend
    <3>1. sent' = [sent EXCEPT ![m] = 0]
      BY <2>0, <2>2 DEF Started
    <3>2. CASE e = m
      BY <1>3, <2>0, <3>1, <3>2, MailsBegin
    <3>3. CASE e # m
      <4>1. keys'[e] = keys[e] /\ sent'[e] = sent[e]
        BY <1>3, <1>7, <2>0, <2>2, <3>1, <3>3 DEF AskInMemory, TypeInv, StoreOK
      <4>2. \A P : "idle" \notin P => ~In(req'[r], e, P)
        BY <1>2, <1>3, <3>3 DEF In
      <4> QED BY <1>1, <1>3, <4>1, <4>2, MailsStop DEF Passed
    <3> QED BY <3>2, <3>3
  <2> QED BY <2>1, <2>2
<1>8. CASE AskHold(r)
  <2>0. req[r].pc = "hold" /\ m \in Emails /\ Started(r) /\ keys' = [keys EXCEPT ![m].resend = TRUE]
    BY <1>4, <1>8 DEF AskHold
  <2>1. CASE e # m
    <3>1. keys'[e].resend = keys[e].resend /\ sent'[e] = sent[e]
      BY <1>3, <2>0, <2>1, FieldsOf DEF Started
    <3>2. \A P : "idle" \notin P => ~In(req'[r], e, P)
      BY <1>2, <1>3, <2>1 DEF In
    <3> QED BY <1>1, <1>3, <3>1, <3>2, MailsStop DEF Passed
  <2>2. CASE e = m /\ ~keys[e].resend
    BY <1>3, <2>0, <2>2, MailsBegin DEF Started, Key
  <2>3. CASE e = m /\ keys[e].resend
    <3>1. UNCHANGED sent
      BY <2>0, <2>3 DEF Started, Key
    <3>2. In(req[r], e, Passed)
      BY <2>0, <2>3 DEF In, Passed
    <3>3. Many(e, Passed)' \in Nat /\ Many(e, Passed) \in Nat /\ Many(e, Passed)' <= Many(e, Passed)
      BY <1>1, <3>2, Counted
    <3>4. Many(e, {"mail"})' \in Nat /\ Many(e, {"mail"})' <= Many(e, Passed)'
      <4>1. Those(e, {"mail"})' \subseteq Those(e, Passed)'
        BY DEF Those, In, Passed
      <4>2. IsFiniteSet(Those(e, Passed)')
        BY FS_Subset DEF Those
      <4>3. IsFiniteSet(Those(e, {"mail"})') /\ Cardinality(Those(e, {"mail"})') <= Cardinality(Those(e, Passed)')
        BY <4>1, <4>2, FS_Subset
      <4> QED BY <1>1, <4>3, Counted DEF Many
    <3>5. sent[e] + Many(e, Passed) <= N
      BY <1>3, <2>3 DEF MailsLeft
    <3>6. sent'[e] + Many(e, Passed)' <= N /\ sent'[e] + Many(e, {"mail"})' <= N
      BY <1>3, <3>1, <3>3, <3>4, <3>5
    <3> QED BY <3>6 DEF MailsLeft, N
  <2> QED BY <2>1, <2>2, <2>3
<1>9. CASE AskMailed(r)
  <2>0. req[r].pc = "mail" /\ m \in Emails /\ UNCHANGED keys
          /\ sent' = [sent EXCEPT ![m] = Count(sent[m] + 1)]
    BY <1>3, <1>4, <1>9 DEF AskMailed
  <2>1. req'[r].pc \notin Passed
    BY <1>3, <1>9, Replies, StagesOf DEF AskMailed, Ended, Passed, Asking
  <2>2. CASE e # m
    <3>1. sent'[e] = sent[e]
      BY <1>3, <2>0, <2>2
    <3>2. ~In(req'[r], e, Passed) /\ ~In(req'[r], e, {"mail"})
      BY <2>1 DEF In, Passed
    <3> QED BY <1>1, <1>3, <2>0, <3>1, <3>2, MailsStop
  <2>3. CASE e = m
    <3>1. sent'[e] <= sent[e] + 1
      BY <1>3, <2>0, <2>3, ScenesTyped
    <3>2. In(req[r], e, {"mail"}) /\ In(req[r], e, Passed)
      BY <2>0, <2>3 DEF In, Passed
    <3>3. ~In(req'[r], e, {"mail"}) /\ ~In(req'[r], e, Passed)
      BY <2>1 DEF In, Passed
    <3>4. /\ Many(e, {"mail"}) \in Nat /\ Many(e, {"mail"})' = Many(e, {"mail"}) - 1
          /\ Many(e, Passed) \in Nat /\ Many(e, Passed)' = Many(e, Passed) - 1
      BY <1>1, <3>2, <3>3, Counted
    <3>5. sent'[e] + Many(e, {"mail"})' <= N
      BY <1>3, <3>1, <3>4 DEF MailsLeft
    <3>6. keys'[e].resend => sent'[e] + Many(e, Passed)' <= N
      BY <1>3, <2>0, <3>1, <3>4 DEF MailsLeft
    <3> QED BY <3>5, <3>6 DEF MailsLeft, N
  <2> QED BY <2>2, <2>3
<1>10. CASE AskStore(r) \/ AskClear(r) \/ AskUnmailed(r) \/ Undo(r)
  <2>1. UNCHANGED sent /\ req[r].pc \notin {"resend", "hold", "idle"}
    BY <1>10 DEF AskStore, AskClear, AskUnmailed, Undo
  <2>2. PICK v : \/ keys' = [keys EXCEPT ![m].code = v] \/ keys' = [keys EXCEPT ![m].attempts = v]
                 \/ keys' = [keys EXCEPT ![m].resend = FALSE] \/ keys' = [keys EXCEPT ![m] = Nothing]
                 \/ keys' = keys
    BY <1>10 DEF AskStore, AskClear, AskUnmailed, Undo
  <2>3. keys'[e].resend => keys[e].resend
    <3>1. m \in Emails /\ ~Nothing.resend
      BY <1>4, <2>1 DEF Nothing
    <3>2. CASE keys' = [keys EXCEPT ![m].resend = FALSE]
      BY <3>1, <3>2, FieldsOf
    <3>3. CASE keys' = [keys EXCEPT ![m] = Nothing]
      BY <3>1, <3>3, FieldsOf
    <3>4. CASE keys' = [keys EXCEPT ![m].code = v]
      <4>1. keys \in [Emails -> Entry]
        BY DEF TypeInv, StoreOK
      <4>2. keys'[e].resend = keys[e].resend
        BY <3>1, <3>4, <4>1 DEF Entry
      <4> QED BY <4>2
    <3>5. CASE keys' = [keys EXCEPT ![m].attempts = v]
      <4>1. keys \in [Emails -> Entry]
        BY DEF TypeInv, StoreOK
      <4>2. keys'[e].resend = keys[e].resend
        BY <3>1, <3>5, <4>1 DEF Entry
      <4> QED BY <4>2
    <3> QED BY <2>2, <3>2, <3>3, <3>4, <3>5
  <2> QED BY <1>5, <2>1, <2>3
<1>11. CASE VerifyRead(r) \/ VerifyCount(r) \/ VerifyDrop(r) \/ VerifyPass(r)
             \/ ClaimConsume(r) \/ Lookup(r) \/ ClaimCreate(r)
  <2>1. UNCHANGED sent /\ req[r].pc \notin {"resend", "hold", "idle"}
    BY <1>11 DEF VerifyRead, VerifyCount, VerifyDrop, VerifyPass, ClaimConsume, Lookup, ClaimCreate, store
  <2>2. PICK v : \/ keys' = [keys EXCEPT ![m].code = v] \/ keys' = [keys EXCEPT ![m].attempts = v]
                 \/ keys' = [keys EXCEPT ![m].passed = v] \/ keys' = keys
    BY <1>11 DEF VerifyRead, VerifyCount, VerifyDrop, VerifyPass, ClaimConsume, Lookup, ClaimCreate, store
  <2>3. keys'[e].resend => keys[e].resend
    <3>1. m \in Emails
      BY <1>4, <2>1
    <3>2. CASE keys' = [keys EXCEPT ![m].code = v] \/ keys' = [keys EXCEPT ![m].passed = v]
      BY <3>1, <3>2, FieldsOf
    <3>3. CASE keys' = [keys EXCEPT ![m].attempts = v]
      BY <3>1, <3>3, FieldsOf
    <3> QED BY <2>2, <3>2, <3>3
  <2> QED BY <1>5, <2>1, <2>3
<1>12. CASE LoginWrong(r) \/ LoginLock(r) \/ LoginRight(r)
  <2>1. UNCHANGED sent /\ req[r].pc \notin {"resend", "hold", "idle"}
    BY <1>12 DEF LoginWrong, LoginLock, LoginRight
  <2>2. \E v : \/ keys' = [keys EXCEPT ![m].attempts = v] \/ keys' = [keys EXCEPT ![m].lock = v]
               \/ keys' = keys
    BY <1>12 DEF LoginWrong, LoginLock, LoginRight
  <2>3. keys'[e].resend => keys[e].resend
    BY SMTT(30), <1>4, <2>1, <2>2, FieldsOf
  <2> QED BY <1>5, <2>1, <2>3
<1>13. CASE Fail(r)
  <2>1. UNCHANGED <<keys, sent>> /\ req[r].pc # "idle" /\ Reply(r, "error")
    BY <1>13 DEF Fail, store
  <2>2. req'[r].pc \notin Passed
    BY <1>3, <2>1, Replies, StagesOf DEF Ended, Passed
  <2> QED BY <1>5, <2>1, <2>2
<1> QED BY <1>6, <1>7, <1>8, <1>9, <1>10, <1>11, <1>12, <1>13 DEF Proceed

-----------------------------------------------------------------------------
(* Steps that are not those of a request under way                          *)

\* Where a request has nothing that is counted.
Apart == Ended \cup {"idle", "resend", "lookup"}

Still ==
    \A o \in Requests : \/ req'[o].email = req[o].email /\ req'[o].pc = req[o].pc
                        \/ req'[o].pc \in Apart /\ req[o].pc \in Apart

Arrival(r, from, e, guess) ==
    Verify(r, from, e, guess) \/ VerifyInMemory(r, from, e, guess) \/ Claim(r, from, e) \/ Login(r, e)

LEMMA Frames ==
    ASSUME TypeInv, [Next]_vars
    PROVE  \/ \E r \in Requests : Proceed(r)
           \/ \E e \in Emails : Expire(e)
           \/ \E r \in Requests, from \in {"page", "elsewhere"}, e \in Emails, guess \in Codes \cup {0} :
                Arrival(r, from, e, guess)
           \/ UNCHANGED <<scene, store>> /\ Still
<1>0. page \in Form /\ (page.step # 1 \/ page.due => page.email \in Emails)
  BY DEF TypeInv, PageOK
<1>1. ASSUME UNCHANGED <<scene, store, req>> PROVE UNCHANGED <<scene, store>> /\ Still
  BY <1>1 DEF Still
<1>2. ASSUME NEW r \in Requests, NEW from \in {"page", "elsewhere"}, NEW op \in {"ask", "again"},
             NEW e \in Emails, Ask(r, from, op, e)
      PROVE  UNCHANGED <<scene, store>> /\ Still
  <2>1. Began(r, from, op, e) /\ UNCHANGED <<scene, store>> /\ req'[r].pc \in Apart
    BY <1>2, Asks DEF Apart, Ended
  <2> QED BY <2>1 DEF Began, Still, Apart
<1>3. ASSUME NEW r \in Requests, NEW e \in Emails, Check(r, "page", e)
      PROVE  UNCHANGED <<scene, store>> /\ Still
  <2>1. Began(r, "page", "check", e) /\ UNCHANGED <<scene, store>> /\ req'[r].pc \in Apart
    BY <1>3, Checks DEF Apart
  <2> QED BY <2>1 DEF Began, Still, Apart
<1>4. CASE User
  <2>1. ASSUME \E e \in scene.emails : TypeEmail(e) PROVE UNCHANGED <<scene, store>> /\ Still
    BY <1>1, <2>1 DEF TypeEmail
  <2>2. CASE goBackToEmailStep \/ onStep3Submit
    BY <1>1, <2>2 DEF goBackToEmailStep, onStep3Submit
  <2>3. CASE Reload \/ Leave
    <3>1. PICK kept : Open(kept)
      BY <2>3 DEF Reload, Leave
    <3> QED BY <3>1, Opens DEF Still, Apart, Idle
  <2>4. ASSUME NEW r \in Requests, onCheckEmail(r) PROVE UNCHANGED <<scene, store>> /\ Still
    <3>1. page.input \in Emails /\ Check(r, "page", page.input)
      BY <1>0, <2>4 DEF onCheckEmail, Form
    <3> QED BY <1>3, <3>1
  <2>5. ASSUME NEW r \in Requests, onStep1Submit(r) PROVE UNCHANGED <<scene, store>> /\ Still
    <3>1. page.input \in Emails /\ Ask(r, "page", "ask", page.input)
      BY <1>0, <2>5 DEF onStep1Submit, Form
    <3> QED BY <1>2, <3>1
  <2>6. ASSUME NEW r \in Requests, onResend(r) PROVE UNCHANGED <<scene, store>> /\ Still
    <3>1. page.email \in Emails /\ Ask(r, "page", "again", page.email)
      BY <1>0, <2>6 DEF onResend, MayResend
    <3> QED BY <1>2, <3>1
  <2>7. ASSUME NEW r \in Requests, onStep4Submit(r) PROVE page.email \in Emails /\ Claim(r, "page", page.email)
    BY <1>0, <2>7 DEF onStep4Submit, PasswordFormOpen
  <2>8. ASSUME NEW r \in Requests, NEW guess \in Codes \cup {0}, onStep2Submit(r, guess)
        PROVE  /\ page.email \in Emails
               /\ Verify(r, "page", page.email, guess) \/ VerifyInMemory(r, "page", page.email, guess)
    BY <1>0, <2>8 DEF onStep2Submit, CodeFormOpen
  <2>9. 0 \in Codes \cup {0}
    OBVIOUS
  <2>10. ASSUME NEW r \in Requests, onStep4Submit(r)
         PROVE  Arrival(r, "page", page.email, 0) /\ page.email \in Emails
    BY <2>7, <2>10 DEF Arrival
  <2>11. ASSUME NEW r \in Requests, NEW guess \in Codes \cup {0}, onStep2Submit(r, guess)
         PROVE  Arrival(r, "page", page.email, guess) /\ page.email \in Emails
    BY <2>8, <2>11 DEF Arrival
  <2> QED BY <1>4, <2>1, <2>2, <2>3, <2>4, <2>5, <2>6, <2>9, <2>10, <2>11 DEF User
<1>5. CASE Advance \/ Tick \/ UNCHANGED vars
  BY <1>1, <1>5 DEF Advance, Tick, vars, store
<1>6. ASSUME NEW r \in Requests, Answered(r) PROVE UNCHANGED <<scene, store>> /\ Still
  <2>1. Take(r) /\ UNCHANGED <<scene, store>> /\ req[r].pc \in Ended
    BY <1>6 DEF Answered, Checked, CodeSent, CodeResent, CodeVerified, Registered, Waiting, Ended
  <2>2. Turned(r) /\ req'[r].pc = "idle"
    BY <2>1, Takes DEF Idle
  <2> QED BY <2>1, <2>2 DEF Turned, Still, Apart
<1>7. ASSUME NEW r \in Requests, NEW e \in scene.emails, Arrive(r, e)
      PROVE  \/ UNCHANGED <<scene, store>> /\ Still
             \/ \E guess \in Codes \cup {0} : Arrival(r, "elsewhere", e, guess) /\ e \in Emails
  <2>1. e \in Emails
    BY ScenesTyped
  <2>2. CASE Ask(r, "elsewhere", "ask", e)
    BY <1>2, <2>1, <2>2
  <2>3. CASE Claim(r, "elsewhere", e) \/ Login(r, e)
    <3>1. Arrival(r, "elsewhere", e, 0)
      BY <2>3 DEF Arrival
    <3> QED BY <2>1, <3>1
  <2>4. ASSUME NEW guess \in Codes \cup {0},
               Verify(r, "elsewhere", e, guess) \/ VerifyInMemory(r, "elsewhere", e, guess)
        PROVE  Arrival(r, "elsewhere", e, guess)
    BY <2>4 DEF Arrival
  <2> QED BY <1>7, <2>1, <2>2, <2>3, <2>4 DEF Arrive
<1>8. \A e \in scene.emails : e \in Emails
  BY ScenesTyped
<1> QED BY <1>4, <1>5, <1>6, <1>7, <1>8 DEF Next

LEMMA StillCounts ==
    ASSUME Still, NEW e, NEW P, P \cap Apart = {}
    PROVE  Many(e, P)' = Many(e, P)
<1>1. \A o \in Requests : In(req'[o], e, P) <=> In(req[o], e, P)
  BY DEF Still, In
<1> QED BY <1>1, CountedSame

LEMMA MailsNext == TypeInv /\ TypeInv' /\ MailInv /\ [Next]_vars => MailInv'
<1> SUFFICES ASSUME TypeInv, TypeInv', MailInv, [Next]_vars, NEW e \in Emails PROVE MailsLeft(e)'
  BY DEF MailInv
<1>0. MailsLeft(e) /\ N' = N
  BY DEF MailInv, N
<1>1. CASE UNCHANGED <<scene, store>> /\ Still
  <2>1. Many(e, {"mail"})' = Many(e, {"mail"}) /\ Many(e, Passed)' = Many(e, Passed)
    BY <1>1, StillCounts DEF Apart, Ended, Passed
  <2> QED BY <1>0, <1>1, <2>1 DEF MailsLeft, store
<1>2. ASSUME NEW r \in Requests, Proceed(r) PROVE MailsLeft(e)'
  BY <1>2, MailsProceed
<1>3. ASSUME NEW x \in Emails, Expire(x) PROVE MailsLeft(e)'
  <2>1. UNCHANGED <<sent, req>>
    BY <1>3 DEF Expire
  <2>2. \/ \E v : \/ keys' = [keys EXCEPT ![x].code = v] \/ keys' = [keys EXCEPT ![x].passed = v]
        \/ \E v : keys' = [keys EXCEPT ![x].attempts = v]
        \/ keys' = [keys EXCEPT ![x].resend = FALSE]
        \/ \E v : keys' = [keys EXCEPT ![x].lock = v]
    BY <1>3 DEF Expire
  <2>3. keys'[e].resend => keys[e].resend
    BY <2>2, FieldsOf
  <2>4. Many(e, {"mail"})' = Many(e, {"mail"}) /\ Many(e, Passed)' = Many(e, Passed)
    BY <2>1, CountedSame
  <2> QED BY <1>0, <2>1, <2>3, <2>4 DEF MailsLeft
<1>4. ASSUME NEW r \in Requests, NEW from \in {"page", "elsewhere"}, NEW x \in Emails,
             NEW guess \in Codes \cup {0}, Arrival(r, from, x, guess)
      PROVE  MailsLeft(e)'
  <2>1. /\ UNCHANGED sent /\ \A o \in Requests \ {r} : req'[o] = req[o]
        /\ req'[r].pc \notin Passed
    <3>1. CASE Verify(r, from, x, guess)
      BY <3>1, Verifies DEF Began, Passed, store
    <3>2. CASE VerifyInMemory(r, from, x, guess)
      BY ZenonT(30), <3>2, VerifiesInMemory DEF Began, Passed, VerifyInMemory, Ended, Idle
    <3>3. CASE Claim(r, from, x)
      BY ZenonT(30), <3>3, Claims DEF Began, Passed, Claim
    <3>4. CASE Login(r, x)
      BY <3>4, Logins DEF Began, Passed, store
    <3> QED BY <1>4, <3>1, <3>2, <3>3, <3>4 DEF Arrival
  <2>2. keys'[e].resend => keys[e].resend
    <3>1. CASE Verify(r, from, x, guess) \/ Login(r, x)
      BY <3>1 DEF Verify, Login, store
    <3>2. CASE VerifyInMemory(r, from, x, guess)
      <4>1. keys \in [Emails -> Entry]
        BY DEF TypeInv, StoreOK
      <4>2. \/ keys' = [keys EXCEPT ![x].code = 0, ![x].attempts = 0, ![x].passed = TRUE]
            \/ keys' = [keys EXCEPT ![x].attempts = keys[x].attempts + 1]
        BY <3>2, <4>1 DEF VerifyInMemory
      <4> QED BY <4>1, <4>2 DEF Entry
    <3>3. CASE Claim(r, from, x)
      <4>1. keys' = keys \/ keys' = [keys EXCEPT ![x] = Nothing]
        BY <3>3 DEF Claim
      <4> QED BY <4>1, FieldsOf DEF Nothing
    <3> QED BY <1>4, <3>1, <3>2, <3>3 DEF Arrival
  <2>3. ~In(req'[r], e, Passed) /\ ~In(req'[r], e, {"mail"})
    BY <2>1 DEF In, Passed
  <2>4. sent[e] \in Nat
    BY DEF TypeInv, StoreOK
  <2> QED BY <2>1, <2>2, <2>3, <2>4, MailsStop
<1> QED BY <1>1, <1>2, <1>3, <1>4, Frames

(***************************************************************************)
(* Within a cooldown an address gets one mail, and one more only from each *)
(* request that had passed the check before the cooldown began, however    *)
(* many requests there are and wherever they fail.                         *)
(***************************************************************************)
THEOREM MailsCorrect == Spec => []MailsBounded
<1>1. Init => MailInv
  <2> SUFFICES ASSUME Init, NEW e \in Emails PROVE MailsLeft(e)
    BY DEF MailInv
  <2>1. sent[e] = 0
    BY DEF Init, StoreInit
  <2>2. Many(e, {"mail"}) \in Nat /\ Many(e, {"mail"}) <= N /\ Many(e, Passed) \in Nat /\ Many(e, Passed) <= N /\ N \in Nat
    BY ManyBounded
  <2> QED BY <2>1, <2>2 DEF MailsLeft
<1>2. TypeInv /\ MailInv => MailsBounded
  <2> SUFFICES ASSUME TypeInv, MailInv, NEW e \in Emails PROVE sent[e] <= Cardinality(Requests)
    BY DEF MailsBounded
  <2>1. MailsLeft(e) /\ sent[e] \in Nat /\ Many(e, {"mail"}) \in Nat /\ N \in Nat
    BY ManyBounded DEF MailInv, TypeInv, StoreOK
  <2>2. sent[e] <= N
    BY <2>1 DEF MailsLeft
  <2> QED BY <2>2 DEF N
<1> QED BY <1>1, <1>2, TypeCorrect, MailsNext, PTL DEF Spec

-----------------------------------------------------------------------------
(* Wrong codes and wrong passwords                                          *)

\* Twice what can still be tried when u requests are about to remove the lock, one
\* after the other, and all but those that have not yet done so try between them.
Tries(u) == u * (2 * N - u + 1)

LEMMA TriesOf ==
    ASSUME NEW u \in 0 .. N
    PROVE  /\ Tries(u) \in Nat
           /\ Tries(u) + 2 * (N - u) <= N * (N + 1)
           /\ u > 0 => Tries(u) = Tries(u - 1) + 2 * (N - u + 1) /\ Tries(u - 1) \in Nat
<1>1. N \in Nat
  BY FS_CardinalityType DEF N
<1>2. ASSUME NEW n \in Nat, NEW k \in Nat, k <= n
      PROVE  k * (2 * n - k + 1) >= 0 /\ k * (2 * n - k + 1) \in Int
  BY <1>2
<1>3. ASSUME NEW n \in Nat, NEW k \in Nat, k <= n
      PROVE  k * (2 * n - k + 1) + 2 * (n - k) <= n * (n + 1)
  BY <1>3
<1>4. ASSUME NEW n \in Nat, NEW k \in Nat, k > 0
      PROVE  k * (2 * n - k + 1) = (k - 1) * (2 * n - (k - 1) + 1) + 2 * (n - k + 1)
  BY <1>4
<1> QED BY <1>1, <1>2, <1>3, <1>4 DEF Tries

\* Nobody compares, locks and unlocks at the same time.
LEMMA Together ==
    ASSUME NEW e
    PROVE  Many(e, {"compare"}) + Many(e, {"lock"}) + Many(e, {"unlock"}) <= N
<1> DEFINE A == Those(e, {"compare"})
           B == Those(e, {"lock"})
           C == Those(e, {"unlock"})
<1>1. IsFiniteSet(A) /\ IsFiniteSet(B) /\ IsFiniteSet(C) /\ N \in Nat
  BY ManyBounded
<1>2. A \cap B = {} /\ (A \cup B) \cap C = {} /\ A \cup B \cup C \subseteq Requests
  BY DEF Those, In
<1>3. /\ Cardinality(A) \in Nat /\ Cardinality(B) \in Nat /\ Cardinality(C) \in Nat
      /\ Cardinality({}) = 0
  BY <1>1, FS_CardinalityType, FS_EmptySet
<1> HIDE DEF A, B, C
<1>4. IsFiniteSet(A \cup B) /\ Cardinality(A \cup B) = Cardinality(A) + Cardinality(B) - Cardinality(A \cap B)
  BY <1>1, FS_Union
<1>5. /\ IsFiniteSet((A \cup B) \cup C)
      /\ Cardinality((A \cup B) \cup C) = Cardinality(A \cup B) + Cardinality(C) - Cardinality((A \cup B) \cap C)
  BY <1>1, <1>4, FS_Union
<1>6. Cardinality((A \cup B) \cup C) = Cardinality(A) + Cardinality(B) + Cardinality(C)
  <2>1. Cardinality(A \cap B) = 0 /\ Cardinality((A \cup B) \cap C) = 0
    BY <1>2, FS_EmptySet
  <2> QED BY <1>3, <1>4, <1>5, <2>1
<1>7. Cardinality((A \cup B) \cup C) <= N
  BY <1>2, FS_Subset DEF N
<1> QED BY <1>6, <1>7 DEF A, B, C, Many

Cap == 2 * (MaxLoginFails - 1) + N * (N + 1)

\* After a wrong passwords so far, with c, l and u requests that compare, lock and
\* unlock: what has been tried and what can be, before nobody can try any more,
\* stays below the cap once the limit is reached.
Within(a, lock, c, l, u) ==
    a >= MaxLoginFails => 2 * a + Tries(u) + (IF lock THEN 2 * c ELSE 2 * (N - u - l)) <= Cap

Comparing(e) == Many(e, {"compare"})
Locking(e)   == Many(e, {"lock"})
Unlocking(e) == Many(e, {"unlock"})

(***************************************************************************)
(* The wrong guesses are among the counted attempts.  Codes: the attempts  *)
(* and those about to make one stay below the limit and the requests.      *)
(* Passwords: from the limit on, only so many can follow.                  *)
(***************************************************************************)
CodesLeft(e) ==
    scene.flow # "login" =>
      /\ wrong[e] <= keys[e].attempts
      /\ scene.redis => keys[e].attempts + Many(e, Counting) <= MaxAttempts - 1 + N
      /\ ~scene.redis => keys[e].attempts <= MaxAttempts

PasswordsLeft(e) ==
    scene.flow = "login" /\ scene.redis =>
      /\ wrong[e] <= keys[e].attempts
      /\ Within(keys[e].attempts, keys[e].lock, Comparing(e), Locking(e), Unlocking(e))

GuessInv == \A e \in Emails : CodesLeft(e) /\ PasswordsLeft(e)

\* What each step of a login does to these numbers.
LEMMA WithinSteps ==
    ASSUME NEW a \in Nat, NEW c \in Nat, NEW l \in Nat, NEW u \in Nat, c + l + u <= N,
           NEW lock, Within(a, lock, c, l, u)
    PROVE  /\ c > 0 => Within(a + 1, lock, c - 1, l + 1, u) /\ Within(a, lock, c - 1, l, u)
           /\ l > 0 => Within(a, TRUE, c, l - 1, u)
           /\ u > 0 => Within(a, FALSE, c, l, u - 1) /\ Within(a, lock, c, l, u - 1)
           /\ ~lock => Within(a, lock, c + 1, l, u)
           /\ 2 * (a - (MaxLoginFails - 1)) <= N * (N + 1)
<1> DEFINE T == Tries(u)
           S == Tries(u - 1)
           Q == N * (N + 1)
<1>1. N \in Nat /\ MaxLoginFails \in Nat /\ MaxLoginFails > 0
  BY FS_CardinalityType DEF N
<1>2. u \in 0 .. N
  BY <1>1
<1>3. T \in Nat /\ T + 2 * (N - u) <= Q /\ (u > 0 => T = S + 2 * (N - u + 1) /\ S \in Nat)
  BY <1>2, TriesOf
<1>4. Q \in Nat /\ Cap = 2 * (MaxLoginFails - 1) + Q
  BY <1>1 DEF Cap
<1> HIDE DEF T, S, Q
<1>5. T = Tries(u) /\ S = Tries(u - 1) /\ Q = N * (N + 1)
  BY DEF T, S, Q
<1>6. ASSUME c > 0 PROVE Within(a + 1, lock, c - 1, l + 1, u)
  <2>1. CASE a >= MaxLoginFails
    BY <1>1, <1>3, <1>4, <1>5, <1>6, <2>1 DEF Within
  <2>2. CASE a = MaxLoginFails - 1
    BY <1>1, <1>3, <1>4, <1>5, <1>6, <2>2 DEF Within
  <2>3. CASE a < MaxLoginFails - 1
    BY <1>1, <2>3 DEF Within
  <2> QED BY <1>1, <2>1, <2>2, <2>3
<1>7. c > 0 => Within(a, lock, c - 1, l, u)
  BY <1>1, <1>3, <1>4, <1>5 DEF Within
<1>8. l > 0 => Within(a, TRUE, c, l - 1, u)
  BY <1>1, <1>3, <1>4, <1>5 DEF Within
<1>9. u > 0 => Within(a, FALSE, c, l, u - 1)
  BY <1>1, <1>3, <1>4, <1>5 DEF Within
<1>10. u > 0 => Within(a, lock, c, l, u - 1)
  BY <1>1, <1>3, <1>4, <1>5 DEF Within
<1>11. ~lock => Within(a, lock, c + 1, l, u)
  BY <1>1, <1>3, <1>4, <1>5 DEF Within
<1>12. 2 * (a - (MaxLoginFails - 1)) <= N * (N + 1)
  BY <1>1, <1>3, <1>4, <1>5 DEF Within
<1> QED BY <1>6, <1>7, <1>8, <1>9, <1>10, <1>11, <1>12

\* Steps that leave the counter and its history alone, or clear both.
Cleaned(e) ==
    \/ keys'[e].attempts = keys[e].attempts /\ wrong'[e] = wrong[e]
    \/ keys'[e].attempts = 0 /\ wrong'[e] = 0

LEMMA CodesQuiet ==
    ASSUME TypeInv, TypeInv', NEW e \in Emails, CodesLeft(e), UNCHANGED scene, Cleaned(e),
           NEW r \in Requests, \A o \in Requests \ {r} : req'[o] = req[o],
           In(req'[r], e, Counting) => In(req[r], e, Counting)
    PROVE  CodesLeft(e)'
<1>1. /\ wrong[e] \in Nat /\ keys[e].attempts \in Nat /\ N \in Nat /\ N' = N
      /\ wrong'[e] \in Nat /\ keys'[e].attempts \in Nat
  BY ManyBounded DEF TypeInv, StoreOK, Entry, N
<1>2. /\ Many(e, Counting) \in Nat /\ Many(e, Counting)' \in Nat
      /\ Many(e, Counting)' <= Many(e, Counting)
  BY Counted
<1>3. Many(e, Counting)' <= N
  <2>1. Those(e, Counting)' \subseteq Requests
    BY DEF Those
  <2> QED BY <2>1, FS_Subset DEF Many, N
<1> QED BY <1>1, <1>2, <1>3 DEF Cleaned, CodesLeft

\* What every step of a request does but one that takes a guess or a login.
LEMMA Cleans ==
    ASSUME TypeInv, NEW r \in Requests, Proceed(r), NEW e \in Emails
    PROVE  Cleaned(e) \/ VerifyCount(r) \/ LoginWrong(r) \/ LoginLock(r) \/ LoginRight(r)
<1> DEFINE m == req[r].email
<1> USE DEF At
<1>0. /\ wrong \in [Emails -> Nat] /\ keys \in [Emails -> Entry] /\ Nothing.attempts = 0
      /\ req[r].pc # "idle" => m \in Emails
  BY StagesOf DEF TypeInv, StoreOK, Nothing
<1>1. ASSUME NEW v, keys' = [keys EXCEPT ![m].code = v] \/ keys' = [keys EXCEPT ![m].passed = v]
                     \/ keys' = [keys EXCEPT ![m].resend = v] \/ keys' = keys,
             UNCHANGED wrong, req[r].pc # "idle"
      PROVE  Cleaned(e)
  <2>1. CASE keys' = [keys EXCEPT ![m].code = v] \/ keys' = [keys EXCEPT ![m].passed = v]
    BY <1>0, <1>1, <2>1, FieldsOf DEF Cleaned
  <2>2. CASE keys' = [keys EXCEPT ![m].resend = v]
    BY <1>0, <1>1, <2>2, FieldsOf DEF Cleaned
  <2>3. CASE keys' = keys
    BY <1>1, <2>3 DEF Cleaned
  <2> QED BY <1>1, <2>1, <2>2, <2>3
<1>2. ASSUME Cleared(r), req[r].pc # "idle",
             keys' = [keys EXCEPT ![m].attempts = 0]
      PROVE  Cleaned(e)
  BY <1>0, <1>2, FieldsOf DEF Cleaned, Cleared
<1>3. ASSUME NEW k, k.attempts = 0, keys' = [keys EXCEPT ![m] = k], Cleared(r), req[r].pc # "idle"
      PROVE  Cleaned(e)
  BY <1>0, <1>3 DEF Cleaned, Cleared
<1>4. CASE AskCooldown(r) \/ AskMailed(r) \/ VerifyRead(r) \/ Lookup(r) \/ ClaimCreate(r) \/ Fail(r)
  BY <1>4 DEF AskCooldown, AskMailed, VerifyRead, Lookup, ClaimCreate, Fail, store, Cleaned
<1>5. CASE AskInMemory(r)
  <2>1. CASE UNCHANGED <<keys, wrong>>
    BY <2>1 DEF Cleaned
  <2>2. CASE keys' = [keys EXCEPT ![m] = [Nothing EXCEPT !.code = issued + 1, !.resend = TRUE]] /\ Cleared(r)
    <3>1. [Nothing EXCEPT !.code = issued + 1, !.resend = TRUE].attempts = 0
      BY DEF Nothing
    <3> QED BY <1>3, <1>5, <2>2, <3>1 DEF AskInMemory
  <2> QED BY <1>5, <2>1, <2>2 DEF AskInMemory
<1>6. CASE AskStore(r)
  BY <1>1, <1>6 DEF AskStore
<1>7. CASE AskClear(r)
  BY <1>2, <1>7 DEF AskClear
<1>8. CASE AskHold(r)
  BY <1>1, <1>8 DEF AskHold
<1>9. CASE AskUnmailed(r)
  <2>1. CASE scene.redis
    BY <1>9, <2>1 DEF AskUnmailed, Cleaned
  <2>2. CASE ~scene.redis
    BY <1>0, <1>3, <1>9, <2>2 DEF AskUnmailed
  <2> QED BY <2>1, <2>2
<1>10. CASE Undo(r)
  <2>1. CASE req[r].pc = "undo attempts"
    BY <1>2, <1>10, <2>1 DEF Undo
  <2>2. CASE req[r].pc # "undo attempts"
    BY <1>1, <1>10, <2>2 DEF Undo
  <2> QED BY <2>1, <2>2
<1>11. CASE VerifyDrop(r)
  <2>1. CASE req[r].pc = "drop attempts"
    BY <1>2, <1>11, <2>1 DEF VerifyDrop
  <2>2. CASE req[r].pc # "drop attempts"
    BY <1>1, <1>11, <2>2 DEF VerifyDrop
  <2> QED BY <2>1, <2>2
<1>12. CASE VerifyPass(r)
  BY <1>1, <1>12 DEF VerifyPass
<1>13. CASE ClaimConsume(r)
  BY <1>1, <1>13 DEF ClaimConsume
<1> QED BY <1>4, <1>5, <1>6, <1>7, <1>8, <1>9, <1>10, <1>11, <1>12, <1>13 DEF Proceed

LEMMA CodesProceed ==
    ASSUME TypeInv, TypeInv', NEW r \in Requests, Proceed(r), NEW e \in Emails, CodesLeft(e),
           scene.flow # "login", UNCHANGED scene
    PROVE  CodesLeft(e)'
<1> DEFINE m == req[r].email
<1>1. /\ Turned(r) /\ \A o \in Requests \ {r} : req'[o] = req[o]
      /\ req'[r].pc \in Ended \cup {"idle"} \/ <<req[r].pc, req'[r].pc>> \in Moves
      /\ req'[r].email = m \/ req'[r] = Idle
  BY Turns DEF Turned
<1>2. In(req'[r], e, Counting) => In(req[r], e, Counting)
  <2>1. Idle.pc \notin Counting
    BY DEF Idle, Counting
  <2>2. <<req[r].pc, req'[r].pc>> \in Moves /\ req'[r].pc \in Counting => req[r].pc \in Counting
    BY DEF Moves, Counting
  <2>3. req'[r].pc \in Ended \cup {"idle"} => req'[r].pc \notin Counting
    BY DEF Ended, Counting
  <2> QED BY <1>1, <2>1, <2>2, <2>3 DEF In
<1>3. CASE Cleaned(e)
  BY <1>1, <1>2, <1>3, CodesQuiet
<1>4. CASE VerifyCount(r)
  <2>1. /\ req[r].pc = "count" /\ m \in Emails /\ scene.redis
        /\ keys' = [keys EXCEPT ![m].attempts = keys[m].attempts + 1]
        /\ wrong' = wrong \/ wrong' = [wrong EXCEPT ![m] = Count(wrong[m] + 1)]
        /\ req'[r].pc \notin Counting
    <3>1. req[r].pc = "count" /\ wrong \in [Emails -> Nat]
      BY <1>4 DEF VerifyCount, At, TypeInv, StoreOK
    <3>2. m \in Emails /\ scene.redis
      BY <3>1, StagesOf DEF TypeInv, RequestsOK, Proper, Counting
    <3>3. req'[r].pc \notin Counting
      BY <1>1, <3>1 DEF Moves, Counting, Ended
    <3>4. wrong' = wrong \/ wrong' = [wrong EXCEPT ![m] = Count(wrong[m] + 1)]
      BY <1>4, <3>1, <3>2 DEF VerifyCount
    <3> QED BY <1>4, <3>1, <3>2, <3>3, <3>4 DEF VerifyCount, Key
  <2>2. wrong \in [Emails -> Nat] /\ keys[m].attempts \in Nat
    BY <2>1 DEF TypeInv, StoreOK, Entry
  <2>3. CASE e # m
    <3>1. keys'[e].attempts = keys[e].attempts
      <4> DEFINE v == keys[m].attempts + 1
      <4>1. keys' = [keys EXCEPT ![m].attempts = v] /\ m \in Emails
        BY <2>1
      <4> HIDE DEF v
      <4> QED BY <2>3, <4>1, FieldsOf
    <3>2. wrong'[e] = wrong[e]
      BY <2>1, <2>2, <2>3
    <3>3. Cleaned(e)
      BY <3>1, <3>2 DEF Cleaned
    <3> QED BY <1>1, <1>2, <3>3, CodesQuiet
  <2>4. CASE e = m
    <3>1. In(req[r], e, Counting) /\ ~In(req'[r], e, Counting)
      BY <2>1, <2>4 DEF In, Counting
    <3>2. Many(e, Counting) \in Nat /\ Many(e, Counting)' = Many(e, Counting) - 1
      BY <1>1, <3>1, Counted
    <3>3. keys'[e].attempts = keys[e].attempts + 1
      <4>1. \A v : keys' = [keys EXCEPT ![e].attempts = v] => keys'[e].attempts = v
        BY FieldsOf
      <4>2. keys' = [keys EXCEPT ![e].attempts = keys[e].attempts + 1]
        BY <2>1, <2>4
      <4> QED BY <4>1, <4>2
    <3>4. wrong'[e] \in Nat /\ wrong'[e] <= wrong[e] + 1
      BY <2>1, <2>2, <2>4, ScenesTyped
    <3>5. N' = N /\ N \in Nat /\ keys[e].attempts \in Nat /\ wrong[e] \in Nat
      BY <2>2, <2>4, ManyBounded DEF N
    <3> QED BY <2>1, <3>2, <3>3, <3>4, <3>5 DEF CodesLeft
  <2> QED BY <2>3, <2>4
<1>5. ~LoginWrong(r) /\ ~LoginLock(r) /\ ~LoginRight(r)
  <2>1. req[r].op # "login"
    BY DEF TypeInv, RequestsOK, Proper, None
  <2> QED BY <2>1, StagesOf DEF LoginWrong, LoginLock, LoginRight, At
<1> QED BY <1>3, <1>4, <1>5, Cleans

\* What a request of an address that is over, or at another place, leaves of them.
LEMMA Departs ==
    ASSUME NEW r \in Requests, \A o \in Requests \ {r} : req'[o] = req[o], NEW e,
           req[r].email = e, req'[r].pc \notin {"compare", "lock", "unlock"}
    PROVE  /\ req[r].pc = "compare" => /\ Comparing(e) > 0 /\ Comparing(e)' = Comparing(e) - 1
                                       /\ Locking(e)' = Locking(e) /\ Unlocking(e)' = Unlocking(e)
           /\ req[r].pc = "lock" => /\ Locking(e) > 0 /\ Locking(e)' = Locking(e) - 1
                                    /\ Comparing(e)' = Comparing(e) /\ Unlocking(e)' = Unlocking(e)
           /\ req[r].pc = "unlock" => /\ Unlocking(e) > 0 /\ Unlocking(e)' = Unlocking(e) - 1
                                      /\ Comparing(e)' = Comparing(e) /\ Locking(e)' = Locking(e)
           /\ req[r].pc \notin {"compare", "lock", "unlock"} =>
                /\ Comparing(e)' = Comparing(e) /\ Locking(e)' = Locking(e)
                /\ Unlocking(e)' = Unlocking(e)
<1>1. ASSUME NEW p \in {"compare", "lock", "unlock"}
      PROVE  /\ req[r].pc = p => Many(e, {p}) > 0 /\ Many(e, {p})' = Many(e, {p}) - 1
             /\ req[r].pc # p => Many(e, {p})' = Many(e, {p})
  <2>1. ~In(req'[r], e, {p}) /\ (In(req[r], e, {p}) <=> req[r].pc = p)
    BY DEF In
  <2>2. /\ Many(e, {p}) \in Nat /\ Many(e, {p})' \in Nat
        /\ req[r].pc = p => Many(e, {p})' = Many(e, {p}) - 1
        /\ req[r].pc # p => Many(e, {p})' = Many(e, {p})
    BY <2>1, Counted
  <2> QED BY <2>2
<1>2. /\ req[r].pc = "compare" => Comparing(e) > 0 /\ Comparing(e)' = Comparing(e) - 1
      /\ req[r].pc # "compare" => Comparing(e)' = Comparing(e)
  BY <1>1 DEF Comparing
<1>3. /\ req[r].pc = "lock" => Locking(e) > 0 /\ Locking(e)' = Locking(e) - 1
      /\ req[r].pc # "lock" => Locking(e)' = Locking(e)
  BY <1>1 DEF Locking
<1>4. /\ req[r].pc = "unlock" => Unlocking(e) > 0 /\ Unlocking(e)' = Unlocking(e) - 1
      /\ req[r].pc # "unlock" => Unlocking(e)' = Unlocking(e)
  BY <1>1 DEF Unlocking
<1> QED BY <1>2, <1>3, <1>4

LEMMA PasswordsQuiet ==
    ASSUME TypeInv, NEW e \in Emails, PasswordsLeft(e), UNCHANGED scene,
           Cleaned(e), keys'[e].lock = keys[e].lock,
           Comparing(e)' = Comparing(e), Locking(e)' = Locking(e), Unlocking(e)' = Unlocking(e)
    PROVE  PasswordsLeft(e)'
<1>1. N' = N /\ MaxLoginFails \in Nat \ {0}
  BY DEF N
<1>2. CASE keys'[e].attempts = keys[e].attempts /\ wrong'[e] = wrong[e]
  BY <1>1, <1>2 DEF PasswordsLeft, Within, Tries, Cap
<1>3. CASE keys'[e].attempts = 0 /\ wrong'[e] = 0
  BY <1>1, <1>3 DEF PasswordsLeft, Within
<1> QED BY <1>2, <1>3 DEF Cleaned

LEMMA PasswordsStep ==
    ASSUME NEW e \in Emails, wrong'[e] <= keys'[e].attempts,
           NEW a, a = keys'[e].attempts, NEW lock, lock = keys'[e].lock,
           NEW c, c = Comparing(e)', NEW l, l = Locking(e)', NEW u, u = Unlocking(e)',
           Within(a, lock, c, l, u)
    PROVE  PasswordsLeft(e)'
<1>1. N' = N
  BY DEF N
<1>2. Within(keys[e].attempts, keys[e].lock, Comparing(e), Locking(e), Unlocking(e))'
  BY <1>1 DEF Within, Tries, Cap
<1> QED BY <1>2 DEF PasswordsLeft

LEMMA Written ==
    ASSUME TypeInv, NEW e \in Emails, NEW v
    PROVE  /\ keys' = [keys EXCEPT ![e].attempts = v] =>
                keys'[e].attempts = v /\ keys'[e].lock = keys[e].lock
           /\ keys' = [keys EXCEPT ![e].lock = v] =>
                keys'[e].attempts = keys[e].attempts /\ keys'[e].lock = v
<1>1. keys \in [Emails -> Entry]
  BY DEF TypeInv, StoreOK
<1>2. ASSUME keys' = [keys EXCEPT ![e].attempts = v]
      PROVE  keys'[e].attempts = v /\ keys'[e].lock = keys[e].lock
  BY <1>1, <1>2 DEF Entry
<1>3. ASSUME keys' = [keys EXCEPT ![e].lock = v]
      PROVE  keys'[e].attempts = keys[e].attempts /\ keys'[e].lock = v
  BY <1>1, <1>3 DEF Entry
<1> QED BY <1>2, <1>3

\* In a scene of logins there is nothing else.
LEMMA LoginsOnly ==
    ASSUME TypeInv, NEW r \in Requests, scene.flow = "login", Proceed(r)
    PROVE  LoginWrong(r) \/ LoginLock(r) \/ LoginRight(r) \/ Fail(r)
<1>1. Proper(req[r], scene)
  BY DEF TypeInv, RequestsOK
<1>2. req[r].op \in {None, "login"}
  BY <1>1 DEF Proper
<1>3. req[r].pc \in {"idle", "compare", "lock", "unlock"} \cup Ended
  BY <1>1, <1>2 DEF Proper, Stages, None, Ended
<1> QED
  BY <1>3 DEF Ended, At, Proceed, AskCooldown, AskInMemory, AskStore, AskClear, AskHold, AskMailed,
     AskUnmailed, Undo, VerifyRead, VerifyCount, VerifyDrop, VerifyPass, ClaimConsume, Lookup, ClaimCreate

LEMMA PasswordsProceed ==
    ASSUME TypeInv, TypeInv', NEW r \in Requests, Proceed(r), NEW e \in Emails, PasswordsLeft(e),
           UNCHANGED scene, scene.flow = "login", scene.redis
    PROVE  PasswordsLeft(e)'
<1> DEFINE m == req[r].email
           a == keys[e].attempts
           lock == keys[e].lock
           c == Comparing(e)
           l == Locking(e)
           u == Unlocking(e)
<1>1. /\ Turned(r) /\ \A o \in Requests \ {r} : req'[o] = req[o]
      /\ req'[r].email = m \/ req'[r] = Idle
      /\ Idle.pc = "idle"
  BY Turns DEF Turned, Idle
<1>2. req[r].pc # "idle" => m \in Emails /\ req[r].op # None
  BY StagesOf
<1>3. /\ a \in Nat /\ lock \in BOOLEAN /\ wrong[e] \in Nat /\ wrong \in [Emails -> Nat]
      /\ keys \in [Emails -> Entry] /\ wrong[e] <= a /\ MaxLoginFails \in Nat \ {0}
      /\ Within(a, lock, c, l, u)
  BY DEF TypeInv, StoreOK, Entry, PasswordsLeft
<1>4. c \in Nat /\ l \in Nat /\ u \in Nat /\ c + l + u <= N
  BY ManyBounded, Together DEF Comparing, Locking, Unlocking
<1>5. /\ c > 0 => Within(a + 1, lock, c - 1, l + 1, u) /\ Within(a, lock, c - 1, l, u)
      /\ l > 0 => Within(a, TRUE, c, l - 1, u)
      /\ u > 0 => Within(a, FALSE, c, l, u - 1) /\ Within(a, lock, c, l, u - 1)
  <2> HIDE DEF a, lock, c, l, u
  <2>1. /\ a \in Nat /\ c \in Nat /\ l \in Nat /\ u \in Nat /\ c + l + u <= N
        /\ lock \in BOOLEAN /\ Within(a, lock, c, l, u)
    BY <1>3, <1>4
  <2> QED BY <2>1, WithinSteps
<1>6. CASE e # m
  <2>1. \A P : "idle" \notin P => Many(e, P)' = Many(e, P)
    <3> TAKE P
    <3>1. "idle" \notin P => ~In(req[r], e, P) /\ ~In(req'[r], e, P)
      BY <1>1, <1>6 DEF In
    <3> QED BY <1>1, <3>1, Counted
  <2>2. Comparing(e)' = Comparing(e) /\ Locking(e)' = Locking(e) /\ Unlocking(e)' = Unlocking(e)
    BY <2>1 DEF Comparing, Locking, Unlocking
  <2>3. Cleaned(e) /\ keys'[e].lock = keys[e].lock
    <3>1. CASE LoginWrong(r)
      <4>1. wrong'[e] = wrong[e]
        BY <1>3, <1>6, <3>1 DEF LoginWrong
      <4>2. keys' = keys \/ keys' = [keys EXCEPT ![m].attempts = Key(r).attempts + 1]
        BY <3>1 DEF LoginWrong
      <4>3. m \in Emails
        BY <1>2, <3>1 DEF LoginWrong, At
      <4>4. keys'[e].attempts = keys[e].attempts /\ keys'[e].lock = keys[e].lock
        BY <1>6, <4>2, <4>3, FieldsOf
      <4> QED BY <4>1, <4>4 DEF Cleaned
    <3>2. CASE LoginLock(r)
      <4>1. m \in Emails /\ keys' = [keys EXCEPT ![m].lock = TRUE] /\ UNCHANGED wrong
        BY <1>2, <3>2 DEF LoginLock, At
      <4>2. keys'[e].attempts = keys[e].attempts /\ keys'[e].lock = keys[e].lock
        BY <1>6, <4>1, FieldsOf
      <4> QED BY <4>1, <4>2 DEF Cleaned
    <3>3. CASE LoginRight(r)
      <4>1. m \in Emails /\ wrong'[e] = wrong[e]
        BY <1>2, <1>3, <1>6, <3>3 DEF LoginRight, Cleared, At
      <4>2. keys' = [keys EXCEPT ![m].attempts = 0] \/ keys' = [keys EXCEPT ![m].lock = FALSE]
        BY <3>3 DEF LoginRight
      <4>3. keys'[e].attempts = keys[e].attempts /\ keys'[e].lock = keys[e].lock
        BY <1>6, <4>1, <4>2, FieldsOf
      <4> QED BY <4>1, <4>3 DEF Cleaned
    <3>4. CASE Fail(r)
      BY <3>4 DEF Fail, store, Cleaned
    <3> QED BY <3>1, <3>2, <3>3, <3>4, LoginsOnly
  <2> QED BY <2>2, <2>3, PasswordsQuiet
<1>7. CASE e = m /\ LoginWrong(r)
  <2>1. In(req[r], e, {"compare"}) /\ ~In(req[r], e, {"lock"}) /\ ~In(req[r], e, {"unlock"})
    BY <1>7 DEF LoginWrong, In, At
  <2>2. wrong'[e] = wrong[e] + 1 /\ keys'[e].attempts = a + 1 /\ keys'[e].lock = lock
    <3>1. keys' = [keys EXCEPT ![e].attempts = keys[e].attempts + 1]
      BY <1>7 DEF LoginWrong, Key
    <3>2. keys'[e].attempts = keys[e].attempts + 1 /\ keys'[e].lock = keys[e].lock
      BY <3>1, Written
    <3> QED BY <1>3, <1>7, <3>2 DEF LoginWrong
  <2>3. wrong'[e] <= keys'[e].attempts
    BY <1>3, <2>2
  <2>4. CASE a + 1 >= MaxLoginFails
    <3>1. Goto(r, "lock")
      BY <1>7, <2>4 DEF LoginWrong, Key
    <3>2. req'[r].pc = "lock" /\ req'[r] # Idle
      BY <1>1, <3>1 DEF Goto, TypeInv, RequestsOK, Request
    <3>3. ~In(req'[r], e, {"compare"}) /\ In(req'[r], e, {"lock"}) /\ ~In(req'[r], e, {"unlock"})
      BY <1>1, <1>7, <3>2 DEF In
    <3>4. /\ Comparing(e)' = c - 1 /\ Comparing(e)' \in Nat
          /\ Locking(e)' = l + 1 /\ Unlocking(e)' = u
      BY <1>1, <2>1, <3>3, Counted DEF Comparing, Locking, Unlocking
    <3>5. c > 0
      BY <1>4, <3>4
    <3>6. Within(a + 1, lock, c - 1, l + 1, u)
      <4> HIDE DEF a, lock, c, l, u
      <4> QED BY <1>5, <3>5
    <3> HIDE DEF a, lock, c, l, u
    <3> QED BY <2>2, <2>3, <3>4, <3>6, PasswordsStep
  <2>5. CASE ~(a + 1 >= MaxLoginFails)
    BY <1>3, <2>2, <2>3, <2>5 DEF PasswordsLeft, Within
  <2> QED BY <2>4, <2>5
<1>8. CASE e = m /\ LoginLock(r)
  <2>1. Reply(r, "error") /\ req[r].pc = "lock"
    BY <1>8 DEF LoginLock, At
  <2>2. req'[r].pc \notin {"compare", "lock", "unlock"}
    BY <1>1, <1>2, <2>1, Replies DEF Ended
  <2>3. Comparing(e)' = c /\ Locking(e)' = l - 1 /\ Unlocking(e)' = u /\ l > 0
    BY <1>1, <1>8, <2>1, <2>2, Departs
  <2>4. wrong'[e] = wrong[e] /\ keys'[e].attempts = a /\ keys'[e].lock = TRUE
    <3>1. keys' = [keys EXCEPT ![e].lock = TRUE] /\ wrong' = wrong
      BY <1>8 DEF LoginLock
    <3>2. keys'[e].attempts = keys[e].attempts /\ keys'[e].lock = TRUE
      BY <3>1, Written
    <3> QED BY <3>1, <3>2
  <2>5. Within(a, TRUE, c, l - 1, u)
    <3> HIDE DEF a, lock, c, l, u
    <3> QED BY <1>5, <2>3
  <2>6. wrong'[e] <= keys'[e].attempts
    BY <1>3, <2>4
  <2> HIDE DEF a, lock, c, l, u
  <2> QED BY <2>3, <2>4, <2>5, <2>6, PasswordsStep
<1>9. CASE e = m /\ LoginRight(r)
  <2>1. CASE req[r].pc = "compare"
    <3>1. keys' = [keys EXCEPT ![e].attempts = 0] /\ wrong' = [wrong EXCEPT ![e] = 0]
      BY <1>9, <2>1 DEF LoginRight, Cleared, At
    <3>2. keys'[e].attempts = 0 /\ wrong'[e] = 0
      BY <1>3, <3>1, FieldsOf
    <3> QED BY <1>3, <3>2 DEF PasswordsLeft, Within
  <2>2. CASE req[r].pc = "unlock"
    <3>1. keys' = [keys EXCEPT ![e].lock = FALSE] /\ Reply(r, "ok") /\ wrong' = wrong
      BY <1>9, <2>2 DEF LoginRight, At
    <3>2. keys'[e].attempts = a /\ keys'[e].lock = FALSE /\ wrong'[e] = wrong[e]
      <4>1. keys'[e].attempts = keys[e].attempts /\ keys'[e].lock = FALSE
        BY <3>1, Written
      <4> QED BY <3>1, <4>1
    <3>3. req'[r].pc \notin {"compare", "lock", "unlock"}
      BY <1>1, <1>2, <2>2, <3>1, Replies DEF Ended
    <3>4. Comparing(e)' = c /\ Locking(e)' = l /\ Unlocking(e)' = u - 1 /\ u > 0
      BY <1>1, <1>9, <2>2, <3>3, Departs
    <3>5. Within(a, FALSE, c, l, u - 1)
      <4> HIDE DEF a, lock, c, l, u
      <4> QED BY <1>5, <3>4
    <3>6. wrong'[e] <= keys'[e].attempts
      BY <1>3, <3>2
    <3> HIDE DEF a, lock, c, l, u
    <3> QED BY <3>2, <3>4, <3>5, <3>6, PasswordsStep
  <2> QED BY <1>9, <2>1, <2>2 DEF LoginRight, At
<1>10. CASE e = m /\ Fail(r)
  <2>1. UNCHANGED <<keys, wrong>> /\ Reply(r, "error") /\ req[r].pc \notin {"idle", "lock"}
    BY <1>10 DEF Fail, store
  <2>2. req'[r].pc \notin {"compare", "lock", "unlock"}
    BY <1>1, <1>2, <2>1, Replies DEF Ended
  <2>3. CASE req[r].pc = "compare"
    <3>1. Comparing(e)' = c - 1 /\ Locking(e)' = l /\ Unlocking(e)' = u /\ c > 0
      BY <1>1, <1>10, <2>2, <2>3, Departs
    <3>2. Within(a, lock, c - 1, l, u)
      <4> HIDE DEF a, lock, c, l, u
      <4> QED BY <1>5, <3>1
    <3>3. wrong'[e] <= keys'[e].attempts /\ keys'[e].attempts = a /\ keys'[e].lock = lock
      BY <1>3, <2>1
    <3> HIDE DEF a, lock, c, l, u
    <3> QED BY <3>1, <3>2, <3>3, PasswordsStep
  <2>4. CASE req[r].pc = "unlock"
    <3>1. Comparing(e)' = c /\ Locking(e)' = l /\ Unlocking(e)' = u - 1 /\ u > 0
      BY <1>1, <1>10, <2>2, <2>4, Departs
    <3>2. Within(a, lock, c, l, u - 1)
      <4> HIDE DEF a, lock, c, l, u
      <4> QED BY <1>5, <3>1
    <3>3. wrong'[e] <= keys'[e].attempts /\ keys'[e].attempts = a /\ keys'[e].lock = lock
      BY <1>3, <2>1
    <3> HIDE DEF a, lock, c, l, u
    <3> QED BY <3>1, <3>2, <3>3, PasswordsStep
  <2>5. CASE req[r].pc \notin {"compare", "lock", "unlock"}
    <3>1. Comparing(e)' = Comparing(e) /\ Locking(e)' = Locking(e) /\ Unlocking(e)' = Unlocking(e)
      BY <1>1, <1>10, <2>2, <2>5, Departs
    <3> QED BY <2>1, <3>1, PasswordsQuiet DEF Cleaned
  <2> QED BY <2>1, <2>3, <2>4, <2>5
<1> QED BY <1>6, <1>7, <1>8, <1>9, <1>10, LoginsOnly

LEMMA GuessArrival ==
    ASSUME TypeInv, TypeInv', NEW e \in Emails, CodesLeft(e), PasswordsLeft(e), UNCHANGED scene,
           NEW r \in Requests, NEW from \in {"page", "elsewhere"}, NEW x \in Emails,
           NEW guess \in Codes \cup {0}, Arrival(r, from, x, guess)
    PROVE  CodesLeft(e)' /\ PasswordsLeft(e)'
<1>1. /\ wrong[e] \in Nat /\ keys[e].attempts \in Nat /\ keys[e].lock \in BOOLEAN /\ N \in Nat /\ N' = N
      /\ wrong'[e] \in Nat /\ keys'[e].attempts \in Nat /\ wrong \in [Emails -> Nat]
      /\ keys \in [Emails -> Entry] /\ MaxAttempts \in Nat \ {0} /\ MaxLoginFails \in Nat \ {0}
  BY ManyBounded DEF TypeInv, StoreOK, Entry, N
<1>2. CASE Verify(r, from, x, guess)
  <2>1. /\ UNCHANGED <<keys, wrong>> /\ scene.flow # "login" /\ scene.redis
        /\ keys[x].attempts < MaxAttempts
    BY <1>2 DEF Verify, store
  <2>2. \A o \in Requests \ {r} : req'[o] = req[o]
    BY <1>2, Verifies DEF Began
  <2>3. CASE e # x
    <3>1. req'[r].email = x
      BY <1>2, Verifies
    <3>2. ~In(req'[r], e, Counting)
      BY <2>3, <3>1 DEF In
    <3> QED BY <2>1, <2>2, <3>2, CodesQuiet DEF Cleaned, PasswordsLeft
  <2>4. CASE e = x
    <3>1. Many(e, Counting)' \in Nat /\ Many(e, Counting)' <= N
      <4>1. Those(e, Counting)' \subseteq Requests
        BY DEF Those
      <4> QED BY <4>1, FS_Subset, FS_CardinalityType DEF Many, N
    <3> QED BY <1>1, <2>1, <2>4, <3>1 DEF CodesLeft, PasswordsLeft
  <2> QED BY <2>3, <2>4
<1>3. CASE VerifyInMemory(r, from, x, guess)
  <2>1. scene.flow # "login" /\ ~scene.redis /\ keys[x].attempts < MaxAttempts
    BY <1>3 DEF VerifyInMemory
  <2>2. CASE e # x
    <3>1. keys'[e] = keys[e] /\ wrong'[e] = wrong[e]
      BY <1>1, <1>3, <2>2 DEF VerifyInMemory
    <3> QED BY <2>1, <3>1 DEF CodesLeft, PasswordsLeft
  <2>3. CASE e = x /\ guess = keys[x].code
    <3>1. wrong' = [wrong EXCEPT ![x] = 0]
      BY <1>3, <2>3 DEF VerifyInMemory
    <3>2. wrong'[e] = 0
      BY <1>1, <2>3, <3>1
    <3>3. keys' = [keys EXCEPT ![x].code = 0, ![x].attempts = 0, ![x].passed = TRUE]
      BY <1>3, <2>3 DEF VerifyInMemory
    <3>4. keys'[e].attempts = 0
      BY <1>1, <2>3, <3>3 DEF Entry
    <3> QED BY <1>1, <2>1, <3>2, <3>4 DEF CodesLeft, PasswordsLeft
  <2>4. CASE e = x /\ guess # keys[x].code
    <3>1. wrong' = [wrong EXCEPT ![e] = Count(wrong[e] + 1)]
      BY <1>1, <1>3, <2>4 DEF VerifyInMemory
    <3>2. wrong'[e] <= wrong[e] + 1
      BY <1>1, <3>1, ScenesTyped
    <3>3. keys' = [keys EXCEPT ![e].attempts = keys[e].attempts + 1]
      BY <1>1, <1>3, <2>4 DEF VerifyInMemory
    <3>4. keys'[e].attempts = keys[e].attempts + 1
      BY <3>3, Written
    <3> QED BY <1>1, <2>1, <2>4, <3>2, <3>4 DEF CodesLeft, PasswordsLeft
  <2> QED BY <2>2, <2>3, <2>4
<1>4. CASE Claim(r, from, x)
  <2>1. \A o \in Requests \ {r} : req'[o] = req[o]
    BY <1>4, Claims DEF Began
  <2>2. ~In(req'[r], e, Counting)
    BY <1>4, Claims DEF In, Counting
  <2>3. Cleaned(e) /\ scene.flow # "login"
    <3>1. CASE scene.redis
      BY <1>4, <3>1 DEF Claim, Cleaned
    <3>2. CASE ~scene.redis
      <4>1. keys' = [keys EXCEPT ![x] = Nothing] /\ wrong' = [wrong EXCEPT ![x] = 0] /\ Nothing.attempts = 0
        BY <1>4, <3>2 DEF Claim, Nothing
      <4> QED BY <1>1, <1>4, <4>1 DEF Claim, Cleaned
    <3>3. scene.flow # "login"
      BY <1>4 DEF Claim
    <3> QED BY <3>1, <3>2, <3>3
  <2> QED BY <2>1, <2>2, <2>3, CodesQuiet DEF PasswordsLeft
<1>5. CASE Login(r, x)
  <2>1. /\ UNCHANGED <<keys, wrong>> /\ scene.flow = "login" /\ ~keys[x].lock
        /\ CodesLeft(e)'
    BY <1>5 DEF Login, store, CodesLeft
  <2>2. /\ \A o \in Requests \ {r} : req'[o] = req[o]
        /\ req'[r].email = x /\ req'[r].pc = "compare" /\ req[r].pc = "idle"
    BY <1>5, Logins DEF Began
  <2>3. /\ ~In(req[r], e, {"compare"}) /\ ~In(req[r], e, {"lock"}) /\ ~In(req[r], e, {"unlock"})
        /\ ~In(req'[r], e, {"lock"}) /\ ~In(req'[r], e, {"unlock"})
        /\ In(req'[r], e, {"compare"}) <=> e = x
    BY <2>2 DEF In
  <2>4. /\ Locking(e)' = Locking(e) /\ Unlocking(e)' = Unlocking(e)
        /\ e = x => Comparing(e)' = Comparing(e) + 1
        /\ e # x => Comparing(e)' = Comparing(e)
    BY <2>2, <2>3, Counted DEF Comparing, Locking, Unlocking
  <2>5. CASE e # x \/ ~scene.redis
    BY <2>1, <2>4, <2>5, PasswordsQuiet DEF Cleaned, PasswordsLeft
  <2>6. CASE e = x /\ scene.redis
    <3> DEFINE a == keys[e].attempts
               lock == keys[e].lock
               c == Comparing(e)
               l == Locking(e)
               u == Unlocking(e)
    <3>1. /\ a \in Nat /\ c \in Nat /\ l \in Nat /\ u \in Nat /\ c + l + u <= N
          /\ lock = FALSE /\ Within(a, lock, c, l, u) /\ wrong[e] <= a
      BY <1>1, <2>1, <2>6, ManyBounded, Together DEF PasswordsLeft, Comparing, Locking, Unlocking
    <3>2. Within(a, FALSE, c + 1, l, u)
      <4> HIDE DEF a, lock, c, l, u
      <4> QED BY <3>1, WithinSteps
    <3>3. keys'[e].attempts = a /\ keys'[e].lock = FALSE /\ wrong'[e] <= keys'[e].attempts
      BY <2>1, <3>1
    <3> HIDE DEF a, lock, c, l, u
    <3>4. Comparing(e)' = c + 1 /\ Locking(e)' = l /\ Unlocking(e)' = u
      BY <2>4, <2>6 DEF c, l, u
    <3> QED BY <2>1, <3>2, <3>3, <3>4, PasswordsStep
  <2> QED BY <2>1, <2>5, <2>6
<1> QED BY <1>2, <1>3, <1>4, <1>5 DEF Arrival

LEMMA GuessExpire ==
    ASSUME TypeInv, NEW e \in Emails, CodesLeft(e), PasswordsLeft(e),
           NEW x \in Emails, Expire(x)
    PROVE  CodesLeft(e)' /\ PasswordsLeft(e)'
<1>1. /\ UNCHANGED <<scene, req>> /\ N' = N /\ N \in Nat /\ MaxAttempts \in Nat \ {0}
      /\ MaxLoginFails \in Nat \ {0} /\ wrong \in [Emails -> Nat]
  BY ManyBounded DEF Expire, N, TypeInv, StoreOK
<1>2. /\ Many(e, Counting)' = Many(e, Counting) /\ Many(e, Counting) \in Nat /\ Many(e, Counting) <= N
      /\ Comparing(e)' = Comparing(e) /\ Locking(e)' = Locking(e) /\ Unlocking(e)' = Unlocking(e)
  BY <1>1, ManyBounded, CountedSame DEF Comparing, Locking, Unlocking
<1>3. CASE keys'[e].attempts = 0 /\ wrong'[e] = 0
  BY <1>1, <1>2, <1>3 DEF CodesLeft, PasswordsLeft, Within
<1>4. CASE keys'[e].attempts = keys[e].attempts /\ keys'[e].lock = keys[e].lock /\ wrong'[e] = wrong[e]
  <2>1. CodesLeft(e)'
    BY <1>1, <1>2, <1>4 DEF CodesLeft
  <2> QED BY <1>1, <1>2, <1>4, <2>1, PasswordsQuiet DEF Cleaned
<1>5. CASE keys'[e].attempts = 0 /\ keys[e].attempts = 0 /\ wrong'[e] = wrong[e]
  BY <1>1, <1>2, <1>5 DEF CodesLeft, PasswordsLeft, Within
<1>6. CASE UNCHANGED wrong /\ keys' = [keys EXCEPT ![x].code = 0]
  BY <1>4, <1>6, FieldsOf
<1>7. CASE UNCHANGED wrong /\ keys' = [keys EXCEPT ![x].resend = FALSE]
  BY <1>4, <1>7, FieldsOf
<1>8. CASE UNCHANGED wrong /\ keys' = [keys EXCEPT ![x].passed = FALSE]
  BY <1>4, <1>8, FieldsOf
<1>9. CASE keys' = [keys EXCEPT ![x].attempts = 0] /\ wrong' = [wrong EXCEPT ![x] = 0]
  <2>1. CASE e = x
    BY <1>1, <1>3, <1>9, <2>1, Written
  <2>2. CASE e # x
    BY <1>1, <1>4, <1>9, <2>2, FieldsOf
  <2> QED BY <2>1, <2>2
<1>10. CASE UNCHANGED wrong /\ keys[x].attempts = 0 /\ keys' = [keys EXCEPT ![x].lock = FALSE]
  <2>1. CASE e = x
    BY <1>5, <1>10, <2>1, Written
  <2>2. CASE e # x
    BY <1>4, <1>10, <2>2, FieldsOf
  <2> QED BY <2>1, <2>2
<1> QED BY <1>6, <1>7, <1>8, <1>9, <1>10 DEF Expire

LEMMA GuessNext == TypeInv /\ TypeInv' /\ GuessInv /\ [Next]_vars => GuessInv'
<1> SUFFICES ASSUME TypeInv, TypeInv', GuessInv, [Next]_vars, NEW e \in Emails
             PROVE  CodesLeft(e)' /\ PasswordsLeft(e)'
  BY DEF GuessInv
<1>1. CodesLeft(e) /\ PasswordsLeft(e) /\ N' = N
  BY DEF GuessInv, N
<1>2. CASE UNCHANGED <<scene, store>> /\ Still
  <2>1. Many(e, Counting)' = Many(e, Counting)
    BY <1>2, StillCounts DEF Counting, Apart, Ended
  <2>2. Many(e, {"compare"})' = Many(e, {"compare"})
    BY <1>2, StillCounts DEF Apart, Ended
  <2>3. Many(e, {"lock"})' = Many(e, {"lock"})
    BY <1>2, StillCounts DEF Apart, Ended
  <2>4. Many(e, {"unlock"})' = Many(e, {"unlock"})
    BY <1>2, StillCounts DEF Apart, Ended
  <2>5. CodesLeft(e)'
    BY <1>1, <1>2, <2>1 DEF CodesLeft, store
  <2> QED BY <1>1, <1>2, <2>2, <2>3, <2>4, <2>5, PasswordsQuiet
      DEF Cleaned, store, Comparing, Locking, Unlocking
<1>3. ASSUME NEW r \in Requests, Proceed(r) PROVE CodesLeft(e)' /\ PasswordsLeft(e)'
  <2>1. UNCHANGED scene
    BY <1>3 DEF Proceed, AskCooldown, AskInMemory, AskStore, AskClear, AskHold, AskMailed,
       AskUnmailed, Undo, VerifyRead, VerifyCount, VerifyDrop, VerifyPass, ClaimConsume, Lookup,
       ClaimCreate, LoginWrong, LoginLock, LoginRight, Fail
  <2>2. CASE scene.flow = "login" /\ scene.redis
    BY <1>1, <1>3, <2>1, <2>2, PasswordsProceed DEF CodesLeft
  <2>3. CASE scene.flow # "login"
    BY <1>1, <1>3, <2>1, <2>3, CodesProceed DEF PasswordsLeft
  <2>4. CASE scene.flow = "login" /\ ~scene.redis
    BY <2>1, <2>4 DEF PasswordsLeft, CodesLeft
  <2> QED BY <2>2, <2>3, <2>4
<1>4. ASSUME NEW x \in Emails, Expire(x) PROVE CodesLeft(e)' /\ PasswordsLeft(e)'
  BY <1>1, <1>4, GuessExpire
<1>5. ASSUME NEW r \in Requests, NEW from \in {"page", "elsewhere"}, NEW x \in Emails,
             NEW guess \in Codes \cup {0}, Arrival(r, from, x, guess)
      PROVE  CodesLeft(e)' /\ PasswordsLeft(e)'
  <2>1. UNCHANGED scene
    BY <1>5 DEF Arrival, Verify, VerifyInMemory, Claim, Login
  <2> QED BY <1>1, <1>5, <2>1, GuessArrival
<1> QED BY <1>2, <1>3, <1>4, <1>5, Frames

(***************************************************************************)
(* However many requests overlap, the wrong codes taken before the counter *)
(* is cleared exceed the limit by those beside the last one, the wrong     *)
(* passwords by 1 + 2 + ... + n for n requests: each of the earlier logins *)
(* that succeed only now removes the lock once more.                       *)
(***************************************************************************)
THEOREM GuessesCorrect == Spec => []GuessesBounded
<1>1. Init => GuessInv
  <2> SUFFICES ASSUME Init, NEW e \in Emails PROVE CodesLeft(e) /\ PasswordsLeft(e)
    BY DEF GuessInv
  <2>1. keys[e].attempts = 0 /\ wrong[e] = 0 /\ MaxLoginFails \in Nat \ {0} /\ MaxAttempts \in Nat \ {0}
    BY DEF Init, StoreInit, Nothing
  <2>2. Many(e, Counting) \in Nat /\ Many(e, Counting) <= N /\ N \in Nat
    BY ManyBounded
  <2> QED BY <2>1, <2>2 DEF CodesLeft, PasswordsLeft, Within
<1>2. TypeInv /\ GuessInv => GuessesBounded
  <2> SUFFICES ASSUME TypeInv, GuessInv, NEW e \in Emails, NEW q, q = N * (N + 1)
               PROVE  /\ scene.flow = "login" /\ scene.redis =>
                           2 * (wrong[e] - (MaxLoginFails - 1)) <= q
                      /\ scene.flow # "login" /\ scene.redis => wrong[e] <= MaxAttempts - 1 + N
                      /\ scene.flow # "login" /\ ~scene.redis => wrong[e] <= MaxAttempts
    BY DEF GuessesBounded, N
  <2>1. /\ CodesLeft(e) /\ PasswordsLeft(e) /\ wrong[e] \in Nat /\ keys[e].attempts \in Nat
        /\ Many(e, Counting) \in Nat /\ N \in Nat
        /\ MaxLoginFails \in Nat \ {0} /\ MaxAttempts \in Nat \ {0}
    BY ManyBounded DEF GuessInv, TypeInv, StoreOK, Entry
  <2>2. CASE scene.flow = "login" /\ scene.redis
    <3>1. /\ Comparing(e) \in Nat /\ Locking(e) \in Nat /\ Unlocking(e) \in Nat
          /\ Comparing(e) + Locking(e) + Unlocking(e) <= N
      BY ManyBounded, Together DEF Comparing, Locking, Unlocking
    <3>2. Within(keys[e].attempts, keys[e].lock, Comparing(e), Locking(e), Unlocking(e))
      BY <2>1, <2>2 DEF PasswordsLeft
    <3>3. 2 * (keys[e].attempts - (MaxLoginFails - 1)) <= q
      BY <2>1, <3>1, <3>2, WithinSteps
    <3>4. q \in Nat
      BY <2>1
    <3>5. wrong[e] <= keys[e].attempts
      BY <2>1, <2>2 DEF PasswordsLeft
    <3>6. 2 * (wrong[e] - (MaxLoginFails - 1)) <= q
      BY <2>1, <3>3, <3>4, <3>5
    <3> QED BY <2>2, <3>6
  <2>3. CASE scene.flow # "login"
    BY <2>1, <2>3 DEF CodesLeft
  <2> QED BY <2>2, <2>3
<1> QED BY <1>1, <1>2, TypeCorrect, GuessNext, PTL DEF Spec
=============================================================================
