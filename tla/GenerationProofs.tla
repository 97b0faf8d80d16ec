-------------------------- MODULE GenerationProofs --------------------------
(***************************************************************************)
(* Proofs about Generation for any tabs, number of requests, limit, budget *)
(* and costs.                                                              *)
(***************************************************************************)
EXTENDS Generation, FiniteSetTheorems, TLAPS

USE LimitsAreNumbers, RequestsAssumption

-----------------------------------------------------------------------------
(* Types *)

Saving  == Saves \cup {"saved", "unsaved"}
Making  == {"check", "count", "counted", "record", "pipeline"}

Request == [pc : PC, tab : Tabs \cup {None}, draft : Drafts \cup {0}, count : Nat,
            shared : BOOLEAN, today : BOOLEAN]

\* A save is of a draft, and a request that is still making one has none.
RequestOK(q) ==
    /\ q \in Request
    /\ q.pc # "idle" => q.tab \in Tabs
    /\ q.pc \in Saving => q.draft \in Drafts
    /\ q.pc \in Making => q.draft = 0

RequestsOK == req \in [Requests -> Request] /\ \A r \in Requests : RequestOK(req[r])

Page == [status : {"idle", "loading", "success", "error"}, draft : Drafts \cup {0},
         plan : Drafts \cup {0}, saving : BOOLEAN]

CountersOK ==
    /\ cache \in Nat /\ today \in BOOLEAN /\ rows \in Nat /\ usage \in Nat /\ rowsCost \in Nat
    /\ admitted \in Nat /\ spent \in Nat

DraftsOK ==
    /\ scene \in {"limits", "drafts"}
    /\ drafts \in [Drafts -> {"none", "live", "old"}] /\ copies \in [Drafts -> {0, 1, 2}]
    /\ page \in [Tabs -> Page]
    /\ issued \in 0 .. MaxDrafts /\ failed \in BOOLEAN /\ faults \in Nat

TypeInv == CountersOK /\ DraftsOK /\ RequestsOK

-----------------------------------------------------------------------------
(* The inductive invariant of the drafts *)

\* The request holds a draft: it brings it to the page, or saves it.
Carries(q) == q.pc \in Saving \cup {"made"} /\ q.draft # 0

\* No plan has been written for it yet, as far as the request knows.
Before(q) == q.pc \in {"made", "save", "writable", "create"}

After(q) == q.pc \in {"notify", "forget", "saved"}

DraftsIssued ==
    /\ \A r \in Requests : Carries(req[r]) => req[r].draft <= issued
    /\ \A t \in Tabs : page[t].draft <= issued
    /\ \A d \in Drafts : d > issued => copies[d] = 0

PlanWritten == \A r \in Requests : After(req[r]) => copies[req[r].draft] > 0

(***************************************************************************)
(* Until a page is told of a failed save, a draft is in one place: with    *)
(* one request, or on one page, or on the page that waits for the request  *)
(* that saves it; and its plan is written by that request alone.           *)
(***************************************************************************)
OneHolder ==
    \A r, q \in Requests :
        Carries(req[r]) /\ Carries(req[q]) /\ req[r].draft = req[q].draft => r = q

OnePage ==
    \A t, u \in Tabs : page[t].draft = page[u].draft => t = u \/ page[t].draft = 0

PageWaits ==
    \A t \in Tabs, r \in Requests :
        Carries(req[r]) /\ req[r].draft = page[t].draft => page[t].saving /\ req[r].pc \in Saving

NotYetWritten ==
    /\ \A r \in Requests : Carries(req[r]) /\ Before(req[r]) => copies[req[r].draft] = 0
    /\ \A t \in Tabs : page[t].draft # 0 /\ ~page[t].saving => copies[page[t].draft] = 0

OnePlan == \A d \in Drafts : copies[d] <= 1

InOnePlace == OneHolder /\ OnePage /\ PageWaits /\ NotYetWritten /\ OnePlan

DraftInv == TypeInv /\ DraftsIssued /\ PlanWritten /\ (~failed => InOnePlace)

-----------------------------------------------------------------------------
(* Requests *)

\* What a request may become without a draft changing hands.
Follows(x) ==
    /\ req'[x].draft = req[x].draft
    /\ Carries(req'[x]) => Carries(req[x]) /\ (req[x].pc \in Saving => req'[x].pc \in Saving)
    /\ Before(req'[x]) /\ Carries(req'[x]) => Before(req[x])
    /\ After(req'[x]) => After(req[x])

LEMMA IdleOK == RequestOK(Idle) /\ ~Carries(Idle) /\ ~After(Idle) /\ Idle.pc = "idle"
<1>1. Idle \in Request /\ Idle.pc = "idle" /\ Idle.draft = 0
  BY DEF Idle, Request, PC
<1> QED
  BY <1>1 DEF RequestOK, Carries, After, Saving, Making, Saves

\* Replacing one request by a well formed one.
LEMMA BecomesReqs ==
  ASSUME RequestsOK, NEW r \in Requests, NEW q, RequestOK(q), req' = [req EXCEPT ![r] = q]
  PROVE  RequestsOK' /\ \A x \in Requests : req'[x] = IF x = r THEN q ELSE req[x]
<1>1. q \in Request
  BY DEF RequestOK
<1>2. req' \in [Requests -> Request] /\ \A x \in Requests : req'[x] = IF x = r THEN q ELSE req[x]
  BY <1>1 DEF RequestsOK
<1>3. \A x \in Requests : RequestOK(req'[x])
  BY <1>2 DEF RequestsOK
<1> QED
  BY <1>2, <1>3 DEF RequestsOK, RequestOK

\* A request goes on to another place in the code.
LEMMA GotoReqs ==
  ASSUME RequestsOK, NEW r \in Requests, NEW pc \in PC \ {"idle"}, Goto(r, pc),
         req[r].pc # "idle",
         pc \in Saving => req[r].pc \in Saving, pc \in Making => req[r].pc \in Making
  PROVE  /\ RequestsOK'
         /\ \A x \in Requests \ {r} : req'[x] = req[x]
         /\ req'[r].pc = pc /\ req'[r].draft = req[r].draft /\ req'[r].tab = req[r].tab
         /\ req'[r].shared = req[r].shared /\ req'[r].count = req[r].count
         /\ req'[r].today = req[r].today
<1> DEFINE q == [req[r] EXCEPT !.pc = pc]
<1>1. RequestOK(req[r]) /\ req[r] \in Request
  BY DEF RequestsOK
<1>2. /\ q \in Request /\ q.pc = pc /\ q.tab = req[r].tab /\ q.draft = req[r].draft /\ q.count = req[r].count
      /\ q.shared = req[r].shared /\ q.today = req[r].today
  BY <1>1 DEF Request
<1>3. req' = [req EXCEPT ![r] = q]
  BY DEF Goto
<1> HIDE DEF q
<1>4. RequestOK(q)
  BY <1>1, <1>2 DEF RequestOK
<1>5. RequestsOK' /\ \A x \in Requests : req'[x] = IF x = r THEN q ELSE req[x]
  BY <1>3, <1>4, BecomesReqs
<1> QED
  BY <1>2, <1>5

-----------------------------------------------------------------------------
(* Steps in which no draft changes hands *)

LEMMA FollowsKept ==
  ASSUME DraftInv, CountersOK', DraftsOK', RequestsOK', \A x \in Requests : Follows(x),
         UNCHANGED <<page, copies, issued, failed>>
  PROVE  DraftInv'
<1>1. DraftsIssued'
  BY DEF DraftInv, DraftsIssued, Follows, Carries
<1>2. PlanWritten'
  BY DEF DraftInv, PlanWritten, Follows
<1>3. ASSUME ~failed PROVE InOnePlace'
  <2>1. OneHolder'
    BY <1>3 DEF DraftInv, InOnePlace, OneHolder, Follows
  <2>2. OnePage' /\ OnePlan'
    BY <1>3 DEF DraftInv, InOnePlace, OnePage, OnePlan
  <2>3. PageWaits'
    BY <1>3 DEF DraftInv, InOnePlace, PageWaits, Follows, Carries
  <2>4. NotYetWritten'
    BY <1>3 DEF DraftInv, InOnePlace, NotYetWritten, Follows
  <2> QED
    BY <2>1, <2>2, <2>3, <2>4 DEF InOnePlace
<1> QED
  BY <1>1, <1>2, <1>3 DEF DraftInv, TypeInv

\* A request goes on, with the draft it has.
LEMMA GotoKept ==
  ASSUME DraftInv, CountersOK', DraftsOK', NEW r \in Requests, NEW pc \in PC \ {"idle"}, Goto(r, pc),
         req[r].pc # "idle",
         pc \in Saving => req[r].pc \in Saving, pc \in Making => req[r].pc \in Making,
         pc = "made" => req[r].pc \in Making,
         pc \in {"save", "writable", "create"} => req[r].pc \in {"save", "writable"},
         pc \in {"notify", "forget", "saved"} => req[r].pc \in {"notify", "forget"},
         UNCHANGED <<page, copies, issued, failed>>
  PROVE  DraftInv'
<1>1. RequestsOK /\ RequestOK(req[r])
  BY DEF DraftInv, TypeInv, RequestsOK
<1>2. /\ RequestsOK' /\ \A x \in Requests \ {r} : req'[x] = req[x]
      /\ req'[r].pc = pc /\ req'[r].draft = req[r].draft
  BY <1>1, GotoReqs
<1>3. \A x \in Requests \ {r} : Follows(x)
  BY <1>2 DEF Follows, Carries, Before, After
<1>4. Follows(r)
  BY <1>1, <1>2 DEF Follows, Carries, Before, After, RequestOK, Saving, Making, Saves
<1> QED
  BY <1>2, <1>3, <1>4, FollowsKept

\* A request is replaced by one with the same draft, or none.
LEMMA BecomesKept ==
  ASSUME DraftInv, CountersOK', DraftsOK', NEW r \in Requests, NEW q, req' = [req EXCEPT ![r] = q],
         RequestOK(q), q.draft = req[r].draft, ~Carries(q), ~After(q),
         UNCHANGED <<page, copies, issued, failed>>
  PROVE  DraftInv'
<1>1. RequestsOK' /\ \A x \in Requests : req'[x] = IF x = r THEN q ELSE req[x]
  BY BecomesReqs DEF DraftInv, TypeInv
<1>2. \A x \in Requests : Follows(x)
  BY <1>1 DEF Follows, Carries, Before, After
<1> QED
  BY <1>1, <1>2, FollowsKept

\* A request is let through, or refused.
LEMMA AdmitReqs ==
  ASSUME TypeInv, NEW r \in Requests, req[r].pc \in {"check", "count", "counted"}, NEW n \in Nat,
         \/ Admit(r, n)
         \/ cache' \in Nat /\ admitted' \in Nat /\ (Pass(r) \/ Goto(r, "refused") \/ Goto(r, "count"))
  PROVE  /\ cache' \in Nat /\ admitted' \in Nat /\ RequestsOK'
         /\ \A x \in Requests \ {r} : req'[x] = req[x]
         /\ req'[r].pc \in {"record", "refused", "count"}
         /\ req'[r].draft = req[r].draft
<1>1. RequestOK(req[r]) /\ req[r] \in Request /\ req[r].draft = 0 /\ RequestsOK
  BY DEF TypeInv, RequestsOK, RequestOK, Making
<1>2. cache' \in Nat /\ admitted' \in Nat /\ (Pass(r) \/ Goto(r, "refused") \/ Goto(r, "count"))
  BY DEF Admit, TypeInv, CountersOK
<1>3. ASSUME NEW pc \in {"refused", "count"}, Goto(r, pc)
      PROVE  /\ RequestsOK' /\ \A x \in Requests \ {r} : req'[x] = req[x]
             /\ req'[r].pc = pc /\ req'[r].draft = req[r].draft
  <2>1. pc \in PC \ {"idle"} /\ pc \notin Saving /\ req[r].pc \in Making
    BY <1>3 DEF PC, Saving, Saves, Making
  <2> QED
    BY <1>1, <1>3, <2>1, GotoReqs
<1>4. CASE Pass(r)
  <2> DEFINE q == [req[r] EXCEPT !.pc = "record", !.today = TRUE]
  <2>1. q \in Request /\ q.pc = "record" /\ q.tab = req[r].tab /\ q.draft = req[r].draft
    BY <1>1 DEF Request, PC
  <2>2. req' = [req EXCEPT ![r] = q]
    BY <1>1, <1>4 DEF Pass, RequestsOK
  <2> HIDE DEF q
  <2>3. RequestOK(q)
    BY <1>1, <2>1 DEF RequestOK, Saving, Saves, Making
  <2>4. RequestsOK' /\ \A x \in Requests : req'[x] = IF x = r THEN q ELSE req[x]
    <3>1. RequestsOK
      BY <1>1
    <3> QED
      BY ZenonT(30), <2>2, <2>3, <3>1, BecomesReqs
  <2> QED
    BY <1>2, <2>1, <2>4
<1> QED
  BY <1>2, <1>3, <1>4

\* A request passes the limits.
LEMMA LimitsKept ==
  ASSUME DraftInv, NEW r \in Requests, Check(r) \/ CountRows(r) \/ Counted(r) \/ FailOpen(r) \/ Record(r)
  PROVE  DraftInv'
<1>1. TypeInv /\ CountersOK /\ DraftsOK /\ RequestsOK /\ RequestOK(req[r]) /\ req[r] \in Request
  BY DEF DraftInv, TypeInv, RequestsOK, RequestOK
<1>2. ASSUME CountersOK', DraftsOK', req[r].pc \in {"check", "count", "counted"},
             NEW n \in Nat,
             \/ Admit(r, n)
             \/ cache' \in Nat /\ admitted' \in Nat /\ (Pass(r) \/ Goto(r, "refused") \/ Goto(r, "count")),
             UNCHANGED <<page, copies, issued, failed>>
      PROVE  DraftInv'
  <2>1. /\ RequestsOK' /\ \A x \in Requests \ {r} : req'[x] = req[x]
        /\ req'[r].pc \in {"record", "refused", "count"} /\ req'[r].draft = req[r].draft
    BY <1>1, <1>2, AdmitReqs
  <2>2. \A x \in Requests : Follows(x)
    BY <2>1 DEF Follows, Carries, Before, After, Saving, Saves
  <2> QED
    BY <1>2, <2>1, <2>2, FollowsKept
<1>3. CASE Check(r)
  <2> DEFINE known == IF today THEN cache ELSE 0
  <2>1. /\ known \in Nat /\ today' \in BOOLEAN /\ req[r].pc = "check"
        /\ UNCHANGED <<scene, rows, usage, rowsCost, drafts, copies, page, issued, spent, failed, faults>>
    BY <1>1, <1>3 DEF Check, CountersOK, At
  <2>2. Admit(r, known) \/ (cache' = 0 /\ admitted' = admitted /\ Goto(r, "count"))
    BY <1>3 DEF Check
  <2> HIDE DEF known
  <2>3. cache' \in Nat /\ admitted' \in Nat
    BY <1>1, <2>1, <2>2, AdmitReqs DEF CountersOK
  <2>4. CountersOK' /\ DraftsOK'
    BY <1>1, <2>1, <2>3 DEF CountersOK, DraftsOK
  <2> QED
    BY <1>2, <2>1, <2>2, <2>3, <2>4
<1>4. CASE Counted(r)
  <2>1. /\ req[r].count \in Nat /\ req[r].pc = "counted" /\ Admit(r, req[r].count)
        /\ UNCHANGED <<scene, today, rows, usage, rowsCost, drafts, copies, page, issued, spent, failed, faults>>
    BY <1>1, <1>4 DEF Counted, Request, At
  <2>2. cache' \in Nat /\ admitted' \in Nat
    BY <1>1, <2>1, AdmitReqs
  <2>3. CountersOK' /\ DraftsOK'
    BY <1>1, <2>1, <2>2 DEF CountersOK, DraftsOK
  <2> QED
    BY <1>2, <2>1, <2>3
<1>5. CASE FailOpen(r)
  <2>1. /\ req[r].pc = "count" /\ faults' \in Nat
        /\ cache' \in Nat /\ admitted' \in Nat /\ (Pass(r) \/ Goto(r, "refused"))
        /\ UNCHANGED <<scene, today, rows, usage, rowsCost, drafts, copies, page, issued, spent, failed>>
    BY <1>1, <1>5 DEF FailOpen, Fault, At, CountersOK, DraftsOK
  <2>2. CountersOK' /\ DraftsOK'
    BY <1>1, <2>1 DEF CountersOK, DraftsOK
  <2> QED
    BY <1>2, <2>1, <2>2
<1>6. CASE CountRows(r)
  <2> DEFINE q == [req[r] EXCEPT !.pc = "counted", !.count = rows]
  <2>1. /\ req[r].pc = "count" /\ req[r].draft = 0 /\ rows \in Nat /\ req' = [req EXCEPT ![r] = q]
    BY <1>1, <1>6 DEF CountRows, At, RequestOK, Making, CountersOK, RequestsOK
  <2>2. q \in Request /\ q.pc = "counted" /\ q.tab = req[r].tab /\ q.draft = req[r].draft
    BY <1>1, <2>1 DEF Request, PC
  <2> HIDE DEF q
  <2>3. RequestOK(q) /\ ~Carries(q) /\ ~After(q)
    BY <1>1, <2>1, <2>2 DEF RequestOK, Saving, Saves, Making, Carries, After
  <2>4. CountersOK' /\ DraftsOK' /\ UNCHANGED <<page, copies, issued, failed>>
    BY <1>1, <1>6 DEF CountRows, counters, history, CountersOK, DraftsOK
  <2> QED
    BY <2>1, <2>2, <2>3, <2>4, BecomesKept
<1>7. CASE Record(r)
  <2>1. /\ rows' \in Nat /\ faults' \in Nat /\ Goto(r, "pipeline") /\ req[r].pc = "record"
        /\ UNCHANGED <<scene, cache, today, usage, rowsCost, drafts, copies, page, issued, admitted, spent, failed>>
    BY <1>1, <1>7 DEF Record, Fault, At, CountersOK, DraftsOK
  <2>2. CountersOK' /\ DraftsOK'
    BY <1>1, <2>1 DEF CountersOK, DraftsOK
  <2> QED
    BY <2>1, <2>2, GotoKept DEF PC, Saving, Saves, Making
<1> QED
  BY <1>3, <1>4, <1>5, <1>6, <1>7

\* The pipeline ends without a draft.
LEMMA PipelineKept ==
  ASSUME DraftInv, NEW r \in Requests, Pipeline(r) \/ PipelineFails(r) PROVE DraftInv'
<1>1. CountersOK /\ DraftsOK /\ RequestsOK
  BY DEF DraftInv, TypeInv
<1>2. CASE Pipeline(r)
  <2>1. PICK cost \in Costs : usage' = usage + cost /\ spent' = spent + cost
                              /\ (rowsCost' = rowsCost + cost \/ rowsCost' = rowsCost)
    BY <1>2 DEF Pipeline, Track
  <2>2. faults' \in Nat
    BY <1>1, <1>2 DEF Pipeline, Track, Fault, DraftsOK
  <2>3. CountersOK' /\ DraftsOK'
    BY <1>1, <1>2, <2>1, <2>2 DEF Pipeline, CountersOK, DraftsOK
  <2> QED
    BY <1>2, <2>3, GotoKept DEF Pipeline, At, PC, Saving, Saves, Making
<1>3. CASE PipelineFails(r)
  <2>1. CountersOK' /\ DraftsOK' /\ UNCHANGED <<page, copies, issued, failed>>
    BY <1>1, <1>3 DEF PipelineFails, counters, history, CountersOK, DraftsOK
  <2> QED
    BY <1>3, <2>1, GotoKept DEF PipelineFails, At, PC, Saving, Saves, Making
<1> QED
  BY <1>2, <1>3

\* The steps of a save that write no plan.
LEMMA SavesKept ==
  ASSUME DraftInv, NEW r \in Requests,
         SaveStart(r) \/ SaveWritable(r) \/ SaveNotify(r) \/ SaveForget(r) \/ Fail(r)
  PROVE  DraftInv'
<1>1. CountersOK /\ DraftsOK /\ RequestsOK /\ RequestOK(req[r])
  BY DEF DraftInv, TypeInv, RequestsOK
<1>2. CASE SaveStart(r)
  <2>1. drafts' \in [Drafts -> {"none", "live", "old"}]
    BY <1>1, <1>2 DEF SaveStart, Prune, DraftsOK
  <2>2. CountersOK' /\ DraftsOK' /\ UNCHANGED <<page, copies, issued, failed>>
    BY <1>1, <1>2, <2>1 DEF SaveStart, counters, history, CountersOK, DraftsOK
  <2>3. PICK pc \in {"unsaved", "writable", "create"} : Goto(r, pc)
    BY <1>2 DEF SaveStart
  <2> QED
    BY <1>2, <2>2, <2>3, GotoKept DEF SaveStart, At, PC, Saving, Saves, Making
<1>3. CASE SaveWritable(r)
  <2>1. CountersOK' /\ DraftsOK' /\ UNCHANGED <<page, copies, issued, failed>>
    BY <1>1, <1>3 DEF SaveWritable, counters, history, CountersOK, DraftsOK
  <2> QED
    BY <1>3, <2>1, GotoKept DEF SaveWritable, At, PC, Saving, Saves, Making
<1>4. CASE SaveNotify(r)
  <2>1. CountersOK' /\ DraftsOK' /\ UNCHANGED <<page, copies, issued, failed>>
    BY <1>1, <1>4 DEF SaveNotify, counters, history, CountersOK, DraftsOK
  <2> QED
    BY <1>4, <2>1, GotoKept DEF SaveNotify, At, PC, Saving, Saves, Making
<1>5. CASE SaveForget(r)
  <2>1. drafts' \in [Drafts -> {"none", "live", "old"}]
    BY <1>1, <1>5 DEF SaveForget, DraftsOK
  <2>2. CountersOK' /\ DraftsOK' /\ UNCHANGED <<page, copies, issued, failed>>
    BY <1>1, <1>5, <2>1 DEF SaveForget, counters, history, CountersOK, DraftsOK
  <2> QED
    BY <1>5, <2>2, GotoKept DEF SaveForget, At, PC, Saving, Saves, Making
<1>6. CASE Fail(r)
  <2>1. faults' \in Nat
    BY <1>1, <1>6 DEF Fail, Fault, DraftsOK
  <2>2. CountersOK' /\ DraftsOK' /\ UNCHANGED <<page, copies, issued, failed>>
    BY <1>1, <1>6, <2>1 DEF Fail, counters, CountersOK, DraftsOK
  <2>3. PICK pc \in {"unsaved", "refused"} :
           Goto(r, pc) /\ (pc = "unsaved" => req[r].pc \in Saving) /\ req[r].pc # "idle"
    BY <1>6 DEF Fail, Saving, Saves
  <2> QED
    BY <2>2, <2>3, GotoKept DEF PC, Saving, Saves, Making
<1> QED
  BY <1>2, <1>3, <1>4, <1>5, <1>6

\* The process starts again, a day or a month begins, a draft gets old.
LEMMA CalendarKept ==
  ASSUME DraftInv, Restart \/ NewDay \/ NewMonth \/ \E d \in Drafts : TwentyMinutes(d)
  PROVE  DraftInv'
<1>1. CountersOK /\ DraftsOK /\ RequestsOK /\ \A x \in Requests : RequestOK(req[x]) /\ req[x] \in Request
  BY DEF DraftInv, TypeInv, RequestsOK, RequestOK
<1>2. ASSUME UNCHANGED <<req, page, copies, issued, failed>>, CountersOK', DraftsOK' PROVE DraftInv'
  <2>1. RequestsOK' /\ \A x \in Requests : Follows(x)
    BY <1>1, <1>2 DEF RequestsOK, Follows
  <2> QED
    BY <1>2, <2>1, FollowsKept
<1>3. CASE NewMonth
  <2>1. CountersOK' /\ DraftsOK'
    BY <1>1, <1>3 DEF NewMonth, CountersOK, DraftsOK
  <2> QED
    BY <1>2, <1>3, <2>1 DEF NewMonth
<1>4. ASSUME NEW d \in Drafts, TwentyMinutes(d) PROVE DraftInv'
  <2>1. drafts' \in [Drafts -> {"none", "live", "old"}]
    BY <1>1, <1>4 DEF TwentyMinutes, DraftsOK
  <2>2. CountersOK' /\ DraftsOK'
    BY <1>1, <1>4, <2>1 DEF TwentyMinutes, CountersOK, DraftsOK, counters, history
  <2> QED
    BY <1>2, <1>4, <2>2 DEF TwentyMinutes, history
<1>5. CASE Restart
  <2>1. CountersOK' /\ DraftsOK' /\ UNCHANGED <<page, copies, issued, failed>>
    BY <1>1, <1>5 DEF Restart, Fault, CountersOK, DraftsOK
  <2>2. ASSUME NEW x \in Requests PROVE RequestOK(req'[x]) /\ Follows(x)
    <3>1. req'[x] = IF req[x].pc \in Answered THEN req[x] ELSE [req[x] EXCEPT !.pc = Refused(req[x])]
      BY <1>5 DEF Restart
    <3>2. CASE req[x].pc \in Answered
      BY <1>1, <3>1, <3>2 DEF Follows
    <3>3. CASE req[x].pc \notin Answered
      <4> DEFINE pc == Refused(req[x])
                 q  == [req[x] EXCEPT !.pc = pc]
      <4>1. pc \in {"unsaved", "refused"} /\ (pc = "unsaved" => req[x].pc \in Saves)
        BY DEF Refused
      <4>2. pc \in PC
        BY <4>1 DEF PC
      <4>3. q \in Request /\ q.pc = pc /\ q.tab = req[x].tab /\ q.draft = req[x].draft
        <5> HIDE DEF pc
        <5> QED
          BY <1>1, <4>2 DEF Request
      <4> HIDE DEF q, pc
      <4>4. RequestOK(q)
        BY <1>1, <3>3, <4>1, <4>3 DEF RequestOK, Saving, Making, Saves, Answered
      <4>5. req'[x] = q
        BY <3>1, <3>3 DEF q, pc
      <4> QED
        BY <4>1, <4>3, <4>4, <4>5 DEF Follows, Carries, Before, After, Saving, Saves
    <3> QED
      BY <3>2, <3>3
  <2>3. req' \in [Requests -> Request]
    <3>1. \A x \in Requests : req'[x] \in Request
      BY <2>2 DEF RequestOK
    <3> QED
      BY <1>5, <3>1 DEF Restart
  <2>4. RequestsOK'
    BY <2>2, <2>3 DEF RequestsOK, RequestOK
  <2> QED
    BY <2>1, <2>2, <2>4, FollowsKept
<1>6. CASE NewDay
  <2>1. CountersOK' /\ DraftsOK' /\ UNCHANGED <<page, copies, issued, failed>>
    BY <1>1, <1>6 DEF NewDay, CountersOK, DraftsOK
  <2>2. ASSUME NEW x \in Requests PROVE RequestOK(req'[x]) /\ Follows(x)
    <3> DEFINE idle == At(x, "idle")
               q    == [req[x] EXCEPT !.today = idle]
    <3>1. req'[x] = q /\ idle \in BOOLEAN
      BY <1>6 DEF NewDay, At
    <3>2. q \in Request /\ q.pc = req[x].pc /\ q.tab = req[x].tab /\ q.draft = req[x].draft
      <4> HIDE DEF idle
      <4> QED
        BY <1>1, <3>1 DEF Request
    <3> HIDE DEF q
    <3>3. RequestOK(q)
      BY <1>1, <3>2 DEF RequestOK
    <3> QED
      BY <3>1, <3>2, <3>3 DEF Follows, Carries, Before, After
  <2>3. req' \in [Requests -> Request]
    <3>1. \A x \in Requests : req'[x] \in Request
      BY <2>2 DEF RequestOK
    <3> QED
      BY <1>6, <3>1 DEF NewDay
  <2>4. RequestsOK'
    BY <2>2, <2>3 DEF RequestsOK, RequestOK
  <2> QED
    BY <2>1, <2>2, <2>4, FollowsKept
<1> QED
  BY <1>3, <1>4, <1>5, <1>6

-----------------------------------------------------------------------------
(* Steps in which a draft changes hands *)

\* A page asks for a new plan: the draft it showed is dropped.
LEMMA GenerateKept ==
  ASSUME DraftInv, NEW r \in Requests, NEW t \in Tabs, Generate(r, t) PROVE DraftInv'
<1> DEFINE pc == IF scene = "limits" THEN "check" ELSE "pipeline"
           q  == [Idle EXCEPT !.pc = pc, !.tab = t]
           p  == [Blank EXCEPT !.status = "loading"]
<1>1. /\ CountersOK /\ DraftsOK /\ RequestsOK /\ req[r].pc = "idle"
      /\ req' = [req EXCEPT ![r] = q] /\ page' = [page EXCEPT ![t] = p]
      /\ UNCHANGED <<scene, counters, drafts, copies, issued, history>>
  BY DEF DraftInv, TypeInv, Generate, At
<1>2. pc \in {"check", "pipeline"}
  OBVIOUS
<1> HIDE DEF pc
<1>3. q \in Request /\ q.pc = pc /\ q.tab = t /\ q.draft = 0
  BY <1>2, IdleOK DEF RequestOK, Request, Idle, PC
<1>4. p \in Page /\ p.draft = 0 /\ ~p.saving
  BY DEF Blank, Page
<1> HIDE DEF q, p
<1>5. RequestOK(q) /\ ~Carries(q) /\ ~After(q)
  BY <1>2, <1>3 DEF RequestOK, Carries, After, Saving, Saves
<1>6. RequestsOK' /\ \A x \in Requests : req'[x] = IF x = r THEN q ELSE req[x]
  BY ZenonT(30), <1>1, <1>5, BecomesReqs
<1>7. page' \in [Tabs -> Page] /\ \A u \in Tabs : page'[u] = IF u = t THEN p ELSE page[u]
  BY <1>1, <1>4 DEF DraftsOK
<1>8. CountersOK' /\ DraftsOK' /\ UNCHANGED <<copies, issued, failed>>
  BY <1>1, <1>7 DEF counters, history, CountersOK, DraftsOK
<1>9. DraftsIssued'
  BY <1>4, <1>5, <1>6, <1>7, <1>8 DEF DraftInv, DraftsIssued, DraftsOK
<1>10. PlanWritten'
  BY <1>5, <1>6, <1>8 DEF DraftInv, PlanWritten
<1>11. ASSUME ~failed PROVE InOnePlace'
  <2>1. OneHolder'
    BY <1>5, <1>6, <1>11 DEF DraftInv, InOnePlace, OneHolder
  <2>2. OnePage' /\ OnePlan'
    BY <1>4, <1>7, <1>8, <1>11 DEF DraftInv, InOnePlace, OnePage, OnePlan
  <2>3. PageWaits'
    <3>1. ASSUME NEW u \in Tabs, NEW x \in Requests, Carries(req'[x]), req'[x].draft = page'[u].draft
          PROVE  page'[u].saving /\ req'[x].pc \in Saving
      <4>1. x # r /\ u # t
        BY <1>4, <1>5, <1>6, <1>7, <3>1 DEF Carries
      <4> QED
        BY <1>6, <1>7, <1>11, <3>1, <4>1 DEF DraftInv, InOnePlace, PageWaits
    <3> QED
      BY <3>1 DEF PageWaits, Carries
  <2>4. NotYetWritten'
    BY <1>4, <1>5, <1>6, <1>7, <1>8, <1>11 DEF DraftInv, InOnePlace, NotYetWritten
  <2> QED
    BY <2>1, <2>2, <2>3, <2>4 DEF InOnePlace
<1> QED
  BY <1>6, <1>8, <1>9, <1>10, <1>11 DEF DraftInv, TypeInv

\* A draft is made, with a number that no request and no page has.
LEMMA MakeDraftKept ==
  ASSUME DraftInv, NEW r \in Requests, MakeDraft(r) PROVE DraftInv'
<1> DEFINE d == issued + 1
           q == [req[r] EXCEPT !.pc = "made", !.draft = d]
<1>1. /\ CountersOK /\ DraftsOK /\ RequestsOK /\ RequestOK(req[r]) /\ req[r].pc = "pipeline"
      /\ issued' = d /\ UNCHANGED <<scene, counters, copies, page, history>>
      /\ issued \in Nat /\ d \in Drafts
  BY DEF DraftInv, TypeInv, RequestsOK, MakeDraft, At, DraftsOK, Drafts
<1>2. q \in Request /\ q.pc = "made" /\ q.draft = d /\ q.tab = req[r].tab
  BY <1>1 DEF RequestOK, Request, PC
<1>3. req' = [req EXCEPT ![r] = q]
  BY <1>1 DEF MakeDraft, RequestsOK
<1>4. drafts' \in [Drafts -> {"none", "live", "old"}]
  BY <1>1 DEF MakeDraft, Prune, DraftsOK
<1> HIDE DEF q
<1>5. RequestOK(q) /\ Carries(q) /\ ~After(q)
  BY <1>1, <1>2 DEF RequestOK, Carries, After, Saving, Saves, Making, Drafts
<1>6. RequestsOK' /\ \A x \in Requests : req'[x] = IF x = r THEN q ELSE req[x]
  BY ZenonT(30), <1>1, <1>3, <1>5, BecomesReqs
<1>7. CountersOK' /\ DraftsOK'
  BY <1>1, <1>4 DEF counters, history, CountersOK, DraftsOK, Drafts
<1>8. /\ \A x \in Requests : Carries(req[x]) => req[x].draft # d
      /\ \A t \in Tabs : page[t].draft # d
      /\ copies[d] = 0
  BY <1>1 DEF DraftInv, DraftsIssued, DraftsOK, RequestsOK, RequestOK, Request, Page, Drafts
<1>9. DraftsIssued'
  <2>1. \A x \in Requests : Carries(req'[x]) => req'[x].draft <= d
    BY <1>1, <1>2, <1>6 DEF DraftInv, DraftsIssued, RequestsOK, RequestOK, Request, Drafts
  <2>2. \A t \in Tabs : page'[t].draft <= d
    BY <1>1 DEF DraftInv, DraftsIssued, DraftsOK, Page, Drafts
  <2>3. \A e \in Drafts : e > d => copies'[e] = 0
    BY <1>1 DEF DraftInv, DraftsIssued, Drafts
  <2> QED
    BY <1>1, <2>1, <2>2, <2>3 DEF DraftsIssued, Carries
<1>10. PlanWritten'
  BY <1>1, <1>5, <1>6 DEF DraftInv, PlanWritten
<1>11. ASSUME ~failed PROVE InOnePlace'
  <2>1. OneHolder'
    BY <1>2, <1>6, <1>8, <1>11 DEF DraftInv, InOnePlace, OneHolder
  <2>2. OnePage' /\ OnePlan'
    BY <1>1, <1>11 DEF DraftInv, InOnePlace, OnePage, OnePlan
  <2>3. PageWaits'
    BY <1>1, <1>2, <1>6, <1>8, <1>11 DEF DraftInv, InOnePlace, PageWaits
  <2>4. NotYetWritten'
    BY <1>1, <1>2, <1>6, <1>8, <1>11 DEF DraftInv, InOnePlace, NotYetWritten
  <2> QED
    BY <2>1, <2>2, <2>3, <2>4 DEF InOnePlace
<1>12. ~failed' => ~failed
  BY <1>1 DEF history
<1> QED
  BY <1>6, <1>7, <1>9, <1>10, <1>11, <1>12 DEF DraftInv, TypeInv

\* A save begins: the page waits for it from now on.
LEMMA SaveKept ==
  ASSUME DraftInv, NEW r \in Requests, NEW t \in Tabs, NEW shared \in BOOLEAN, Save(r, t, shared) PROVE DraftInv'
<1> DEFINE d == page[t].draft
           q == [Idle EXCEPT !.pc = "save", !.tab = t, !.draft = d, !.shared = shared]
           p == [page[t] EXCEPT !.saving = TRUE]
<1>1. /\ CountersOK /\ DraftsOK /\ RequestsOK /\ req[r].pc = "idle" /\ page[t] \in Page
      /\ req' = [req EXCEPT ![r] = q] /\ d # 0 /\ ~page[t].saving /\ d \in Drafts
      /\ UNCHANGED <<scene, counters, drafts, copies, issued, history>>
  BY DEF DraftInv, TypeInv, Save, At, DraftsOK, Page
<1>2. page' = [page EXCEPT ![t] = p]
  BY <1>1 DEF Save
<1>3. p \in Page /\ p.draft = d /\ p.saving
  BY <1>1 DEF Page
<1> HIDE DEF p
<1>4. q \in Request /\ q.pc = "save" /\ q.tab = t /\ q.draft = d
  <2> HIDE DEF d
  <2> QED
    BY <1>1, IdleOK DEF RequestOK, Request, Idle, PC
<1> HIDE DEF q
<1>5. RequestOK(q) /\ Carries(q) /\ ~After(q) /\ q.pc \in Saving
  BY <1>1, <1>4 DEF RequestOK, Carries, After, Saving, Saves, Making
<1>6. RequestsOK' /\ \A x \in Requests : req'[x] = IF x = r THEN q ELSE req[x]
  <2>1. RequestsOK /\ req' = [req EXCEPT ![r] = q] /\ RequestOK(q)
    BY <1>1, <1>5
  <2> QED
    BY <2>1, BecomesReqs
<1>7. page' \in [Tabs -> Page] /\ \A u \in Tabs : page'[u] = IF u = t THEN p ELSE page[u]
  BY <1>1, <1>2, <1>3 DEF DraftsOK
<1>8. CountersOK' /\ DraftsOK' /\ UNCHANGED <<copies, issued, failed>>
  BY <1>1, <1>7 DEF counters, history, CountersOK, DraftsOK
<1>9. \A u \in Tabs : page'[u].draft = page[u].draft
  BY <1>3, <1>7
<1>10. DraftsIssued'
  BY <1>4, <1>6, <1>8, <1>9 DEF DraftInv, DraftsIssued
<1>11. PlanWritten'
  BY <1>5, <1>6, <1>8 DEF DraftInv, PlanWritten
<1>12. ASSUME ~failed PROVE InOnePlace'
  <2>1. \A x \in Requests : Carries(req[x]) => req[x].draft # d
    BY <1>1, <1>12 DEF DraftInv, InOnePlace, PageWaits
  <2>2. OneHolder'
    BY <1>4, <1>6, <1>12, <2>1 DEF DraftInv, InOnePlace, OneHolder
  <2>3. OnePage' /\ OnePlan'
    BY <1>8, <1>9, <1>12 DEF DraftInv, InOnePlace, OnePage, OnePlan
  <2>4. PageWaits'
    <3>1. ASSUME NEW u \in Tabs, NEW x \in Requests, Carries(req'[x]), req'[x].draft = page'[u].draft
          PROVE  page'[u].saving /\ req'[x].pc \in Saving
      <4>1. CASE x = r
        <5>1. page[u].draft = page[t].draft
          BY <1>4, <1>6, <1>9, <3>1, <4>1
        <5>2. u = t
          BY <1>1, <1>12, <5>1 DEF DraftInv, InOnePlace, OnePage
        <5> QED
          BY <1>3, <1>5, <1>6, <1>7, <4>1, <5>2
      <4>2. CASE x # r
        <5>1. page[u].saving /\ req[x].pc \in Saving
          BY <1>6, <1>9, <1>12, <3>1, <4>2 DEF DraftInv, InOnePlace, PageWaits
        <5> QED
          BY <1>3, <1>6, <1>7, <4>2, <5>1
      <4> QED
        BY <4>1, <4>2
    <3> QED
      BY <3>1 DEF PageWaits, Carries
  <2>5. NotYetWritten'
    <3>1. copies[d] = 0
      BY <1>1, <1>12 DEF DraftInv, InOnePlace, NotYetWritten
    <3> QED
      BY <1>3, <1>4, <1>6, <1>7, <1>8, <1>12, <3>1 DEF DraftInv, InOnePlace, NotYetWritten
  <2> QED
    BY <2>2, <2>3, <2>4, <2>5 DEF InOnePlace
<1> QED
  BY <1>6, <1>8, <1>10, <1>11, <1>12 DEF DraftInv, TypeInv

\* The plan of a draft is written.
LEMMA SaveCreateKept ==
  ASSUME DraftInv, NEW r \in Requests, SaveCreate(r) PROVE DraftInv'
<1> DEFINE d  == req[r].draft
           pc == IF req[r].shared THEN "notify" ELSE "forget"
<1>1. /\ CountersOK /\ DraftsOK /\ RequestsOK /\ RequestOK(req[r]) /\ req[r].pc = "create" /\ d \in Drafts
      /\ copies' = [copies EXCEPT ![d] = IF @ = 0 THEN 1 ELSE 2]
      /\ Goto(r, pc) /\ pc \in {"notify", "forget"}
      /\ UNCHANGED <<scene, counters, drafts, page, issued, history>>
  BY DEF DraftInv, TypeInv, RequestsOK, RequestOK, SaveCreate, At, Saving, Saves
<1> HIDE DEF pc
<1>2. /\ RequestsOK' /\ \A x \in Requests \ {r} : req'[x] = req[x]
      /\ req'[r].pc = pc /\ req'[r].draft = d
  BY <1>1, GotoReqs DEF PC, Saving, Saves, Making
<1>3. copies' \in [Drafts -> {0, 1, 2}] /\ \A e \in Drafts : copies'[e] = IF e = d THEN (IF copies[d] = 0 THEN 1 ELSE 2)
                                                                          ELSE copies[e]
  BY <1>1 DEF DraftsOK
<1>4. CountersOK' /\ DraftsOK'
  BY <1>1, <1>3 DEF counters, history, CountersOK, DraftsOK
<1>5. d # 0 /\ Carries(req[r]) /\ Before(req[r]) /\ \A x \in Requests : Carries(req'[x]) <=> Carries(req[x])
  BY <1>1, <1>2 DEF Carries, Before, Saving, Saves, Drafts
<1>6. DraftsIssued'
  <2>1. d <= issued
    BY <1>5 DEF DraftInv, DraftsIssued
  <2>2. \A e \in Drafts : e > issued => copies'[e] = 0
    BY <1>1, <1>3, <2>1 DEF DraftInv, DraftsIssued, DraftsOK, Drafts
  <2>3. \A x \in Requests : req'[x].draft = req[x].draft
    BY <1>2
  <2> QED
    BY <1>1, <1>5, <2>2, <2>3 DEF DraftInv, DraftsIssued
<1>7. PlanWritten'
  <2>1. \A x \in Requests : After(req'[x]) => copies'[req'[x].draft] > 0
    <3>1. \A x \in Requests : After(req[x]) => req[x].draft \in Drafts
      BY <1>1 DEF RequestsOK, RequestOK, After, Saving, Saves
    <3> QED
      BY <1>1, <1>2, <1>3, <3>1 DEF DraftInv, PlanWritten
  <2> QED
    BY <2>1 DEF PlanWritten
<1>8. ASSUME ~failed PROVE InOnePlace'
  <2>1. /\ copies[d] = 0
        /\ \A x \in Requests \ {r} : Carries(req[x]) => req[x].draft # d
        /\ \A t \in Tabs : page[t].draft = d => page[t].saving
    BY <1>5, <1>8 DEF DraftInv, InOnePlace, NotYetWritten, OneHolder, PageWaits
  <2>2. OneHolder'
    BY <1>2, <1>5, <1>8 DEF DraftInv, InOnePlace, OneHolder
  <2>3. OnePage' /\ OnePlan'
    BY <1>1, <1>3, <1>8, <2>1 DEF DraftInv, InOnePlace, OnePage, OnePlan
  <2>4. PageWaits'
    <3>1. pc \in Saving
      BY <1>1 DEF Saving, Saves
    <3> QED
      BY <1>1, <1>2, <1>5, <1>8, <3>1 DEF DraftInv, InOnePlace, PageWaits
  <2>5. NotYetWritten'
    <3>1. ASSUME NEW x \in Requests, Carries(req'[x]), Before(req'[x]) PROVE copies'[req'[x].draft] = 0
      <4>1. x # r
        BY <1>1, <1>2, <3>1 DEF Before
      <4>2. req[x].draft \in Drafts /\ req[x].draft # d /\ copies[req[x].draft] = 0
        BY <1>1, <1>2, <1>8, <2>1, <3>1, <4>1
          DEF DraftInv, InOnePlace, NotYetWritten, RequestsOK, RequestOK, Request, Carries
      <4> QED
        BY <1>2, <1>3, <4>1, <4>2
    <3>2. ASSUME NEW t \in Tabs, page[t].draft # 0, ~page[t].saving PROVE copies'[page[t].draft] = 0
      <4>1. page[t].draft \in Drafts /\ page[t].draft # d
        BY <1>1, <2>1, <3>2 DEF DraftsOK, Page
      <4> QED
        BY <1>3, <1>8, <3>2, <4>1 DEF DraftInv, InOnePlace, NotYetWritten
    <3> QED
      BY <1>1, <3>1, <3>2 DEF NotYetWritten, Carries
  <2> QED
    BY <2>2, <2>3, <2>4, <2>5 DEF InOnePlace
<1>9. ~failed' => ~failed
  BY <1>1 DEF history
<1> QED
  BY <1>2, <1>4, <1>6, <1>7, <1>8, <1>9 DEF DraftInv, TypeInv

\* A page gets an answer: the draft that was made, or the plan of the one that was saved.
LEMMA ReceiveKept ==
  ASSUME DraftInv, NEW r \in Requests, Receive(r) PROVE DraftInv'
<1> DEFINE t == req[r].tab
           d == req[r].draft
           p == CASE At(r, "made")    -> [page[t] EXCEPT !.status = "success", !.draft = d, !.plan = 0]
                  [] At(r, "refused") -> [page[t] EXCEPT !.status = "error"]
                  [] At(r, "saved")   -> [page[t] EXCEPT !.draft = 0, !.plan = d, !.saving = FALSE]
                  [] OTHER            -> [page[t] EXCEPT !.saving = FALSE]
<1>1. /\ CountersOK /\ DraftsOK /\ RequestsOK /\ RequestOK(req[r]) /\ req[r].pc \in Answered \ {"idle"}
      /\ t \in Tabs /\ page[t] \in Page /\ d \in Drafts \cup {0}
      /\ req' = [req EXCEPT ![r] = Idle] /\ failed' = (failed \/ At(r, "unsaved"))
      /\ UNCHANGED <<scene, counters, drafts, copies, issued, admitted, spent, faults>>
  BY DEF DraftInv, TypeInv, RequestsOK, RequestOK, Request, DraftsOK, Receive
<1>2. page' = [page EXCEPT ![t] = p]
  BY <1>1 DEF Receive, DraftsOK
<1>3. p \in Page
  BY <1>1 DEF At, Page
<1>4. /\ req[r].pc = "made" => p.draft = d /\ p.saving = page[t].saving
      /\ req[r].pc = "refused" => p.draft = page[t].draft /\ p.saving = page[t].saving
      /\ req[r].pc = "saved" => p.draft = 0 /\ ~p.saving
      /\ p.draft \in {page[t].draft, d, 0} /\ (p.draft = d => d = page[t].draft \/ d = 0 \/ req[r].pc = "made")
  BY <1>1 DEF At, Page
<1> HIDE DEF p
<1>5. RequestsOK' /\ \A x \in Requests : req'[x] = IF x = r THEN Idle ELSE req[x]
  <2>1. RequestsOK /\ req' = [req EXCEPT ![r] = Idle] /\ RequestOK(Idle)
    BY <1>1, IdleOK
  <2> QED
    BY <2>1, BecomesReqs
<1>6. page' \in [Tabs -> Page] /\ \A u \in Tabs : page'[u] = IF u = t THEN p ELSE page[u]
  BY <1>1, <1>2, <1>3 DEF DraftsOK
<1>7. CountersOK' /\ DraftsOK'
  BY <1>1, <1>6 DEF counters, CountersOK, DraftsOK
<1>8. DraftsIssued'
  <2>1. p.draft <= issued
    BY <1>1, <1>4 DEF DraftInv, DraftsIssued, DraftsOK, Carries, Drafts
  <2> QED
    BY <1>1, <1>5, <1>6, <2>1, IdleOK DEF DraftInv, DraftsIssued
<1>9. PlanWritten'
  BY <1>1, <1>5, IdleOK DEF DraftInv, PlanWritten
<1>10. ASSUME ~failed, req[r].pc # "unsaved" PROVE InOnePlace'
  <2>1. OneHolder'
    BY <1>5, <1>10, IdleOK DEF DraftInv, InOnePlace, OneHolder
  <2>2. req[r].pc = "made" /\ d # 0 =>
          /\ Carries(req[r]) /\ Before(req[r]) /\ copies[d] = 0
          /\ \A u \in Tabs : page[u].draft # d
          /\ \A x \in Requests \ {r} : Carries(req[x]) => req[x].draft # d
    BY <1>10 DEF DraftInv, InOnePlace, PageWaits, NotYetWritten, OneHolder, Carries, Before, Saving, Saves
  <2>3. OnePage'
    <3>1. ASSUME NEW u \in Tabs, NEW v \in Tabs, page'[u].draft = page'[v].draft PROVE u = v \/ page'[u].draft = 0
      BY <1>1, <1>4, <1>6, <1>10, <2>2, <3>1 DEF DraftInv, InOnePlace, OnePage, Answered
    <3> QED
      BY <3>1 DEF OnePage
  <2>4. OnePlan'
    BY <1>1, <1>10 DEF DraftInv, InOnePlace, OnePlan
  <2>5. PageWaits'
    <3>1. ASSUME NEW u \in Tabs, NEW x \in Requests, Carries(req'[x]), req'[x].draft = page'[u].draft
          PROVE  page'[u].saving /\ req'[x].pc \in Saving
      <4>1. x # r /\ req'[x] = req[x] /\ req[x].draft # 0
        BY <1>5, <3>1, IdleOK DEF Carries
      <4>2. CASE u # t
        BY <1>6, <1>10, <3>1, <4>1, <4>2 DEF DraftInv, InOnePlace, PageWaits
      <4>3. CASE u = t
        <5>1. req[r].pc = "refused"
          BY <1>1, <1>4, <1>6, <1>10, <2>2, <3>1, <4>1, <4>3 DEF Answered
        <5> QED
          BY <1>4, <1>6, <1>10, <3>1, <4>1, <4>3, <5>1 DEF DraftInv, InOnePlace, PageWaits
      <4> QED
        BY <4>2, <4>3
    <3> QED
      BY <3>1 DEF PageWaits, Carries
  <2>6. NotYetWritten'
    <3>1. \A x \in Requests : Carries(req'[x]) /\ Before(req'[x]) => copies'[req'[x].draft] = 0
      BY <1>1, <1>5, <1>10, IdleOK DEF DraftInv, InOnePlace, NotYetWritten
    <3>2. ASSUME NEW u \in Tabs, page'[u].draft # 0, ~page'[u].saving PROVE copies'[page'[u].draft] = 0
      <4>1. copies[page'[u].draft] = 0
        BY <1>1, <1>4, <1>6, <1>10, <2>2, <3>2 DEF DraftInv, InOnePlace, NotYetWritten, Answered
      <4> QED
        BY <1>1, <4>1
    <3> QED
      BY <3>1, <3>2 DEF NotYetWritten, Carries, Before
  <2> QED
    BY <2>1, <2>3, <2>4, <2>5, <2>6 DEF InOnePlace
<1>11. ~failed' => ~failed /\ req[r].pc # "unsaved"
  BY <1>1 DEF At
<1> QED
  BY <1>5, <1>7, <1>8, <1>9, <1>10, <1>11 DEF DraftInv, TypeInv

-----------------------------------------------------------------------------
(* The invariant of the drafts *)

LEMMA DraftStart == ASSUME Init PROVE DraftInv
<1>1. CountersOK /\ DraftsOK
  <2>1. Blank \in Page
    BY DEF Blank, Page
  <2>2. scene \in {"limits", "drafts"} /\ page \in [Tabs -> Page]
    BY <2>1 DEF Init
  <2>3. CountersOK
    BY DEF Init, CountersOK
  <2>4. drafts \in [Drafts -> {"none", "live", "old"}] /\ copies \in [Drafts -> {0, 1, 2}]
    BY DEF Init
  <2>5. issued \in 0 .. MaxDrafts /\ failed \in BOOLEAN /\ faults \in Nat
    <3>1. issued = 0 /\ faults = 0
      BY DEF Init
    <3>2. failed \in BOOLEAN
      BY DEF Init
    <3> QED
      BY <3>1, <3>2
  <2> QED
    BY <2>2, <2>3, <2>4, <2>5 DEF DraftsOK
<1>2. RequestsOK
  BY IdleOK DEF Init, RequestsOK, RequestOK
<1>3. \A r \in Requests : ~Carries(req[r]) /\ ~After(req[r])
  BY IdleOK DEF Init
<1>4. /\ \A t \in Tabs : page[t].draft = 0
      /\ \A d \in Drafts : copies[d] = 0
      /\ issued = 0
  BY DEF Init, Blank
<1>5. DraftsIssued /\ PlanWritten
  BY <1>3, <1>4 DEF DraftsIssued, PlanWritten
<1>6. InOnePlace
  BY <1>3, <1>4 DEF InOnePlace, OneHolder, OnePage, PageWaits, NotYetWritten, OnePlan
<1> QED
  BY <1>1, <1>2, <1>5, <1>6 DEF DraftInv, TypeInv

LEMMA DraftStep == ASSUME DraftInv, [Next]_vars PROVE DraftInv'
<1>1. CASE UNCHANGED vars
  BY <1>1 DEF vars, counters, history, DraftInv, TypeInv, CountersOK, DraftsOK, RequestsOK, RequestOK, DraftsIssued,
              PlanWritten, InOnePlace, OneHolder, OnePage, PageWaits, NotYetWritten, OnePlan, Carries, After, Before
<1>2. ASSUME NEW r \in Requests,
             \/ \E t \in Tabs : Generate(r, t) \/ \E shared \in BOOLEAN : Save(r, t, shared)
             \/ Check(r) \/ CountRows(r) \/ Counted(r) \/ FailOpen(r) \/ Record(r)
             \/ Pipeline(r) \/ MakeDraft(r) \/ PipelineFails(r)
             \/ SaveStart(r) \/ SaveWritable(r) \/ SaveCreate(r) \/ SaveNotify(r) \/ SaveForget(r)
             \/ Receive(r) \/ Fail(r)
      PROVE  DraftInv'
  BY <1>2, GenerateKept, SaveKept, LimitsKept, PipelineKept, MakeDraftKept, SavesKept, SaveCreateKept, ReceiveKept
<1>3. CASE Restart \/ NewDay \/ NewMonth \/ \E d \in Drafts : TwentyMinutes(d)
  BY <1>3, CalendarKept
<1> QED
  BY <1>1, <1>2, <1>3 DEF Next

LEMMA DraftAlways == Spec => []DraftInv
<1>1. Init => DraftInv
  BY DraftStart
<1>2. DraftInv /\ [Next]_vars => DraftInv'
  BY DraftStep
<1> QED
  BY <1>1, <1>2, PTL DEF Spec

(***************************************************************************)
(* The counters, the drafts, the pages and the requests are of their       *)
(* types.                                                                  *)
(***************************************************************************)
THEOREM TypeCorrect == Spec => []TypeInv
<1>1. DraftInv => TypeInv
  BY DEF DraftInv
<1> QED
  BY <1>1, DraftAlways, PTL

(***************************************************************************)
(* A draft becomes a second plan only after a page was told that a save    *)
(* had failed (saveDraft, usePlanGenerate.save).                           *)
(***************************************************************************)
THEOREM SavesOnce == Spec => []OneSaveOnePlan
<1>1. DraftInv => OneSaveOnePlan
  BY DEF DraftInv, TypeInv, DraftsOK, InOnePlace, OnePlan, OneSaveOnePlan
<1> QED
  BY <1>1, DraftAlways, PTL

(***************************************************************************)
(* A draft whose time is not over goes only when its plan is written, or   *)
(* with the process (saveDraft takes it out last).                         *)
(***************************************************************************)
THEOREM DraftsStay == Spec => DraftKept
<1>1. ASSUME DraftInv, [Next]_vars, NEW d \in Drafts, drafts[d] = "live", drafts'[d] = "none"
      PROVE  copies[d] > 0 \/ faults' # faults
  <2>1. drafts' # drafts /\ drafts \in [Drafts -> {"none", "live", "old"}] /\ Prune[d] = "live"
    BY <1>1 DEF DraftInv, TypeInv, DraftsOK, Prune
  <2>2. CASE \E r \in Requests : SaveForget(r)
    <3>1. PICK r \in Requests : SaveForget(r)
      BY <2>2
    <3>2. req[r].draft = d
      BY <1>1, <2>1, <3>1 DEF SaveForget
    <3>3. After(req[r])
      BY <3>1 DEF SaveForget, At, After
    <3> QED
      BY <1>1, <3>2, <3>3 DEF DraftInv, PlanWritten
  <2>3. CASE Restart
    BY <1>1, <2>3 DEF Restart, Fault, DraftInv, TypeInv, DraftsOK
  <2>4. ASSUME NEW r \in Requests, MakeDraft(r) PROVE FALSE
    <3>1. drafts' = [Prune EXCEPT ![issued + 1] = "live"]
      BY <2>4 DEF MakeDraft
    <3>2. Prune \in [Drafts -> {"none", "live", "old"}]
      BY <2>1 DEF Prune
    <3> QED
      BY <1>1, <2>1, <3>1, <3>2
  <2>5. ASSUME NEW r \in Requests, SaveStart(r) PROVE FALSE
    BY <1>1, <2>1, <2>5 DEF SaveStart
  <2>6. ASSUME NEW e \in Drafts, TwentyMinutes(e) PROVE FALSE
    BY <1>1, <2>1, <2>6 DEF TwentyMinutes
  <2>7. ASSUME NEW r \in Requests,
             \/ \E t \in Tabs : Generate(r, t) \/ \E shared \in BOOLEAN : Save(r, t, shared)
             \/ Check(r) \/ CountRows(r) \/ Counted(r) \/ FailOpen(r) \/ Record(r)
             \/ Pipeline(r) \/ PipelineFails(r) \/ SaveWritable(r) \/ SaveCreate(r) \/ SaveNotify(r)
             \/ Receive(r) \/ Fail(r)
        PROVE  FALSE
    BY <2>1, <2>7 DEF Generate, Save, Check, CountRows, Counted, FailOpen, Record, Pipeline, PipelineFails,
                      SaveWritable, SaveCreate, SaveNotify, Receive, Fail
  <2>8. CASE NewDay \/ NewMonth \/ UNCHANGED vars
    BY <2>1, <2>8 DEF NewDay, NewMonth, vars
  <2> QED
    BY <1>1, <2>2, <2>3, <2>4, <2>5, <2>6, <2>7, <2>8 DEF Next
<1>2. DraftInv /\ [Next]_vars =>
        [\A d \in Drafts : drafts[d] = "live" /\ drafts'[d] = "none" => copies[d] > 0 \/ faults' # faults]_vars
  BY <1>1
<1> QED
  BY <1>2, DraftAlways, PTL DEF Spec, DraftKept

-----------------------------------------------------------------------------
(* The budget of the month *)

\* The requests that were let through and have not cost anything yet.
Underway == {r \in Requests : scene = "limits" /\ req[r].pc \in {"record", "pipeline"}}

Highest(cost) == \A other \in Costs : other <= cost

MonthInv ==
    faults = 0 =>
      /\ usage = spent
      /\ \A cost \in Costs : Highest(cost) =>
           spent + cost * Cardinality(Underway) < MonthlyBudget + cost * Cardinality(Requests)

LEMMA TimesLess ==
  ASSUME NEW c \in Nat, NEW m \in Nat, NEW n \in Nat, m <= n
  PROVE  c * m <= c * n /\ c * m \in Nat /\ c * n \in Nat
<1>1. PICK k \in Nat : n = m + k
  <2>1. n - m \in Nat /\ n = m + (n - m)
    OBVIOUS
  <2> QED
    BY <2>1
<1>2. c * n = c * m + c * k /\ c * m \in Nat /\ c * k \in Nat
  BY <1>1
<1> QED
  BY <1>2

LEMMA TimesOne == ASSUME NEW c \in Nat, NEW n \in Nat PROVE c * (n + 1) = c * n + c
OBVIOUS

\* Requests are finitely many.
LEMMA UnderwayCounts ==
  /\ Cardinality(Underway) \in Nat /\ Cardinality(Requests) \in Nat
  /\ Cardinality(Underway) <= Cardinality(Requests) /\ IsFiniteSet(Underway)
<1>1. IsFiniteSet(Underway) /\ Cardinality(Underway) <= Cardinality(Requests)
  BY FS_Subset DEF Underway
<1> QED
  BY <1>1, FS_CardinalityType

\* Nothing is spent, and no request is let through but within the budget.
LEMMA NothingSpent ==
  ASSUME DraftInv, DraftInv', MonthInv, faults' = 0 => faults = 0, usage' = usage, spent' = spent,
         Underway' \subseteq Underway \/ usage < MonthlyBudget
  PROVE  MonthInv'
<1>1. SUFFICES ASSUME faults' = 0 PROVE MonthInv'
  BY DEF MonthInv
<1>2. /\ usage = spent /\ spent \in Nat /\ faults = 0
      /\ Cardinality(Underway) \in Nat /\ Cardinality(Underway') \in Nat /\ Cardinality(Requests) \in Nat
      /\ IsFiniteSet(Underway) /\ Cardinality(Underway') <= Cardinality(Requests)
  <2>1. Cardinality(Underway') \in Nat /\ Cardinality(Underway') <= Cardinality(Requests)
    <3>1. Underway' \subseteq Requests
      BY DEF Underway
    <3>2. IsFiniteSet(Underway') /\ Cardinality(Underway') <= Cardinality(Requests)
      BY <3>1, FS_Subset
    <3> QED
      BY <3>2, FS_CardinalityType
  <2> QED
    BY <1>1, <2>1, UnderwayCounts DEF MonthInv, DraftInv, TypeInv, CountersOK
<1>3. ASSUME NEW cost \in Costs, Highest(cost)
      PROVE  spent' + cost * Cardinality(Underway') < MonthlyBudget + cost * Cardinality(Requests)
  <2>1. cost \in Nat /\ spent + cost * Cardinality(Underway) < MonthlyBudget + cost * Cardinality(Requests)
    BY <1>2, <1>3 DEF MonthInv
  <2>2. CASE Underway' \subseteq Underway
    <3>1. Cardinality(Underway') <= Cardinality(Underway)
      BY <1>2, <2>2, FS_Subset
    <3>2. cost * Cardinality(Underway') <= cost * Cardinality(Underway)
      BY <1>2, <2>1, <3>1, TimesLess
    <3>3. /\ cost * Cardinality(Underway') \in Nat /\ cost * Cardinality(Underway) \in Nat
          /\ cost * Cardinality(Requests) \in Nat
      BY <1>2, <2>1, TimesLess
    <3> QED
      BY <1>2, <2>1, <3>2, <3>3
  <2>3. CASE usage < MonthlyBudget
    <3>1. /\ cost * Cardinality(Underway') <= cost * Cardinality(Requests)
          /\ cost * Cardinality(Underway') \in Nat /\ cost * Cardinality(Requests) \in Nat
      BY <1>2, <2>1, TimesLess
    <3> QED
      BY <1>2, <2>3, <3>1
  <2> QED
    BY <2>2, <2>3
<1> QED
  BY <1>2, <1>3 DEF MonthInv

\* Who is let through is let through within the budget; who was before goes on.
LEMMA UnderwayGrows ==
  ASSUME TypeInv, NEW r \in Requests, \A x \in Requests \ {r} : req'[x] = req[x], scene' = scene,
         req'[r].pc \in {"record", "pipeline"} => req[r].pc \in {"record", "pipeline"}
  PROVE  Underway' \subseteq Underway
BY DEF Underway

LEMMA MonthStep == ASSUME DraftInv, MonthInv, [Next]_vars PROVE MonthInv'
<1>1. DraftInv'
  BY DraftStep
<1>2. /\ TypeInv /\ RequestsOK /\ faults \in Nat /\ usage \in Nat /\ spent \in Nat
      /\ \A r \in Requests : RequestOK(req[r])
  BY DEF DraftInv, TypeInv, RequestsOK, DraftsOK, CountersOK
<1>3. ASSUME UNCHANGED <<usage, spent>>, faults' \in {faults, faults + 1},
             Underway' \subseteq Underway \/ usage < MonthlyBudget
      PROVE  MonthInv'
  <2>1. faults' = 0 => faults = 0
    BY <1>2, <1>3
  <2> QED
    BY <1>1, <1>3, <2>1, NothingSpent
<1>4. ASSUME NEW r \in Requests, NEW pc \in PC \ {"idle"}, Goto(r, pc), req[r].pc # "idle", scene' = scene,
             pc \in Saving => req[r].pc \in Saving, pc \in Making => req[r].pc \in Making,
             pc \in {"record", "pipeline"} => req[r].pc \in {"record", "pipeline"}
      PROVE  Underway' \subseteq Underway
  <2>1. (\A x \in Requests \ {r} : req'[x] = req[x]) /\ req'[r].pc = pc
    BY <1>2, <1>4, GotoReqs
  <2> QED
    BY <1>2, <1>4, <2>1, UnderwayGrows
<1>5. ASSUME NEW r \in Requests, Check(r) \/ Counted(r) \/ FailOpen(r) PROVE MonthInv'
  <2>1. /\ UNCHANGED <<usage, spent, scene>> /\ faults' \in {faults, faults + 1}
        /\ req[r].pc \in {"check", "counted", "count"}
    BY <1>5 DEF Check, Counted, FailOpen, Fault, At
  <2>2. usage < MonthlyBudget \/ Goto(r, "refused") \/ Goto(r, "count")
    BY <1>5 DEF Check, Counted, FailOpen, Admit
  <2>3. Goto(r, "refused") \/ Goto(r, "count") => Underway' \subseteq Underway
    BY <1>4, <2>1 DEF PC, Saving, Saves, Making
  <2> QED
    BY <1>3, <2>1, <2>2, <2>3
<1>6. ASSUME NEW r \in Requests, CountRows(r) \/ MakeDraft(r) PROVE MonthInv'
  <2>1. /\ UNCHANGED <<usage, spent, scene, faults>> /\ \A x \in Requests \ {r} : req'[x] = req[x]
    BY <1>2, <1>6 DEF CountRows, MakeDraft, counters, history, RequestsOK
  <2>2. req'[r].pc \in {"counted", "made"}
    <3>1. req[r] \in Request
      BY <1>2 DEF RequestOK
    <3>2. [req[r] EXCEPT !.pc = "counted", !.count = rows].pc = "counted"
      BY <3>1 DEF Request
    <3>3. [req[r] EXCEPT !.pc = "made", !.draft = issued + 1].pc = "made"
      BY <3>1 DEF Request
    <3>4. \/ req'[r] = [req[r] EXCEPT !.pc = "counted", !.count = rows]
          \/ req'[r] = [req[r] EXCEPT !.pc = "made", !.draft = issued + 1]
      BY <1>2, <1>6 DEF CountRows, MakeDraft, RequestsOK
    <3> QED
      BY <3>2, <3>3, <3>4
  <2>3. Underway' \subseteq Underway
    BY <1>2, <2>1, <2>2, UnderwayGrows
  <2> QED
    BY <1>3, <2>1, <2>3
<1>7. ASSUME NEW r \in Requests, Record(r) \/ PipelineFails(r) PROVE MonthInv'
  <2>1. UNCHANGED <<usage, spent, scene>> /\ faults' \in {faults, faults + 1}
    BY <1>7 DEF Record, PipelineFails, counters, history, Fault
  <2>2. Underway' \subseteq Underway
    BY <1>4, <1>7, <2>1 DEF Record, PipelineFails, At, PC, Saving, Saves, Making
  <2> QED
    BY <1>3, <2>1, <2>2
<1>8. ASSUME NEW r \in Requests, NEW t \in Tabs, Generate(r, t) \/ \E shared \in BOOLEAN : Save(r, t, shared)
      PROVE  MonthInv'
  <2>1. /\ UNCHANGED <<usage, spent, scene, faults>> /\ \A x \in Requests \ {r} : req'[x] = req[x]
    BY <1>2, <1>8 DEF Generate, Save, counters, history, RequestsOK
  <2>2. scene = "limits" => req'[r].pc \in {"check", "save"}
    <3>1. ASSUME NEW shared, req' = [req EXCEPT ![r] = [Idle EXCEPT !.pc = "save", !.tab = t,
                                                        !.draft = page[t].draft, !.shared = shared]]
          PROVE  req'[r].pc = "save"
      <4>1. req'[r] = [Idle EXCEPT !.pc = "save", !.tab = t, !.draft = page[t].draft, !.shared = shared]
        BY <1>2, <3>1 DEF RequestsOK
      <4> QED
        BY <4>1 DEF Idle
    <3>2. ASSUME scene = "limits", Generate(r, t) PROVE req'[r].pc = "check"
      <4>1. req'[r] = [Idle EXCEPT !.pc = "check", !.tab = t]
        BY <1>2, <3>2 DEF Generate, RequestsOK
      <4> QED
        BY <4>1 DEF Idle
    <3> QED
      BY <1>8, <3>1, <3>2 DEF Save
  <2>3. Underway' \subseteq Underway
    BY <2>1, <2>2 DEF Underway
  <2> QED
    BY <1>3, <2>1, <2>3
<1>9. ASSUME NEW r \in Requests, Pipeline(r) PROVE MonthInv'
  <2>1. /\ scene = "limits" /\ scene' = scene /\ req[r].pc = "pipeline" /\ Goto(r, "made")
    BY <1>9 DEF Pipeline, At
  <2>2. PICK c \in Costs : usage' = usage + c /\ spent' = spent + c
    BY <1>9 DEF Pipeline, Track
  <2>3. SUFFICES ASSUME faults' = 0 PROVE MonthInv'
    BY DEF MonthInv
  <2>4. faults = 0
    BY <1>2, <1>9, <2>3 DEF Pipeline, Track, Fault
  <2>5. (\A x \in Requests \ {r} : req'[x] = req[x]) /\ req'[r].pc = "made"
    BY <1>2, <2>1, GotoReqs DEF PC, Saving, Saves, Making
  <2>6. r \in Underway /\ Underway' \subseteq Underway \ {r}
    BY <2>1, <2>5 DEF Underway
  <2>7. Cardinality(Underway') + 1 <= Cardinality(Underway) /\ Cardinality(Underway') \in Nat
    <3>1. IsFiniteSet(Underway \ {r}) /\ Cardinality(Underway \ {r}) = Cardinality(Underway) - 1
      BY <2>6, UnderwayCounts, FS_RemoveElement, FS_Subset
    <3>2. IsFiniteSet(Underway') /\ Cardinality(Underway') <= Cardinality(Underway \ {r})
      BY <2>6, <3>1, FS_Subset
    <3> QED
      BY <3>1, <3>2, UnderwayCounts, FS_CardinalityType
  <2>8. ASSUME NEW cost \in Costs, Highest(cost)
        PROVE  spent' + cost * Cardinality(Underway') < MonthlyBudget + cost * Cardinality(Requests)
    <3>1. /\ spent + cost * Cardinality(Underway) < MonthlyBudget + cost * Cardinality(Requests)
          /\ cost \in Nat /\ c \in Nat /\ c <= cost
      BY <2>4, <2>8 DEF MonthInv, Highest
    <3>2. cost * (Cardinality(Underway') + 1) <= cost * Cardinality(Underway)
      BY <2>7, <3>1, UnderwayCounts, TimesLess
    <3>3. cost * (Cardinality(Underway') + 1) = cost * Cardinality(Underway') + cost
      BY <2>7, <3>1, TimesOne
    <3>4. /\ cost * Cardinality(Underway') \in Nat /\ cost * Cardinality(Underway) \in Nat
          /\ cost * Cardinality(Requests) \in Nat
      BY <2>7, <3>1, UnderwayCounts, TimesLess
    <3> QED
      BY <1>2, <2>2, <3>1, <3>2, <3>3, <3>4
  <2> QED
    BY <2>2, <2>4, <2>8 DEF MonthInv
<1>10. ASSUME NEW r \in Requests, SaveStart(r) \/ SaveWritable(r) \/ SaveCreate(r) \/ SaveNotify(r) \/ SaveForget(r)
       PROVE  MonthInv'
  <2>1. /\ UNCHANGED <<usage, spent, scene, faults>> /\ req[r].pc \in Saves
    BY <1>10 DEF SaveStart, SaveWritable, SaveCreate, SaveNotify, SaveForget, counters, history, At, Saves
  <2>2. PICK pc \in {"unsaved", "writable", "create", "notify", "forget", "saved"} : Goto(r, pc)
    BY <1>10 DEF SaveStart, SaveWritable, SaveCreate, SaveNotify, SaveForget
  <2>3. Underway' \subseteq Underway
    BY <1>4, <2>1, <2>2 DEF PC, Saving, Saves, Making
  <2> QED
    BY <1>3, <2>1, <2>3
<1>11. ASSUME NEW r \in Requests, Fail(r) PROVE MonthInv'
  <2>1. /\ UNCHANGED <<usage, spent, scene>> /\ faults' \in {faults, faults + 1}
    BY <1>11 DEF Fail, counters, Fault
  <2>2. PICK pc \in {"unsaved", "refused"} :
           Goto(r, pc) /\ (pc = "unsaved" => req[r].pc \in Saving) /\ req[r].pc # "idle"
    BY <1>11 DEF Fail, Saving, Saves
  <2>3. Underway' \subseteq Underway
    BY <1>4, <2>1, <2>2 DEF PC, Saving, Saves, Making
  <2> QED
    BY <1>3, <2>1, <2>3
<1>12. ASSUME NEW r \in Requests, Receive(r) PROVE MonthInv'
  <2>1. /\ UNCHANGED <<usage, spent, scene, faults>> /\ \A x \in Requests \ {r} : req'[x] = req[x]
        /\ req'[r] = Idle
    BY <1>2, <1>12 DEF Receive, counters, RequestsOK
  <2>2. Underway' \subseteq Underway
    BY <1>2, <2>1, IdleOK, UnderwayGrows
  <2> QED
    BY <1>3, <2>1, <2>2
<1>13. CASE Restart
  BY <1>2, <1>13 DEF Restart, Fault, MonthInv
<1>14. CASE NewDay
  <2>1. UNCHANGED <<usage, spent, scene, faults>>
    BY <1>14 DEF NewDay
  <2>2. \A x \in Requests : req'[x].pc = req[x].pc
    <3>1. ASSUME NEW x \in Requests, NEW idle PROVE [req[x] EXCEPT !.today = idle].pc = req[x].pc
      <4>1. req[x] \in Request
        BY <1>2 DEF RequestOK
      <4> QED
        BY <4>1 DEF Request
    <3> QED
      BY <1>14, <3>1 DEF NewDay
  <2>3. Underway' \subseteq Underway
    BY <2>1, <2>2 DEF Underway
  <2> QED
    BY <1>3, <2>1, <2>3
<1>15. CASE NewMonth
  <2>1. usage' = 0 /\ spent' = 0 /\ Underway' = Underway
    BY <1>15 DEF NewMonth, Underway
  <2>2. \A cost \in Costs : 0 + cost * Cardinality(Underway) < MonthlyBudget + cost * Cardinality(Requests)
    <3>1. ASSUME NEW cost \in Costs PROVE /\ cost * Cardinality(Underway) <= cost * Cardinality(Requests)
                                          /\ cost * Cardinality(Underway) \in Nat
                                          /\ cost * Cardinality(Requests) \in Nat
      BY UnderwayCounts, TimesLess
    <3> QED
      BY <3>1
  <2> QED
    BY <2>1, <2>2 DEF MonthInv
<1>16. CASE UNCHANGED vars \/ \E d \in Drafts : TwentyMinutes(d)
  <2>1. UNCHANGED <<usage, spent, faults, scene, req>>
    BY <1>16 DEF vars, TwentyMinutes, counters, history
  <2>2. Underway' = Underway
    BY <2>1 DEF Underway
  <2> QED
    BY <1>3, <2>1, <2>2
<1> QED
  BY <1>5, <1>6, <1>7, <1>8, <1>9, <1>10, <1>11, <1>12, <1>13, <1>14, <1>15, <1>16 DEF Next

(***************************************************************************)
(* Without a failure, the requests that were let through before the budget *)
(* was reached exceed it by less than what all requests in flight may cost *)
(* (checkMonthlyBudget, trackRequest).                                     *)
(***************************************************************************)
THEOREM BudgetHolds == Spec => []MonthlyBounded
<1>1. ASSUME Init PROVE MonthInv
  <2>1. spent = 0 /\ usage = 0 /\ \A r \in Requests : req[r] = Idle
    BY <1>1 DEF Init
  <2>2. Underway = {}
    BY <2>1, IdleOK DEF Underway
  <2>3. ASSUME NEW cost \in Costs
        PROVE  /\ cost * Cardinality(Underway) <= cost * Cardinality(Requests)
               /\ cost * Cardinality(Underway) \in Nat /\ cost * Cardinality(Requests) \in Nat
    BY UnderwayCounts, TimesLess
  <2> QED
    BY <2>1, <2>3 DEF MonthInv
<1>2. DraftInv /\ MonthInv /\ [Next]_vars => MonthInv'
  BY MonthStep
<1>3. ASSUME DraftInv, MonthInv PROVE MonthlyBounded
  <2>1. ASSUME faults = 0, NEW cost \in Costs, \A other \in Costs : other <= cost
        PROVE  spent < MonthlyBudget + Cardinality(Requests) * cost
    <3>1. cost \in Nat /\ spent + cost * Cardinality(Underway) < MonthlyBudget + cost * Cardinality(Requests)
      BY <1>3, <2>1 DEF MonthInv, Highest
    <3>2. /\ cost * Cardinality(Underway) \in Nat /\ cost * Cardinality(Requests) \in Nat /\ spent \in Nat
          /\ Cardinality(Requests) * cost = cost * Cardinality(Requests)
      BY <1>3, <3>1, UnderwayCounts, TimesLess DEF DraftInv, TypeInv, CountersOK
    <3> QED
      BY <3>1, <3>2
  <2> QED
    BY <2>1 DEF MonthlyBounded
<1>4. Init => MonthInv
  BY <1>1
<1>5. DraftInv /\ MonthInv => MonthlyBounded
  BY <1>3
<1> QED
  BY <1>2, <1>4, <1>5, DraftAlways, PTL DEF Spec

-----------------------------------------------------------------------------
(* The limit of the day *)

(***************************************************************************)
(* A turn is a request of today that may still be let through on account   *)
(* of what a request in flight has counted, or will count: turn i is over  *)
(* when i rows are counted.  A request that was let through has used one,  *)
(* though its row is not written yet.                                      *)
(***************************************************************************)
MayPass(q, i) ==
    IF q.pc = "counted" THEN i > q.count \/ i > rows
    ELSE IF q.pc = "record" /\ q.today THEN i > rows + 1 ELSE i > rows

Turns == {t \in Requests \X (1 .. DailyLimit) : MayPass(req[t[1]], t[2])}

\* The turns of those that are counting: they will replace the cache.
Held == {t \in Turns : req[t[1]].pc \in {"count", "counted"}}

\* What is left according to the cache comes before the turns of the others:
\* nobody else counts until the cache is empty.
DailyInv ==
    faults = 0 =>
      /\ admitted + Cardinality(Turns) <= DailyLimit * Cardinality(Requests)
      /\ today /\ cache \in 1 .. DailyLimit - 1 =>
           admitted + (DailyLimit - cache) + Cardinality(Held) <= DailyLimit * Cardinality(Requests)

\* There is at most one turn for each request and number up to the limit.
LEMMA SomeTurns ==
  ASSUME NEW S \in SUBSET (Requests \X (1 .. DailyLimit))
  PROVE  /\ IsFiniteSet(S) /\ Cardinality(S) \in Nat
         /\ Cardinality(S) <= DailyLimit * Cardinality(Requests)
         /\ DailyLimit * Cardinality(Requests) \in Nat
<1> DEFINE All == Requests \X (1 .. DailyLimit)
<1>1. IsFiniteSet(1 .. DailyLimit) /\ Cardinality(1 .. DailyLimit) = DailyLimit
  BY FS_Interval
<1>2. /\ IsFiniteSet(All) /\ Cardinality(All) = Cardinality(Requests) * DailyLimit
      /\ Cardinality(Requests) \in Nat
  BY <1>1, FS_Product, FS_CardinalityType
<1>3. DailyLimit * Cardinality(Requests) \in Nat /\ Cardinality(All) = DailyLimit * Cardinality(Requests)
  BY <1>2
<1>4. S \in SUBSET All
  OBVIOUS
<1> HIDE DEF All
<1>5. IsFiniteSet(S) /\ Cardinality(S) <= Cardinality(All)
  BY <1>2, <1>4, FS_Subset
<1> QED
  BY <1>3, <1>5, FS_CardinalityType

LEMMA TurnsCount ==
  /\ IsFiniteSet(Turns) /\ Cardinality(Turns) \in Nat
  /\ Cardinality(Turns) <= DailyLimit * Cardinality(Requests)
  /\ DailyLimit * Cardinality(Requests) \in Nat
  /\ IsFiniteSet(Held) /\ Cardinality(Held) \in Nat /\ Cardinality(Held) <= Cardinality(Turns)
<1>1. Turns \in SUBSET (Requests \X (1 .. DailyLimit)) /\ Held \in SUBSET Turns
  BY DEF Turns, Held
<1>2. /\ IsFiniteSet(Turns) /\ Cardinality(Turns) \in Nat
      /\ Cardinality(Turns) <= DailyLimit * Cardinality(Requests)
      /\ DailyLimit * Cardinality(Requests) \in Nat
  BY <1>1, SomeTurns
<1>3. IsFiniteSet(Held) /\ Cardinality(Held) <= Cardinality(Turns)
  BY <1>1, <1>2, FS_Subset
<1> QED
  BY <1>2, <1>3, FS_CardinalityType

\* A smaller set, with a witness.
LEMMA OneFewer ==
  ASSUME NEW S, NEW T, NEW x, IsFiniteSet(S), T \subseteq S, x \in S, x \notin T
  PROVE  Cardinality(T) + 1 <= Cardinality(S)
<1>1. IsFiniteSet(S \ {x}) /\ Cardinality(S \ {x}) = Cardinality(S) - 1
  BY FS_RemoveElement
<1>2. T \in SUBSET (S \ {x})
  OBVIOUS
<1>3. IsFiniteSet(T) /\ Cardinality(T) <= Cardinality(S \ {x})
  BY <1>1, <1>2, FS_Subset
<1>4. Cardinality(T) \in Nat /\ Cardinality(S) \in Nat
  BY <1>3, FS_CardinalityType
<1> QED
  BY <1>1, <1>3, <1>4

\* The turns of one request from n on.
LEMMA TurnsOf ==
  ASSUME NEW r, NEW n \in Nat, n <= DailyLimit
  PROVE  LET T == {r} \X (n + 1 .. DailyLimit)
         IN  IsFiniteSet(T) /\ Cardinality(T) = DailyLimit - n
<1>1. IsFiniteSet({r}) /\ Cardinality({r}) = 1
  BY FS_Singleton
<1>2. IsFiniteSet(n + 1 .. DailyLimit) /\ Cardinality(n + 1 .. DailyLimit) = DailyLimit - n
  <2>1. /\ IsFiniteSet(n + 1 .. DailyLimit)
        /\ Cardinality(n + 1 .. DailyLimit) = IF n + 1 > DailyLimit THEN 0 ELSE DailyLimit - (n + 1) + 1
    BY FS_Interval
  <2> QED
    BY <2>1
<1>3. /\ IsFiniteSet({r} \X (n + 1 .. DailyLimit))
      /\ Cardinality({r} \X (n + 1 .. DailyLimit)) = Cardinality({r}) * Cardinality(n + 1 .. DailyLimit)
  BY <1>1, <1>2, FS_Product
<1> QED
  BY <1>1, <1>2, <1>3

\* Nobody is let through, and no request gets a turn.
LEMMA TurnsGo ==
  ASSUME TypeInv, TypeInv', DailyInv, faults' = 0 => faults = 0, admitted' = admitted,
         Turns' \subseteq Turns,
         today' /\ cache' \in 1 .. DailyLimit - 1 =>
           today /\ cache' = cache /\ Held' \subseteq Held
  PROVE  DailyInv'
<1>1. SUFFICES ASSUME faults' = 0 PROVE DailyInv'
  BY DEF DailyInv
<1>2. faults = 0 /\ admitted \in Nat /\ cache \in Nat
  BY <1>1 DEF TypeInv, CountersOK
<1>3. /\ IsFiniteSet(Turns') /\ Cardinality(Turns') <= Cardinality(Turns) /\ Cardinality(Turns') \in Nat
      /\ Cardinality(Turns) \in Nat /\ Cardinality(Held) \in Nat /\ IsFiniteSet(Held)
      /\ DailyLimit * Cardinality(Requests) \in Nat
  <2>1. IsFiniteSet(Turns') /\ Cardinality(Turns') <= Cardinality(Turns)
    BY TurnsCount, FS_Subset
  <2> QED
    BY <2>1, TurnsCount, FS_CardinalityType
<1>4. admitted' + Cardinality(Turns') <= DailyLimit * Cardinality(Requests)
  BY <1>2, <1>3 DEF DailyInv
<1>5. ASSUME today', cache' \in 1 .. DailyLimit - 1
      PROVE  admitted' + (DailyLimit - cache') + Cardinality(Held') <= DailyLimit * Cardinality(Requests)
  <2>1. today /\ cache' = cache /\ Held' \subseteq Held
    BY <1>5
  <2>2. IsFiniteSet(Held') /\ Cardinality(Held') <= Cardinality(Held)
    BY <1>3, <2>1, FS_Subset
  <2>3. Cardinality(Held') \in Nat
    BY <2>2, FS_CardinalityType
  <2> QED
    BY <1>2, <1>3, <1>5, <2>1, <2>2, <2>3 DEF DailyInv
<1> QED
  BY <1>4, <1>5 DEF DailyInv

\* A request goes on, or answers: it has a turn at most where it had one.
LEMMA TurnsElsewhere ==
  ASSUME TypeInv, NEW r \in Requests, \A x \in Requests \ {r} : req'[x] = req[x], rows' = rows,
         req[r].pc # "record", req'[r].pc # "counted"
  PROVE  Turns' \subseteq Turns /\ (req'[r].pc # "count" => Held' \subseteq Held)
<1>1. rows \in Nat
  BY DEF TypeInv, CountersOK
<1>2. ASSUME NEW x \in Requests, NEW i \in 1 .. DailyLimit, MayPass(req[x], i)'
      PROVE  MayPass(req[x], i)
  <2>1. CASE x = r
    <3>1. i > rows
      BY <1>1, <1>2, <2>1 DEF MayPass
    <3> QED
      BY <2>1, <3>1 DEF MayPass
  <2>2. CASE x # r
    BY <1>2, <2>2 DEF MayPass
  <2> QED
    BY <2>1, <2>2
<1>3. Turns' \subseteq Turns
  BY <1>2 DEF Turns
<1>4. ASSUME req'[r].pc # "count", NEW t \in Held' PROVE t \in Held
  <2>1. t \in Turns /\ t[1] \in Requests /\ req'[t[1]].pc \in {"count", "counted"}
    BY <1>3, <1>4 DEF Held, Turns
  <2>2. t[1] # r
    BY <1>4, <2>1
  <2> QED
    BY <2>1, <2>2 DEF Held
<1> QED
  BY <1>3, <1>4

\* A request goes on, or answers, while the day's counters rest.
LEMMA DayRests ==
  ASSUME TypeInv, TypeInv', DailyInv, faults' \in {faults, faults + 1},
         NEW r \in Requests, \A x \in Requests \ {r} : req'[x] = req[x],
         UNCHANGED <<cache, today, rows, admitted>>,
         req[r].pc # "record", req'[r].pc \notin {"count", "counted"}
  PROVE  DailyInv'
<1>1. Turns' \subseteq Turns /\ Held' \subseteq Held
  BY TurnsElsewhere
<1>2. faults' = 0 => faults = 0
  BY DEF TypeInv, DraftsOK
<1> QED
  BY <1>1, <1>2, TurnsGo

\* A request takes a turn: it is let through on account of the cache.
LEMMA TurnKnown ==
  ASSUME TypeInv, TypeInv', DailyInv, faults' = faults, NEW r \in Requests,
         \A x \in Requests \ {r} : req'[x] = req[x], rows' = rows, today, today',
         req[r].pc = "check", req'[r].pc = "record", req'[r].today,
         cache \in 1 .. DailyLimit - 1, cache' = cache + 1, admitted' = admitted + 1
  PROVE  DailyInv'
<1>1. SUFFICES ASSUME faults = 0 PROVE DailyInv'
  BY DEF DailyInv
<1>2. /\ admitted \in Nat /\ rows \in Nat /\ cache \in Nat
      /\ admitted + Cardinality(Turns) <= DailyLimit * Cardinality(Requests)
      /\ admitted + (DailyLimit - cache) + Cardinality(Held) <= DailyLimit * Cardinality(Requests)
      /\ DailyLimit * Cardinality(Requests) \in Nat
      /\ IsFiniteSet(Turns) /\ IsFiniteSet(Held) /\ Cardinality(Turns) \in Nat /\ Cardinality(Held) \in Nat
  BY <1>1, TurnsCount DEF TypeInv, CountersOK, DailyInv
<1>3. Turns' \subseteq Turns /\ Held' \subseteq Held
  BY TurnsElsewhere
<1>4. /\ IsFiniteSet(Turns') /\ IsFiniteSet(Held') /\ Cardinality(Held') <= Cardinality(Held)
      /\ Cardinality(Turns') \in Nat /\ Cardinality(Held') \in Nat
  BY <1>2, <1>3, FS_Subset, FS_CardinalityType
<1>5. admitted' + Cardinality(Turns') <= DailyLimit * Cardinality(Requests)
  <2>1. CASE rows < DailyLimit
    <3> DEFINE t == <<r, rows + 1>>
    <3>1. t[1] = r /\ t[2] = rows + 1 /\ t \in Requests \X (1 .. DailyLimit)
      BY <1>2, <2>1
    <3> HIDE DEF t
    <3>2. t \in Turns
      BY <1>2, <3>1 DEF Turns, MayPass
    <3>3. t \notin Turns'
      BY <1>2, <3>1 DEF Turns, MayPass
    <3>4. Cardinality(Turns') + 1 <= Cardinality(Turns)
      BY <1>2, <1>3, <3>2, <3>3, OneFewer
    <3> QED
      BY <1>2, <1>4, <3>4
  <2>2. CASE rows >= DailyLimit
    <3>1. ASSUME NEW t \in Turns' PROVE t \in Held
      <4>1. t[1] \in Requests /\ t[2] \in 1 .. DailyLimit /\ t \in Turns /\ MayPass(req[t[1]], t[2])'
        BY <1>3, <3>1 DEF Turns
      <4>2. req'[t[1]].pc = "counted"
        BY <1>2, <2>2, <4>1 DEF MayPass
      <4> QED
        BY <4>1, <4>2 DEF Held
    <3>2. Cardinality(Turns') <= Cardinality(Held)
      BY <1>2, <3>1, FS_Subset
    <3> QED
      BY <1>2, <1>4, <3>2
  <2> QED
    BY <1>2, <2>1, <2>2
<1>6. admitted' + (DailyLimit - cache') + Cardinality(Held') <= DailyLimit * Cardinality(Requests)
  BY <1>2, <1>4
<1> QED
  BY <1>5, <1>6 DEF DailyInv

\* What a request has counted becomes the cache: its turns pay for what the
\* cache now leaves.
LEMMA HeldApart ==
  ASSUME TypeInv, NEW r \in Requests, \A x \in Requests \ {r} : req'[x] = req[x], rows' = rows,
         req[r].pc = "counted", req'[r].pc \notin {"count", "counted"},
         NEW n \in Nat, n = req[r].count, n <= DailyLimit
  PROVE  /\ IsFiniteSet(Held') /\ Cardinality(Held') \in Nat
         /\ Cardinality(Held') + (DailyLimit - n) <= Cardinality(Turns)
<1> DEFINE mine == {r} \X (n + 1 .. DailyLimit)
<1>1. IsFiniteSet(mine) /\ Cardinality(mine) = DailyLimit - n
  BY TurnsOf
<1>2. Held' \subseteq Held /\ Held \subseteq Turns
  <2>1. Held' \subseteq Held
    BY TurnsElsewhere
  <2> QED
    BY <2>1 DEF Held
<1>3. ASSUME NEW t \in mine PROVE t \in Turns /\ t \notin Held'
  <2>1. t \in Requests \X (1 .. DailyLimit) /\ t[1] = r /\ t[2] > n
    BY <1>3
  <2>2. t \in Turns
    BY <2>1 DEF Turns, MayPass
  <2>3. t \notin Held'
    BY <2>1 DEF Held
  <2> QED
    BY <2>2, <2>3
<1> HIDE DEF mine
<1>4. /\ IsFiniteSet(Turns \ mine)
      /\ Cardinality(Turns \ mine) = Cardinality(Turns) - Cardinality(Turns \cap mine)
  BY TurnsCount, FS_Difference
<1>5. Turns \cap mine = mine
  BY <1>3
<1>6. Held' \subseteq Turns \ mine
  BY <1>2, <1>3
<1>7. IsFiniteSet(Held') /\ Cardinality(Held') <= Cardinality(Turns \ mine)
  BY <1>4, <1>6, FS_Subset
<1>8. Cardinality(Held') \in Nat
  BY <1>7, FS_CardinalityType
<1>9. Cardinality(Turns \ mine) = Cardinality(Turns) - (DailyLimit - n)
  BY <1>1, <1>4, <1>5
<1>10. Cardinality(Held') <= Cardinality(Turns) - (DailyLimit - n) /\ Cardinality(Turns) \in Nat
  BY <1>7, <1>9, TurnsCount
<1> QED
  BY <1>7, <1>8, <1>10

\* A request takes a turn: it is let through on account of its own count.
LEMMA TurnCounted ==
  ASSUME TypeInv, TypeInv', DailyInv, faults' = faults, NEW r \in Requests,
         \A x \in Requests \ {r} : req'[x] = req[x], rows' = rows,
         req[r].pc = "counted", NEW n \in Nat, n = req[r].count, cache' \in {n, n + 1},
         \/ /\ n < DailyLimit /\ cache' = n + 1 /\ admitted' = admitted + 1
            /\ req'[r].pc = "record" /\ req'[r].today
         \/ cache' = n /\ admitted' = admitted /\ req'[r].pc = "refused"
  PROVE  DailyInv'
<1>1. SUFFICES ASSUME faults = 0 PROVE DailyInv'
  BY DEF DailyInv
<1>2. /\ admitted \in Nat /\ rows \in Nat
      /\ admitted + Cardinality(Turns) <= DailyLimit * Cardinality(Requests)
      /\ DailyLimit * Cardinality(Requests) \in Nat
      /\ IsFiniteSet(Turns) /\ Cardinality(Turns) \in Nat
  BY <1>1, TurnsCount DEF TypeInv, CountersOK, DailyInv
<1>3. req'[r].pc \notin {"count", "counted"}
  OBVIOUS
<1>4. Turns' \subseteq Turns
  BY <1>3, TurnsElsewhere
<1>5. Cardinality(Turns') <= Cardinality(Turns) /\ Cardinality(Turns') \in Nat
  BY <1>2, <1>4, FS_Subset, FS_CardinalityType
<1>6. admitted' + Cardinality(Turns') <= DailyLimit * Cardinality(Requests)
  <2>1. CASE n < DailyLimit /\ req'[r].pc = "record" /\ req'[r].today /\ admitted' = admitted + 1
    <3>1. PICK i \in 1 .. DailyLimit : (i > n \/ i > rows) /\ ~(i > rows + 1)
      <4>1. CASE n <= rows
        BY <1>2, <2>1, <4>1
      <4>2. CASE n > rows
        BY <1>2, <2>1, <4>2
      <4> QED
        BY <1>2, <4>1, <4>2
    <3> DEFINE t == <<r, i>>
    <3>2. t[1] = r /\ t[2] = i /\ t \in Requests \X (1 .. DailyLimit)
      OBVIOUS
    <3> HIDE DEF t
    <3>3. t \in Turns
      BY <3>1, <3>2 DEF Turns, MayPass
    <3>4. t \notin Turns'
      BY <1>2, <2>1, <3>1, <3>2 DEF Turns, MayPass
    <3>5. Cardinality(Turns') + 1 <= Cardinality(Turns)
      BY <1>2, <1>4, <3>3, <3>4, OneFewer
    <3> QED
      BY <1>2, <1>5, <2>1, <3>5
  <2>2. CASE admitted' = admitted
    BY <1>2, <1>5, <2>2
  <2> QED
    BY <2>1, <2>2
<1>7. ASSUME cache' \in 1 .. DailyLimit - 1
      PROVE  admitted' + (DailyLimit - cache') + Cardinality(Held') <= DailyLimit * Cardinality(Requests)
  <2>1. n <= DailyLimit
    BY <1>7
  <2>2. Cardinality(Held') \in Nat /\ Cardinality(Held') + (DailyLimit - n) <= Cardinality(Turns)
    BY <1>3, <2>1, HeldApart
  <2> QED
    BY <1>2, <2>2
<1> QED
  BY <1>6, <1>7 DEF DailyInv

\* A request counts the rows there are, or its own is written.
LEMMA TurnsCounted ==
  ASSUME TypeInv, TypeInv', NEW r \in Requests, \A x \in Requests \ {r} : req'[x] = req[x],
         \/ /\ req[r].pc = "count" /\ req'[r].pc = "counted" /\ req'[r].count = rows /\ rows' = rows
         \/ /\ req[r].pc = "record" /\ req'[r].pc = "pipeline"
            /\ rows' = IF req[r].today THEN rows + 1 ELSE rows
  PROVE  Turns' \subseteq Turns /\ Held' \subseteq Held
<1>1. rows \in Nat /\ \A x \in Requests : req[x].count \in Nat
  BY DEF TypeInv, CountersOK, RequestsOK, RequestOK, Request
<1>2. ASSUME NEW x \in Requests, NEW i \in 1 .. DailyLimit, MayPass(req[x], i)'
      PROVE  MayPass(req[x], i)
  <2>1. CASE x = r
    BY <1>1, <1>2, <2>1 DEF MayPass
  <2>2. CASE x # r
    <3>1. rows \in Int /\ i \in Int /\ req'[x] = req[x] /\ (rows' = rows \/ rows' = rows + 1)
      BY <1>1, <2>2
    <3>2. (i > rows' => i > rows) /\ (i > rows' + 1 => i > rows + 1)
      <4>1. CASE rows' = rows
        BY <4>1
      <4>2. CASE rows' = rows + 1
        BY <3>1, <4>2
      <4> QED
        BY <3>1, <4>1, <4>2
    <3>3. IF req[x].pc = "counted" THEN i > req[x].count \/ i > rows'
          ELSE IF req[x].pc = "record" /\ req[x].today THEN i > rows' + 1 ELSE i > rows'
      BY <1>2, <3>1 DEF MayPass
    <3> QED
      BY <3>2, <3>3 DEF MayPass
  <2> QED
    BY <2>1, <2>2
<1>3. Turns' \subseteq Turns
  BY <1>2 DEF Turns
<1>4. ASSUME NEW t \in Held' PROVE t \in Held
  <2>1. t \in Turns /\ t[1] \in Requests /\ req'[t[1]].pc \in {"count", "counted"}
    BY <1>3, <1>4 DEF Held, Turns
  <2>2. req[t[1]].pc \in {"count", "counted"}
    BY <2>1
  <2> QED
    BY <2>1, <2>2 DEF Held
<1> QED
  BY <1>3, <1>4

LEMMA DayStep == ASSUME DraftInv, DailyInv, [Next]_vars PROVE DailyInv'
<1>1. DraftInv'
  BY DraftStep
<1>2. /\ TypeInv /\ TypeInv' /\ RequestsOK /\ CountersOK /\ faults \in Nat
      /\ \A r \in Requests : RequestOK(req[r]) /\ req[r] \in Request
  BY <1>1 DEF DraftInv, TypeInv, RequestsOK, RequestOK, DraftsOK
<1>3. ASSUME NEW r \in Requests, NEW pc, Goto(r, pc)
      PROVE  (\A x \in Requests \ {r} : req'[x] = req[x]) /\ req'[r].pc = pc
  <2>1. req'[r] = [req[r] EXCEPT !.pc = pc] /\ \A x \in Requests \ {r} : req'[x] = req[x]
    BY <1>2, <1>3 DEF Goto, RequestsOK
  <2> QED
    BY <1>2, <2>1 DEF Request
<1>4. ASSUME NEW r \in Requests, Pass(r)
      PROVE  (\A x \in Requests \ {r} : req'[x] = req[x]) /\ req'[r].pc = "record" /\ req'[r].today
  <2>1. req'[r] = [req[r] EXCEPT !.pc = "record", !.today = TRUE] /\ \A x \in Requests \ {r} : req'[x] = req[x]
    BY <1>2, <1>4 DEF Pass, RequestsOK
  <2> QED
    BY <1>2, <2>1 DEF Request
<1>5. ASSUME NEW r \in Requests, Check(r) PROVE DailyInv'
  <2>1. /\ req[r].pc = "check" /\ today' /\ rows' = rows /\ faults' = faults /\ cache \in Nat
    BY <1>2, <1>5 DEF Check, At, CountersOK
  <2>2. CASE today /\ cache > 0
    <3>1. Admit(r, cache)
      BY <1>5, <2>2 DEF Check
    <3>2. CASE cache < DailyLimit /\ usage < MonthlyBudget
      <4>1. cache' = cache + 1 /\ admitted' = admitted + 1 /\ Pass(r) /\ cache \in 1 .. DailyLimit - 1
        BY <2>1, <2>2, <3>1, <3>2 DEF Admit
      <4>2. (\A x \in Requests \ {r} : req'[x] = req[x]) /\ req'[r].pc = "record" /\ req'[r].today
        BY <1>4, <4>1
      <4> QED
        BY <1>2, <2>1, <2>2, <4>1, <4>2, TurnKnown
    <3>3. CASE ~(cache < DailyLimit /\ usage < MonthlyBudget)
      <4>1. cache' = cache /\ admitted' = admitted /\ Goto(r, "refused")
        BY <3>1, <3>3 DEF Admit
      <4>2. (\A x \in Requests \ {r} : req'[x] = req[x]) /\ req'[r].pc = "refused"
        BY <1>3, <4>1
      <4>3. UNCHANGED <<cache, today, rows, admitted>>
        BY <1>5, <2>1, <2>2, <4>1 DEF Check
      <4> QED
        BY <1>2, <2>1, <4>2, <4>3, DayRests
    <3> QED
      BY <3>2, <3>3
  <2>3. CASE ~(today /\ cache > 0)
    <3>1. cache' = 0 /\ Goto(r, "count") /\ admitted' = admitted
      <4>1. today => ~(cache > 0)
        BY <2>3
      <4> QED
        BY <1>5, <4>1 DEF Check
    <3>2. (\A x \in Requests \ {r} : req'[x] = req[x]) /\ req'[r].pc = "count"
      BY <1>3, <3>1
    <3>3. Turns' \subseteq Turns
      BY <1>2, <2>1, <3>2, TurnsElsewhere
    <3> QED
      BY <1>2, <2>1, <3>1, <3>3, TurnsGo
  <2> QED
    BY <2>2, <2>3
<1>6. ASSUME NEW r \in Requests, CountRows(r) PROVE DailyInv'
  <2>1. /\ req[r].pc = "count" /\ \A x \in Requests \ {r} : req'[x] = req[x]
        /\ UNCHANGED <<cache, today, rows, admitted, faults>>
    BY <1>2, <1>6 DEF CountRows, At, counters, history, RequestsOK
  <2>2. req'[r].pc = "counted" /\ req'[r].count = rows
    <3>1. req'[r] = [req[r] EXCEPT !.pc = "counted", !.count = rows]
      BY <1>2, <1>6 DEF CountRows, RequestsOK
    <3> QED
      BY <1>2, <3>1 DEF Request
  <2>3. Turns' \subseteq Turns /\ Held' \subseteq Held
    BY <1>2, <2>1, <2>2, TurnsCounted
  <2> QED
    BY <1>2, <2>1, <2>3, TurnsGo
<1>7. ASSUME NEW r \in Requests, Counted(r) PROVE DailyInv'
  <2>1. /\ req[r].pc = "counted" /\ rows' = rows /\ faults' = faults /\ req[r].count \in Nat
        /\ Admit(r, req[r].count)
    BY <1>2, <1>7 DEF Counted, At, Request
  <2> DEFINE n == req[r].count
  <2>2. CASE n < DailyLimit /\ usage < MonthlyBudget
    <3>1. cache' = n + 1 /\ admitted' = admitted + 1 /\ Pass(r)
      BY <2>1, <2>2 DEF Admit
    <3>2. (\A x \in Requests \ {r} : req'[x] = req[x]) /\ req'[r].pc = "record" /\ req'[r].today
      BY <1>4, <3>1
    <3> QED
      BY <1>2, <2>1, <2>2, <3>1, <3>2, TurnCounted
  <2>3. CASE ~(n < DailyLimit /\ usage < MonthlyBudget)
    <3>1. cache' = n /\ admitted' = admitted /\ Goto(r, "refused")
      BY <2>1, <2>3 DEF Admit
    <3>2. (\A x \in Requests \ {r} : req'[x] = req[x]) /\ req'[r].pc = "refused"
      BY <1>3, <3>1
    <3> QED
      BY <1>2, <2>1, <3>1, <3>2, TurnCounted
  <2> QED
    BY <2>2, <2>3
<1>8. ASSUME NEW r \in Requests, Record(r) PROVE DailyInv'
  <2>1. /\ req[r].pc = "record" /\ Goto(r, "pipeline") /\ UNCHANGED <<cache, today, admitted>>
    BY <1>8 DEF Record, At
  <2>2. (\A x \in Requests \ {r} : req'[x] = req[x]) /\ req'[r].pc = "pipeline"
    BY <1>3, <2>1
  <2>3. CASE rows' = (IF req[r].today THEN rows + 1 ELSE rows) /\ faults' = faults
    <3>1. Turns' \subseteq Turns /\ Held' \subseteq Held
      BY <1>2, <2>1, <2>2, <2>3, TurnsCounted
    <3> QED
      BY <1>2, <2>1, <2>3, <3>1, TurnsGo
  <2>4. CASE Fault
    BY <1>2, <2>4 DEF Fault, DailyInv
  <2> QED
    BY <1>8, <2>3, <2>4 DEF Record
<1>9. ASSUME NEW r \in Requests, NEW pc, Goto(r, pc), pc \notin {"count", "counted"}, req[r].pc # "record",
             UNCHANGED <<cache, today, rows, admitted>>, faults' \in {faults, faults + 1}
      PROVE  DailyInv'
  <2>1. (\A x \in Requests \ {r} : req'[x] = req[x]) /\ req'[r].pc = pc
    BY <1>3, <1>9
  <2> QED
    BY <1>2, <1>9, <2>1, DayRests
<1>10. ASSUME NEW r \in Requests, Pipeline(r) PROVE DailyInv'
  BY <1>9, <1>10 DEF Pipeline, Track, Fault, At
<1>11. ASSUME NEW r \in Requests, PipelineFails(r) PROVE DailyInv'
  BY <1>9, <1>11 DEF PipelineFails, At, counters, history
<1>12. ASSUME NEW r \in Requests, SaveStart(r) \/ SaveWritable(r) \/ SaveCreate(r) \/ SaveNotify(r) \/ SaveForget(r)
       PROVE  DailyInv'
  <2>1. /\ UNCHANGED <<cache, today, rows, admitted, faults>> /\ req[r].pc # "record"
    BY <1>12 DEF SaveStart, SaveWritable, SaveCreate, SaveNotify, SaveForget, counters, history, At
  <2>2. PICK pc \in {"unsaved", "writable", "create", "notify", "forget", "saved"} : Goto(r, pc)
    BY <1>12 DEF SaveStart, SaveWritable, SaveCreate, SaveNotify, SaveForget
  <2> QED
    BY <1>9, <2>1, <2>2
<1>13. ASSUME NEW r \in Requests, Fail(r) PROVE DailyInv'
  <2>1. /\ UNCHANGED <<cache, today, rows, admitted>> /\ faults' \in {faults, faults + 1} /\ req[r].pc # "record"
    BY <1>13 DEF Fail, counters, Fault, Saves
  <2>2. PICK pc \in {"unsaved", "refused"} : Goto(r, pc)
    BY <1>13 DEF Fail
  <2> QED
    BY <1>9, <2>1, <2>2
<1>14. ASSUME NEW r \in Requests, FailOpen(r) PROVE DailyInv'
  BY <1>2, <1>14 DEF FailOpen, Fault, DailyInv
<1>15. ASSUME NEW r \in Requests, NEW t \in Tabs, NEW pc \in {"check", "pipeline"}, page[t].status # "loading",
              req' = [req EXCEPT ![r] = [Idle EXCEPT !.pc = pc, !.tab = t]],
              At(r, "idle"), UNCHANGED <<cache, today, rows, admitted, faults>>
       PROVE  DailyInv'
  <2>1. /\ req'[r] = [Idle EXCEPT !.pc = pc, !.tab = t] /\ req[r].pc # "record"
        /\ \A x \in Requests \ {r} : req'[x] = req[x]
    BY <1>2, <1>15 DEF RequestsOK, At
  <2>2. req'[r].pc = pc
    BY <2>1 DEF Idle
  <2> QED
    BY <1>2, <1>15, <2>1, <2>2, DayRests
<1>16. ASSUME NEW r \in Requests, NEW t \in Tabs, Generate(r, t) PROVE DailyInv'
  BY <1>15, <1>16 DEF Generate, counters, history
<1>17. ASSUME NEW r \in Requests, NEW t \in Tabs, NEW shared \in BOOLEAN, Save(r, t, shared) PROVE DailyInv'
  <2>1. /\ req'[r] = [Idle EXCEPT !.pc = "save", !.tab = t, !.draft = page[t].draft, !.shared = shared]
        /\ req[r].pc # "record" /\ \A x \in Requests \ {r} : req'[x] = req[x]
        /\ UNCHANGED <<cache, today, rows, admitted, faults>>
    BY <1>2, <1>17 DEF Save, RequestsOK, At, counters, history
  <2>2. req'[r].pc = "save"
    BY <2>1 DEF Idle
  <2> QED
    BY <1>2, <2>1, <2>2, DayRests
<1>18. ASSUME NEW r \in Requests, MakeDraft(r) PROVE DailyInv'
  <2>1. /\ req'[r] = [req[r] EXCEPT !.pc = "made", !.draft = issued + 1]
        /\ req[r].pc # "record" /\ \A x \in Requests \ {r} : req'[x] = req[x]
        /\ UNCHANGED <<cache, today, rows, admitted, faults>>
    BY <1>2, <1>18 DEF MakeDraft, RequestsOK, At, counters, history
  <2>2. req'[r].pc = "made"
    BY <1>2, <2>1 DEF Request
  <2> QED
    BY <1>2, <2>1, <2>2, DayRests
<1>19. ASSUME NEW r \in Requests, Receive(r) PROVE DailyInv'
  <2>1. /\ req'[r] = Idle /\ req[r].pc # "record" /\ \A x \in Requests \ {r} : req'[x] = req[x]
        /\ UNCHANGED <<cache, today, rows, admitted, faults>>
    BY <1>2, <1>19 DEF Receive, RequestsOK, Answered, counters
  <2>2. req'[r].pc = "idle"
    BY <2>1, IdleOK
  <2> QED
    BY <1>2, <2>1, <2>2, DayRests
<1>20. CASE Restart
  BY <1>2, <1>20 DEF Restart, Fault, DailyInv
<1>21. CASE NewDay
  <2>1. admitted' = 0 /\ ~today'
    BY <1>21 DEF NewDay
  <2>2. Cardinality(Turns') \in Nat /\ Cardinality(Turns') <= DailyLimit * Cardinality(Requests)
    <3>1. Turns' \in SUBSET (Requests \X (1 .. DailyLimit))
      BY DEF Turns
    <3> QED
      BY <3>1, SomeTurns
  <2> QED
    BY <2>1, <2>2 DEF DailyInv
<1>22. CASE NewMonth \/ UNCHANGED vars \/ \E d \in Drafts : TwentyMinutes(d)
  <2>1. UNCHANGED <<cache, today, rows, admitted, faults, req>>
    BY <1>22 DEF NewMonth, vars, TwentyMinutes, counters, history
  <2>2. Turns' = Turns /\ Held' = Held
    BY <2>1 DEF Turns, Held, MayPass
  <2> QED
    BY <1>2, <2>1, <2>2, TurnsGo
<1> QED
  BY <1>5, <1>6, <1>7, <1>8, <1>10, <1>11, <1>12, <1>13, <1>14, <1>16, <1>17, <1>18, <1>19, <1>20, <1>21,
     <1>22 DEF Next

(***************************************************************************)
(* Without a failure, an address gets no more requests a day than the      *)
(* limit for each request that may be in flight (checkDailyLimit).         *)
(***************************************************************************)
THEOREM LimitHolds == Spec => []DailyBounded
<1>1. ASSUME Init PROVE DailyInv
  <2>1. admitted = 0 /\ cache = 0
    BY <1>1 DEF Init
  <2> QED
    BY <2>1, TurnsCount DEF DailyInv
<1>2. DraftInv /\ DailyInv /\ [Next]_vars => DailyInv'
  BY DayStep
<1>3. ASSUME DraftInv, DailyInv PROVE DailyBounded
  BY <1>3, TurnsCount DEF DailyInv, DailyBounded, DraftInv, TypeInv, CountersOK
<1>4. Init => DailyInv
  BY <1>1
<1>5. DraftInv /\ DailyInv => DailyBounded
  BY <1>3
<1> QED
  BY <1>2, <1>4, <1>5, DraftAlways, PTL DEF Spec
=============================================================================
