----------------------------- MODULE Generation -----------------------------
(***************************************************************************)
(* Making a plan: the limit on the requests of a day and the budget of a   *)
(* month that stand before it (api-budget.middleware.ts, .service.ts), the *)
(* draft that preview keeps in the memory of the process and saveDraft     *)
(* turns into a plan (plan.service.ts), and the page (usePlanGenerate).    *)
(*                                                                         *)
(* The middleware runs before the guards and knows nobody: it counts by    *)
(* the address of the network, and the tabs here share one.                *)
(***************************************************************************)
EXTENDS Integers, FiniteSets

CONSTANTS
  Tabs, Requests,
  DailyLimit, MonthlyBudget,
  Costs,         \* what the pipeline may cost
  MaxDrafts,     \* bound: drafts made
  MaxFaults,     \* bound: statements that fail, restarts
  Scenes         \* "limits": what the pipeline makes is left out; "drafts": the limits

None == "none"
Drafts == 1 .. MaxDrafts

ASSUME LimitsAreNumbers ==
  /\ DailyLimit \in Nat \ {0} /\ MonthlyBudget \in Nat \ {0}
  /\ Costs \in SUBSET Nat /\ IsFiniteSet(Costs) /\ Costs # {}
  /\ MaxDrafts \in Nat /\ MaxFaults \in Nat /\ Scenes \subseteq {"limits", "drafts"}
ASSUME RequestsAssumption == IsFiniteSet(Requests)

VARIABLES
  scene,
  cache,      \* dailyUsageCache of the address
  today,      \* lastResetDate is the day it is
  rows,       \* rows of ApiUsage the address has today
  usage,      \* currentMonthUsage
  rowsCost,   \* the cost in the rows of this month
  drafts,     \* "none", "live" or "old": past its 20 minutes
  copies,     \* the plans a draft became: none, one, or more
  page, req, issued,
  admitted,   \* history: requests of today that were let through
  spent,      \* history: cost tracked this month
  failed,     \* history: a page was told that a save failed
  faults

counters == <<cache, today, rows, usage, rowsCost>>
history == <<admitted, spent, failed, faults>>
vars == <<scene, counters, drafts, copies, page, req, issued, history>>

Idle == [pc |-> "idle", tab |-> None, draft |-> 0, count |-> 0, shared |-> FALSE, today |-> TRUE]
Blank == [status |-> "idle", draft |-> 0, plan |-> 0, saving |-> FALSE]

PC == {"idle", "check", "count", "counted", "record", "pipeline", "made", "refused",
       "save", "writable", "create", "notify", "forget", "saved", "unsaved"}

At(r, pc) == req[r].pc = pc
Goto(r, pc) == req' = [req EXCEPT ![r].pc = pc]
Fault == faults < MaxFaults /\ faults' = faults + 1

Saves == {"save", "writable", "create", "notify", "forget"}
Refused(q) == IF q.pc \in Saves THEN "unsaved" ELSE "refused"
Answered == {"idle", "made", "refused", "saved", "unsaved"}

----------------------------------------------------------------------------
(* ApiBudgetMiddleware.use                                                  *)

\* The form is locked while a request for a preview is on its way.
Generate(r, t) ==
  /\ At(r, "idle") /\ page[t].status # "loading"
  /\ page' = [page EXCEPT ![t] = [Blank EXCEPT !.status = "loading"]]
  /\ req' = [req EXCEPT ![r] = [Idle EXCEPT !.pc = IF scene = "limits" THEN "check" ELSE "pipeline",
                                            !.tab = t]]
  /\ UNCHANGED <<scene, counters, drafts, copies, issued, history>>

Pass(r) == req' = [req EXCEPT ![r].pc = "record", ![r].today = TRUE]

\* Mutated form: one request more than the limit.
AdmitOneMore(r, n) ==
  IF n <= DailyLimit /\ usage < MonthlyBudget
  THEN cache' = n + 1 /\ admitted' = admitted + 1 /\ Pass(r)
  ELSE cache' = n /\ admitted' = admitted /\ Goto(r, "refused")

\* With n requests counted, r is let through and counted, or refused.
Admit(r, n) ==
  IF n < DailyLimit /\ usage < MonthlyBudget
  THEN cache' = n + 1 /\ admitted' = admitted + 1 /\ Pass(r)
  ELSE cache' = n /\ admitted' = admitted /\ Goto(r, "refused")

\* checkDailyLimit, as far as nothing is awaited.
Check(r) ==
  /\ At(r, "check") /\ today' = TRUE
  /\ LET known == IF today THEN cache ELSE 0 IN
     IF known > 0 THEN Admit(r, known)
     ELSE cache' = 0 /\ Goto(r, "count") /\ UNCHANGED admitted
  /\ UNCHANGED <<scene, rows, usage, rowsCost, drafts, copies, page, issued, spent, failed, faults>>

CountRows(r) ==
  /\ At(r, "count")
  /\ req' = [req EXCEPT ![r].pc = "counted", ![r].count = rows]
  /\ UNCHANGED <<scene, counters, drafts, copies, page, issued, history>>

\* The cache takes the count, whatever it has become since the count was made.
Counted(r) ==
  /\ At(r, "counted")
  /\ Admit(r, req[r].count)
  /\ UNCHANGED <<scene, today, rows, usage, rowsCost, drafts, copies, page, issued, spent, failed, faults>>

\* The database does not answer: the request is let through.
FailOpen(r) ==
  /\ At(r, "count") /\ Fault
  /\ IF usage < MonthlyBudget
     THEN cache' = cache + 1 /\ admitted' = admitted + 1 /\ Pass(r)
     ELSE UNCHANGED <<cache, admitted>> /\ Goto(r, "refused")
  /\ UNCHANGED <<scene, today, rows, usage, rowsCost, drafts, copies, page, issued, spent, failed>>

\* A row has the time its request was let through at.
Record(r) ==
  /\ At(r, "record") /\ Goto(r, "pipeline")
  /\ \/ rows' = (IF req[r].today THEN rows + 1 ELSE rows) /\ UNCHANGED faults
     \/ Fault /\ UNCHANGED rows
  /\ UNCHANGED <<scene, cache, today, usage, rowsCost, drafts, copies, page, issued, admitted, spent, failed>>

----------------------------------------------------------------------------
(* preview, trackRequest                                                    *)

Prune == [d \in Drafts |-> IF drafts[d] = "old" THEN "none" ELSE drafts[d]]

\* Mutated form: the cost is tracked in the database only.
PipelineUntracked(r) ==
  /\ scene = "limits" /\ At(r, "pipeline") /\ Goto(r, "made")
  /\ \E cost \in Costs : spent' = spent + cost /\ rowsCost' = rowsCost + cost
  /\ UNCHANGED <<scene, cache, today, rows, usage, drafts, copies, page, issued, admitted, failed, faults>>

\* trackRequest is not waited for, and the process has counted the cost before
\* the row is written.
Track ==
  \E cost \in Costs :
    /\ usage' = usage + cost /\ spent' = spent + cost
    /\ \/ rowsCost' = rowsCost + cost /\ UNCHANGED faults
       \/ Fault /\ UNCHANGED rowsCost

Pipeline(r) ==
  /\ scene = "limits" /\ At(r, "pipeline")
  /\ Track /\ Goto(r, "made")
  /\ UNCHANGED <<scene, cache, today, rows, drafts, copies, page, issued, admitted, failed>>

MakeDraft(r) ==
  /\ scene = "drafts" /\ At(r, "pipeline") /\ issued < MaxDrafts
  /\ issued' = issued + 1
  /\ drafts' = [Prune EXCEPT ![issued + 1] = "live"]
  /\ req' = [req EXCEPT ![r].pc = "made", ![r].draft = issued + 1]
  /\ UNCHANGED <<scene, counters, copies, page, history>>

\* A search or the model fails: what it has cost so far is not tracked.
PipelineFails(r) ==
  /\ At(r, "pipeline") /\ Goto(r, "refused")
  /\ UNCHANGED <<scene, counters, drafts, copies, page, issued, history>>

----------------------------------------------------------------------------
(* saveDraft, createPlanFromResult                                          *)

\* Mutated form: the buttons stay enabled while a save is on its way.
SaveAlways(r, t, shared) ==
  /\ At(r, "idle") /\ page[t].status = "success" /\ page[t].draft # 0
  /\ page' = [page EXCEPT ![t].saving = TRUE]
  /\ req' = [req EXCEPT ![r] = [Idle EXCEPT !.pc = "save", !.tab = t, !.draft = page[t].draft,
                                            !.shared = shared]]
  /\ UNCHANGED <<scene, counters, drafts, copies, issued, history>>

Save(r, t, shared) ==
  /\ At(r, "idle") /\ page[t].status = "success" /\ page[t].draft # 0 /\ ~page[t].saving
  /\ page' = [page EXCEPT ![t].saving = TRUE]
  /\ req' = [req EXCEPT ![r] = [Idle EXCEPT !.pc = "save", !.tab = t, !.draft = page[t].draft,
                                            !.shared = shared]]
  /\ UNCHANGED <<scene, counters, drafts, copies, issued, history>>

\* Mutated form: the draft is taken out before the plan is written.
SaveStartForget(r) ==
  /\ At(r, "save")
  /\ drafts' = [Prune EXCEPT ![req[r].draft] = "none"]
  /\ Goto(r, IF drafts[req[r].draft] # "live" THEN "unsaved" ELSE IF req[r].shared THEN "writable" ELSE "create")
  /\ UNCHANGED <<scene, counters, copies, page, issued, history>>

SaveStart(r) ==
  /\ At(r, "save") /\ drafts' = Prune
  /\ Goto(r, IF drafts[req[r].draft] # "live" THEN "unsaved" ELSE IF req[r].shared THEN "writable" ELSE "create")
  /\ UNCHANGED <<scene, counters, copies, page, issued, history>>

\* The workspace is there, and its owner has paid, or not (modules Workspace,
\* Subscription).
SaveWritable(r) ==
  /\ At(r, "writable") /\ \E answer \in {"create", "unsaved"} : Goto(r, answer)
  /\ UNCHANGED <<scene, counters, drafts, copies, page, issued, history>>

SaveCreate(r) ==
  /\ At(r, "create")
  /\ copies' = [copies EXCEPT ![req[r].draft] = IF @ = 0 THEN 1 ELSE 2]
  /\ Goto(r, IF req[r].shared THEN "notify" ELSE "forget")
  /\ UNCHANGED <<scene, counters, drafts, page, issued, history>>

\* The members are told; when that fails so does the request, with the plan
\* written and the draft kept.
SaveNotify(r) ==
  /\ At(r, "notify")
  /\ Goto(r, "forget")
  /\ UNCHANGED <<scene, counters, drafts, copies, page, issued, history>>

SaveForget(r) ==
  /\ At(r, "forget")
  /\ drafts' = [drafts EXCEPT ![req[r].draft] = "none"] /\ Goto(r, "saved")
  /\ UNCHANGED <<scene, counters, copies, page, issued, history>>

----------------------------------------------------------------------------
(* usePlanGenerate: the answers, in the order they come in                  *)

Receive(r) ==
  /\ req[r].pc \in Answered \ {"idle"}
  /\ req' = [req EXCEPT ![r] = Idle]
  /\ LET t == req[r].tab  d == req[r].draft IN
     /\ page' = [page EXCEPT ![t] =
          CASE At(r, "made")    -> [@ EXCEPT !.status = "success", !.draft = d, !.plan = 0]
            [] At(r, "refused") -> [@ EXCEPT !.status = "error"]
            [] At(r, "saved")   -> [@ EXCEPT !.draft = 0, !.plan = d, !.saving = FALSE]
            [] OTHER            -> [@ EXCEPT !.saving = FALSE]]
     /\ failed' = (failed \/ At(r, "unsaved"))
  /\ UNCHANGED <<scene, counters, drafts, copies, issued, admitted, spent, faults>>

\* A statement of the request fails, or its answer is lost.
Fail(r) ==
  /\ scene = "drafts" /\ req[r].pc \in Saves \cup {"made", "saved"} /\ Fault
  /\ Goto(r, IF req[r].pc \in Saves \cup {"saved"} THEN "unsaved" ELSE "refused")
  /\ UNCHANGED <<scene, counters, drafts, copies, page, issued, admitted, spent, failed>>

----------------------------------------------------------------------------
(* The process and the calendar                                             *)

\* loadCurrentMonthUsage; a query that fails leaves 0.
Restart ==
  /\ Fault
  /\ cache' = 0 /\ today' = TRUE
  /\ usage' \in {rowsCost, 0}
  /\ drafts' = [d \in Drafts |-> "none"]
  /\ req' = [r \in Requests |-> IF req[r].pc \in Answered THEN req[r]
                                ELSE [req[r] EXCEPT !.pc = Refused(req[r])]]
  /\ UNCHANGED <<scene, rows, rowsCost, copies, page, issued, admitted, spent, failed>>

NewDay ==
  /\ scene = "limits" /\ admitted > 0
  /\ rows' = 0 /\ admitted' = 0 /\ today' = FALSE
  /\ req' = [r \in Requests |-> [req[r] EXCEPT !.today = At(r, "idle")]]
  /\ UNCHANGED <<scene, cache, usage, rowsCost, drafts, copies, page, issued, spent, failed, faults>>

\* startUsageResetScheduler.  (That it looks once a minute is left out.)
NewMonth ==
  /\ scene = "limits" /\ spent > 0
  /\ usage' = 0 /\ rowsCost' = 0 /\ spent' = 0
  /\ UNCHANGED <<scene, cache, today, rows, drafts, copies, page, req, issued, admitted, failed, faults>>

TwentyMinutes(d) ==
  /\ drafts[d] = "live"
  /\ drafts' = [drafts EXCEPT ![d] = "old"]
  /\ UNCHANGED <<scene, counters, copies, page, req, issued, history>>

----------------------------------------------------------------------------
Init ==
  /\ scene \in Scenes
  /\ cache = 0 /\ today = TRUE /\ rows = 0 /\ usage = 0 /\ rowsCost = 0
  /\ drafts = [d \in Drafts |-> "none"] /\ copies = [d \in Drafts |-> 0]
  /\ page = [t \in Tabs |-> Blank] /\ req = [r \in Requests |-> Idle] /\ issued = 0
  /\ admitted = 0 /\ spent = 0 /\ failed = FALSE /\ faults = 0

Next ==
  \/ \E r \in Requests :
       \/ \E t \in Tabs : Generate(r, t) \/ \E shared \in BOOLEAN : Save(r, t, shared)
       \/ Check(r) \/ CountRows(r) \/ Counted(r) \/ FailOpen(r) \/ Record(r)
       \/ Pipeline(r) \/ MakeDraft(r) \/ PipelineFails(r)
       \/ SaveStart(r) \/ SaveWritable(r) \/ SaveCreate(r) \/ SaveNotify(r) \/ SaveForget(r)
       \/ Receive(r) \/ Fail(r)
  \/ Restart \/ NewDay \/ NewMonth
  \/ \E d \in Drafts : TwentyMinutes(d)

Spec == Init /\ [][Next]_vars

----------------------------------------------------------------------------
(***************************************************************************)
(* Without a failure, an address gets no more requests a day than the      *)
(* limit for each request that may be in flight: the ones that found the   *)
(* cache empty together each bring a count of their own back, and the      *)
(* cache starts again from it (checkDailyLimit).                           *)
(***************************************************************************)
DailyBounded == faults = 0 => admitted <= DailyLimit * Cardinality(Requests)

(***************************************************************************)
(* Without a failure, what is spent in a month exceeds the budget by the   *)
(* cost of the requests in flight when it was reached, and no more.        *)
(***************************************************************************)
MonthlyBounded ==
  faults = 0 => \A cost \in Costs : (\A other \in Costs : other <= cost) =>
                  spent < MonthlyBudget + Cardinality(Requests) * cost

(***************************************************************************)
(* A draft becomes a second plan only after the page was told that a save  *)
(* had failed: of this draft, whose plan was written all the same, or of   *)
(* the one before it, whose late answer unlocks the buttons while this one *)
(* is on its way (saveDraft, usePlanGenerate.save).                        *)
(***************************************************************************)
OneSaveOnePlan == \A d \in Drafts : copies[d] > 1 => failed

(***************************************************************************)
(* A draft is gone before its time only when it became a plan, or with the *)
(* process: a save that is refused leaves it to be saved again.            *)
(***************************************************************************)
DraftKept ==
  [][\A d \in Drafts : drafts[d] = "live" /\ drafts'[d] = "none" => copies[d] > 0 \/ faults' # faults]_vars
=============================================================================
