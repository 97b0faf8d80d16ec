----------------------------- MODULE MCPlanEdit -----------------------------
(***************************************************************************)
(* A small instance of PlanEdit.  Items, values and requests are           *)
(* interchangeable; the owner of the plan is not like the other member.    *)
(***************************************************************************)
EXTENDS PlanEdit, TLC

\* Bounds of the run.  The plan itself is edited while it has no items and no
\* memos, its items while it is shared, its memos while nothing else is edited.
Under(ops) == \E r \in Requests : req[r].op \in ops

OpsApart ==
    Rows(plan) # {} \/ Under({"add", "edit", "remove", "delete"}) =>
        /\ ~Under({"update", "share"})
        /\ plan.shared /\ plan.category = None /\ categories = Labellers

MemosApart ==
    (\E u \in Users : plan.memos[u] # "unwritten") \/ Under({"memo", "unmemo"}) =>
        /\ ~Under({"update", "share", "add", "edit", "remove"})
        /\ Rows(plan) = {} /\ plan.summary = None /\ plan.category = None
        /\ plan.version <= 2 /\ categories = Labellers

\* The access of the workspace's owner ends, and comes back, once.
AccessLostOnce == ~writable => plan.version = 2 /\ plan.shared

\* What is on a screen, or on its way, is at most one version old.
OneBehind ==
    \A r \in Requests, u \in Users :
        {req[r].version, view[u].version} \subseteq {0, plan.version, plan.version - 1}

\* Who may read the plan loads it before anything else is sent.
LoadedFirst ==
    \A r \in Requests, u \in Users :
        view[u].version = 0 /\ CanRead(u) => req[r].pc \in {"idle", "answer"}

Symmetry == Permutations(Items) \union Permutations(Values) \union Permutations(Requests)
=============================================================================
