------------------------------- MODULE Couple -------------------------------
(***************************************************************************)
(* What a couple is promised about its workspace: each operation happens   *)
(* at one moment, as if no other were under way.  Who joins was invited    *)
(* and lives nowhere else; a plan is shared in the home that its owner has *)
(* at that moment; when the couple parts, everything of the workspace ends *)
(* together, every plan goes back to its owner, and only members are given *)
(* copies, of plans of the other members, once.                            *)
(***************************************************************************)
EXTENDS Naturals

CONSTANTS Users, Workspaces, Plans, None

VARIABLES
    founder,   \* who founded a workspace that is there
    gone,      \* workspaces that ended; they never come back
    home,      \* the workspace a user lives in
    invited,   \* who is invited to which workspace
    plan,      \* whose a plan is, and where it is shared
    gifts      \* gifts[w][p][u]: copies of p that u was given when w ended

vars == <<founder, gone, home, invited, plan, gifts>>

Init ==
    /\ founder = [w \in Workspaces |-> None]
    /\ gone = {}
    /\ home = [u \in Users |-> None]
    /\ invited = {}
    /\ plan = [p \in Plans |-> [status |-> "none", owner |-> None, ws |-> None]]
    /\ gifts = [w \in Workspaces |-> [p \in Plans |-> [u \in Users |-> 0]]]

Found(u, w) ==
    /\ founder[w] = None /\ w \notin gone
    /\ home[u] = None
    /\ founder' = [founder EXCEPT ![w] = u]
    /\ home' = [home EXCEPT ![u] = w]
    /\ UNCHANGED <<gone, invited, plan, gifts>>

Invite(w, u) ==
    /\ founder[w] # None
    /\ invited' = invited \union {<<w, u>>}
    /\ UNCHANGED <<founder, gone, home, plan, gifts>>

Join(u, w) ==
    /\ <<w, u>> \in invited
    /\ home[u] = None
    /\ home' = [home EXCEPT ![u] = w]
    /\ UNCHANGED <<founder, gone, invited, plan, gifts>>

\* A plan for oneself, or for the home one has.
Make(u, p, w) ==
    /\ plan[p].status = "none"
    /\ w \in {None, home[u]}
    /\ plan' = [plan EXCEPT ![p] = [status |-> "live", owner |-> u, ws |-> w]]
    /\ UNCHANGED <<founder, gone, home, invited, gifts>>

Share(p) ==
    /\ plan[p].status = "live" /\ plan[p].ws = None
    /\ home[plan[p].owner] # None
    /\ plan' = [plan EXCEPT ![p].ws = home[plan[p].owner]]
    /\ UNCHANGED <<founder, gone, home, invited, gifts>>

Delete(p) ==
    /\ plan[p].status = "live"
    /\ plan' = [plan EXCEPT ![p] = [@ EXCEPT !.status = "deleted", !.ws = None]]
    /\ UNCHANGED <<founder, gone, home, invited, gifts>>

\* What u may be given when w ends: both the owner of the plan and u live there.
Gift(w, p, u) ==
    /\ plan[p].status # "none" /\ plan[p].owner # u
    /\ home[plan[p].owner] = w /\ home[u] = w

Part(w, G) ==
    /\ founder[w] # None
    /\ \A g \in G : Gift(w, g[1], g[2])
    /\ gifts' = [gifts EXCEPT ![w] =
                    [p \in Plans |-> [u \in Users |-> IF <<p, u>> \in G THEN 1 ELSE 0]]]
    /\ founder' = [founder EXCEPT ![w] = None]
    /\ gone' = gone \union {w}
    /\ home' = [u \in Users |-> IF home[u] = w THEN None ELSE home[u]]
    /\ invited' = {x \in invited : x[1] # w}
    /\ plan' = [p \in Plans |-> IF plan[p].ws = w THEN [plan[p] EXCEPT !.ws = None] ELSE plan[p]]

Next ==
    \/ \E u \in Users, w \in Workspaces : Found(u, w) \/ Invite(w, u) \/ Join(u, w)
    \/ \E p \in Plans : Share(p) \/ Delete(p)
    \/ \E u \in Users, p \in Plans, w \in Workspaces \union {None} : Make(u, p, w)
    \/ \E w \in Workspaces, G \in SUBSET (Plans \X Users) : Part(w, G)

Spec == Init /\ [][Next]_vars
=============================================================================
