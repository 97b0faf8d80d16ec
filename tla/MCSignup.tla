------------------------------ MODULE MCSignup ------------------------------
EXTENDS Signup, TLC

\* The page with two addresses; one address used by the page, or from several
\* places at once.
Scene(f, kept, p, es) == [flow |-> f, redis |-> kept, page |-> p, emails |-> es,
                          codes |-> IF p THEN 2 ELSE 3]
ScenesOf(e) == {Scene("signup", TRUE, TRUE, {e}), Scene("signup", TRUE, FALSE, {e}),
                Scene("signup", FALSE, FALSE, {e}), Scene("setup", TRUE, FALSE, {e}),
                Scene("login", TRUE, FALSE, {e})}
MCScenes == {Scene("signup", FALSE, TRUE, Emails)} \cup UNION {ScenesOf(e) : e \in Emails}

Symmetric == Permutations(Requests) \cup Permutations(Emails)
=============================================================================
