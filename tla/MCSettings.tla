------------------------------ MODULE MCSettings ------------------------------
(***************************************************************************)
(* Small instances of Settings: an account that signed in with a provider  *)
(* and one with a password, a few sections of the page at a time, and the  *)
(* bell alone.                                                             *)
(***************************************************************************)
EXTENDS Settings, TLC

Social == [name |-> 1, email |-> TRUE, password |-> FALSE, social |-> TRUE,
           inApp |-> TRUE, withdrawn |-> FALSE]
Local  == [Social EXCEPT !.password = TRUE]
New    == [Social EXCEPT !.email = FALSE]

CONSTANTS d1, d2

Use(first, second, row) == [use |-> (d1 :> first) @@ (d2 :> second), account |-> row]

SectionsAtOnce ==
  {Use({"nickname", "password"}, {}, Local), Use({"password"}, {"logout"}, Local),
   Use({"social", "notices", "again"}, {}, Local), Use({"password", "withdraw"}, {}, Social),
   Use({"email"}, {"notices"}, New), Use({}, {}, Local)}
=============================================================================
