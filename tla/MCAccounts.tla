----------------------------- MODULE MCAccounts -----------------------------
(***************************************************************************)
(* Three accounts, two of which may be absent: administrators of every     *)
(* kind; users of providers, of a password, and newcomers; the owner and a *)
(* member of a workspace.                                                  *)
(***************************************************************************)
EXTENDS Accounts, TLC

CONSTANTS a, b, c, p, q, mail, other

Account == [Gone EXCEPT !.exists = TRUE, !.password = TRUE]
Admin == [Account EXCEPT !.admin = TRUE]
Alone == [owner |-> None, members |-> {}]

Google == [provider |-> "google", id |-> 1, email |-> mail]
Google2 == [provider |-> "google", id |-> 2, email |-> other]
Kakao == [provider |-> "kakao", id |-> 1, email |-> None]
MCIdentities == {Google, Google2, Kakao}

Setting(use, x, y, z, space_, shared) ==
  [use |-> use, users |-> [u \in Users |-> CASE u = a -> x [] u = b -> y [] OTHER -> z], space |-> space_,
   plans |-> [n \in Plans |-> [user |-> IF ~shared THEN None ELSE IF n = p THEN a ELSE b, shared |-> shared]]]

MCScenes ==
  {Setting("roles", Admin, Admin, [Admin EXCEPT !.suspended = TRUE, !.readOnly = TRUE], Alone, FALSE),
   Setting("logins", [Account EXCEPT !.password = FALSE, !.ids = {Google2, Kakao}],
         [Account EXCEPT !.email = other, !.suspended = TRUE], Gone, Alone, FALSE),
   Setting("cleanup", [Account EXCEPT !.email = mail], [Account EXCEPT !.email = other],
         [Account EXCEPT !.password = FALSE, !.ids = {Kakao}], [owner |-> a, members |-> {a, b}], TRUE)}

Symmetric == Permutations(Requests)
=============================================================================
