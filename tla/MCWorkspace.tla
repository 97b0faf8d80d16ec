---------------------------- MODULE MCWorkspace ----------------------------
(***************************************************************************)
(* Small instances of Workspace.  Users, workspaces, invitations, plans    *)
(* and requests are each interchangeable.                                  *)
(***************************************************************************)
EXTENDS Workspace, TLC

Symmetry ==
    Permutations(Users) \union Permutations(Workspaces) \union Permutations(Invites)
        \union Permutations(Plans) \union Permutations(Requests)
=============================================================================
