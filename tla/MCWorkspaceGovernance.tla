------------------------ MODULE MCWorkspaceGovernance ------------------------
(* Instances of WorkspaceGovernance for TLC. *)
EXTENDS WorkspaceGovernance, TLC

CONSTANTS root, sysop, alice, w1, w2, idp1, sub1, sub2, b1, b2

MCSymmetry ==
    Permutations(Workspaces) \cup Permutations(Subjects) \cup Permutations(BindingIds)
        \cup Permutations(Admins)
=============================================================================
