---------------------------- MODULE MCPushStore ----------------------------
(* PushStore on two endpoints, with the symmetries of its constants. *)
EXTENDS PushStore, TLC

Symmetry == Permutations(Endpoints) \cup Permutations(Identities) \cup Permutations(Sends)

=============================================================================
