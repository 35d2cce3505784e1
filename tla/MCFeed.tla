-------------------------------- MODULE MCFeed --------------------------------
(* Small instances of the feed for TLC. *)
EXTENDS Feed, TLC

\* Run ids are interchangeable.
RunSymmetry == Permutations(Runs)

=============================================================================
