---------------------------- MODULE MCGenerations ----------------------------
(***************************************************************************)
(* TLC's entry to the generation store.  Four generations are what the     *)
(* hardest interleavings need: two publications to give a compaction       *)
(* something to fold, its own stage, and a publication that overtakes it.  *)
(***************************************************************************)
EXTENDS Generations

ASSUME InstanceCanOvertake == MaxGens >= 4

=============================================================================
