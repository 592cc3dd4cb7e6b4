------------------------------ MODULE MCIngest ------------------------------
(***************************************************************************)
(* TLC's entry to the refresh pipeline: the specification together with    *)
(* the inductive invariant of its proof, which the core run evaluates on   *)
(* every reachable state.  No symmetry: paths differ by Bounded and        *)
(* Restorable, and the instances have one path of each kind.               *)
(***************************************************************************)
EXTENDS IngestInvariant

ASSUME InstanceHasPaths == Paths # {}

=============================================================================
