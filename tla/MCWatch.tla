------------------------------- MODULE MCWatch -------------------------------
(***************************************************************************)
(* TLC's entry to the event loop: below one root, which may be absent and  *)
(* is configured while the daemon runs, a transcript and a file no source  *)
(* tracks, whose events never stop.                                        *)
(***************************************************************************)
EXTENDS Watch, TLC

CONSTANTS p, q, s

MCRootOf == (p :> s) @@ (q :> s)

=============================================================================
