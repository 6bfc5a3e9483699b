--------------------------- MODULE MCHttpPipeline ---------------------------
(***************************************************************************)
(* Instances of HttpPipeline for TLC.                                      *)
(***************************************************************************)
EXTENDS HttpPipeline, TLC

CONSTANTS k1, k2, k3

\* A current key that expires on day 1, a retired one that never does.
MCExpiry == k1 :> 1
=============================================================================
