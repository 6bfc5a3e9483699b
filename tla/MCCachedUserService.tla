------------------------ MODULE MCCachedUserService ------------------------
(***************************************************************************)
(* Instances of CachedUserService for TLC.                                 *)
(***************************************************************************)
EXTENDS CachedUserService, TLC

\* Requests are interchangeable.
MCSymmetry == Permutations(Reqs)

\* The history variable tainted guards nothing; the runs about lists, which do
\* not look at it, need not tell states apart by it.
MCListView == <<local, setBuf, redis, db, commits, listVer, req, restarts, acked>>
=============================================================================
