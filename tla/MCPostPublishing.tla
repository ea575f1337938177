------------------------- MODULE MCPostPublishing -------------------------
(***************************************************************************)
(* Instances of PostPublishing for TLC: the platform lists a client may    *)
(* submit, and the symmetry of requests, workers and jobs.                 *)
(***************************************************************************)
EXTENDS PostPublishing, TLC

CONSTANTS bluesky, reddit

\* One platform and both; a list that names a platform twice, which the
\* handlers accept.
MCLists == {<<bluesky>>, <<bluesky, reddit>>}
MCListsTwice == {<<bluesky, bluesky>>}

MCSymmetry == Permutations(Http) \cup Permutations(Workers) \cup Permutations(Jobs)
=============================================================================
