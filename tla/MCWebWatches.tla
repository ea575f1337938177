---------------------------- MODULE MCWebWatches ----------------------------
(***************************************************************************)
(* Instances of WebWatches for TLC.                                        *)
(***************************************************************************)
EXTENDS WebWatches, SequencesExt, TLC

\* Every list of at most two addresses, repeated ones included, and those of three
\* that begin and end with the same.
MCLists == BoundedSeq(URLs, 2) \cup {<<u, v, u>> : u, v \in URLs}

\* No property says anything about a source that is torn, and it stays torn:
\* what comes after need not be explored.
MCNotTorn == torn = {}

MCSymmetry == Permutations(Requests) \cup Permutations(URLs)
=============================================================================
