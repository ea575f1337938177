---------------------------- MODULE MCAlertIngest ----------------------------
(***************************************************************************)
(* Instances of AlertIngest for TLC.                                       *)
(***************************************************************************)
EXTENDS AlertIngest, TLC

CONSTANTS k1, k2

\* One item, or two of different source types.
MCTypeOfOne == k1 :> "hn"
MCTypeOfTwo == k1 :> "hn" @@ k2 :> "web"

\* Slots, rules, versions and instants are interchangeable.
MCSymmetry ==
    Permutations(Slots) \cup Permutations(Rules) \cup Permutations(Versions)
        \cup Permutations(Instants)
=============================================================================
