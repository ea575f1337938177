---------------------------- MODULE MCMembership ----------------------------
(***************************************************************************)
(* Instances of Membership for TLC.                                        *)
(***************************************************************************)
EXTENDS Membership, TLC

MCMembers == {"add", "role", "remove", "delete"}

\* Accounts; slugs; the members of a project.
MCMixes == {{"start", "password"}, {"create", "update", "delete"}, MCMembers}

MCMembersOnly == {MCMembers}

\* Users and requests are interchangeable; no property is about liveness.
MCSymmetry == Permutations(Users) \cup Permutations(Requests)
=============================================================================
