--------------------------- MODULE MCFeedMonitors ---------------------------
(***************************************************************************)
(* Instances of FeedMonitors for TLC.                                      *)
(***************************************************************************)
EXTENDS FeedMonitors

\* All kinds.
MCAll == AllKinds

\* The lists take three items and one.
MCItems == <<3, 1>>
=============================================================================
