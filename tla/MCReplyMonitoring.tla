------------------------- MODULE MCReplyMonitoring -------------------------
(***************************************************************************)
(* An instance of ReplyMonitoring for TLC.                                 *)
(***************************************************************************)
EXTENDS ReplyMonitoring, TLC

CONSTANTS k1, k2

\* Every request is about Reddit.
MCAdapters == {<<"reddit", "api">>, <<"reddit", "browser">>}

\* Reddit is not connected at the start, Hacker News by the browser only.
MCGiven ==
    ("c1" :> [life |-> "kept", key |-> <<"bluesky", "api">>, enabled |-> TRUE, creds |-> "c1"]) @@
    ("c2" :> [life |-> "kept", key |-> <<"hn", "browser">>, enabled |-> TRUE, creds |-> "c2"])

\* One result for each platform, and one that the browser published on Bluesky.
MCPlatformOf == ("r1" :> "bluesky") @@ ("r2" :> "hn") @@ ("r3" :> "reddit") @@ ("r4" :> "bluesky")
=============================================================================
