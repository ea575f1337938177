---------------------------- MODULE PostLifecycle ----------------------------
(***************************************************************************)
(* What publishing promises to a user, without rows, runs or jobs: a post  *)
(* is open until publishing begins, whatever is sent to a platform is sent *)
(* after that, and there is no way back.                                   *)
(***************************************************************************)
CONSTANTS Posts, Platforms

VARIABLES phase, sent

lifecycleVars == <<phase, sent>>

Begun == {"pending", "published", "failed"}

LifecycleTypeOK ==
    /\ phase \in [Posts -> {"unwritten", "open", "gone"} \cup Begun]
    /\ sent \in [Posts -> SUBSET Platforms]

LifecycleInit ==
    /\ phase = [p \in Posts |-> "unwritten"]
    /\ sent = [p \in Posts |-> {}]

Write(p) ==
    /\ phase[p] = "unwritten"
    /\ phase' = [phase EXCEPT ![p] = "open"]
    /\ UNCHANGED sent

\* Only an open post can be discarded.
Discard(p) ==
    /\ phase[p] = "open"
    /\ phase' = [phase EXCEPT ![p] = "gone"]
    /\ UNCHANGED sent

\* Publishing begins, or begins again: a retry, or a second run that raced.
Begin(p) ==
    /\ phase[p] \in Begun \cup {"open"}
    /\ phase' = [phase EXCEPT ![p] = "pending"]
    /\ UNCHANGED sent

Send(p, x) ==
    /\ phase[p] \in Begun
    /\ sent' = [sent EXCEPT ![p] = @ \cup {x}]
    /\ UNCHANGED phase

\* A run ends; it claims success only for a post that is on some platform.
Settle(p, outcome) ==
    /\ phase[p] \in Begun
    /\ outcome = "published" => sent[p] # {}
    /\ phase' = [phase EXCEPT ![p] = outcome]
    /\ UNCHANGED sent

LifecycleNext ==
    \E p \in Posts :
        \/ Write(p) \/ Discard(p) \/ Begin(p)
        \/ \E x \in Platforms : Send(p, x)
        \/ \E outcome \in {"published", "failed"} : Settle(p, outcome)

LifecycleSpec == LifecycleInit /\ [][LifecycleNext]_lifecycleVars
=============================================================================
