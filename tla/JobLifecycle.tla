---------------------------- MODULE JobLifecycle ----------------------------
(***************************************************************************)
(* What the analysis queue promises a client about the jobs it submitted,  *)
(* whatever the API and the worker do behind it: a job is open until it is *)
(* completed, failed or cancelled; a revoked job is never published; a     *)
(* completed job stays as it is until its row expires; an open job does    *)
(* not stay open for ever.  PracticeJobs implements it.                    *)
(***************************************************************************)
CONSTANT Jobs

VARIABLES
    state,      \* where a client sees each job
    revoked     \* jobs whose cancellation was requested

States == {"absent", "open", "completed", "failed", "cancelled", "forgotten"}

TypeOK == state \in [Jobs -> States] /\ revoked \in SUBSET Jobs

Init == state = [j \in Jobs |-> "absent"] /\ revoked = {}

Submit(j) ==
    /\ state[j] = "absent"
    /\ state' = [state EXCEPT ![j] = "open"]
    /\ UNCHANGED revoked

\* A cancellation, or the deletion of the recording of several jobs.
Revoke(S) ==
    /\ \A j \in S : state[j] \notin {"absent", "forgotten"}
    /\ state' = [j \in Jobs |-> IF j \in S /\ state[j] = "open" THEN "cancelled" ELSE state[j]]
    /\ revoked' = revoked \union S

Publish(j) ==
    /\ state[j] = "open" /\ j \notin revoked
    /\ state' = [state EXCEPT ![j] = "completed"]
    /\ UNCHANGED revoked

\* A job that was cancelled may still be told as failed: its recording is gone.
Fail(S) ==
    /\ \A j \in S : state[j] \in {"open", "cancelled"}
    /\ state' = [j \in Jobs |-> IF j \in S THEN "failed" ELSE state[j]]
    /\ UNCHANGED revoked

\* Expired rows are deleted.
Forget(S) ==
    /\ \A j \in S : state[j] \in {"completed", "failed", "cancelled"}
    /\ state' = [j \in Jobs |-> IF j \in S THEN "forgotten" ELSE state[j]]
    /\ revoked' = revoked \ S

Next ==
    \/ \E j \in Jobs : Submit(j) \/ Publish(j)
    \/ \E S \in SUBSET Jobs : Revoke(S) \/ Fail(S) \/ Forget(S)

vars == <<state, revoked>>

EveryJobCloses == \A j \in Jobs : state[j] = "open" ~> state[j] # "open"

SafeSpec == Init /\ [][Next]_vars
Spec == SafeSpec /\ EveryJobCloses
=============================================================================
