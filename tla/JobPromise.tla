------------------------------ MODULE JobPromise ------------------------------
(***************************************************************************)
(* What a job service promises whoever polls it (submit, poll, fetch): a   *)
(* job is queued, then it runs, then it is done or failed and stays so     *)
(* until it is deleted, and what was deleted does not come back.  Only a   *)
(* restart of the service may make the answers older than they were, and   *)
(* only where the service may go back on it does done become failed.       *)
(* ConvertJobs, DubbingJobs and DesignJobs implement it, on a Modal Volume *)
(* or in memory with files beside it.                                      *)
(***************************************************************************)
EXTENDS Naturals

CONSTANTS PromisedJobs,
          MayRetract   \* what follows a job that is done may still fail it

VARIABLES phase,     \* [PromisedJobs -> Phases]
          restarts   \* how often the service was restarted

Phases == {"none", "queued", "running", "done", "failed", "gone"}

(* The phases a job may have been in before this one.                      *)
Before(p) == CASE p = "none"    -> {"none"}
               [] p = "queued"  -> {"none", "queued"}
               [] p = "running" -> {"none", "queued", "running"}
               [] p = "done"    -> {"none", "queued", "running", "done"}
               [] p = "failed"  -> {"none", "queued", "running", "failed"}
               [] p = "gone"    -> {"gone"}

Init == phase = [j \in PromisedJobs |-> "none"] /\ restarts = 0

Become(j, p) == phase' = [phase EXCEPT ![j] = p] /\ UNCHANGED restarts

Accept(j) == phase[j] = "none" /\ \E p \in {"queued", "failed"} : Become(j, p)
Start(j)  == phase[j] = "queued" /\ Become(j, "running")
Settle(j) == phase[j] \in {"queued", "running"} /\ \E p \in {"done", "failed"} : Become(j, p)
Retract(j) == MayRetract /\ phase[j] = "done" /\ Become(j, "failed")
Remove(j) == phase[j] # "none" /\ Become(j, "gone")

Restart ==
  /\ restarts' = restarts + 1
  /\ phase' \in [PromisedJobs -> Phases]
  /\ \A j \in PromisedJobs : phase'[j] \in Before(phase[j])

Next == Restart \/ \E j \in PromisedJobs : Accept(j) \/ Start(j) \/ Settle(j) \/ Retract(j) \/ Remove(j)

Spec == Init /\ [][Next]_<<phase, restarts>>
=============================================================================
