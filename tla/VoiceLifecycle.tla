---------------------------- MODULE VoiceLifecycle ----------------------------
(***************************************************************************)
(* What a cloned voice goes through, as its owner sees it: awaiting its    *)
(* dataset, in training, ready or failed, gone; and what the service has   *)
(* answered to a DELETE.  A ready voice stays as it is until it goes, and  *)
(* a voice that is gone never comes back.  OrpheusClone implements this    *)
(* on a Volume that no two containers see alike.                           *)
(***************************************************************************)
VARIABLES phase,     \* "none" before the voice is created
          promise    \* the answer to the DELETEs so far

Phases   == {"none", "awaiting_dataset", "training", "ready", "failed", "gone"}
Promises == {"none", "requested", "deleted"}

TypeOK == phase \in Phases /\ promise \in Promises

Init == phase = "none" /\ promise = "none"

Create == phase = "none" /\ phase' = "awaiting_dataset" /\ UNCHANGED promise

Train ==
  /\ phase \in {"awaiting_dataset", "failed"} /\ promise = "none"
  /\ phase' = "training"
  /\ UNCHANGED promise

(* Trained, failed, or never started.                                      *)
Settle ==
  /\ phase = "training"
  /\ phase' \in {"ready", "failed", "awaiting_dataset"}
  /\ phase' = "awaiting_dataset" => promise = "none"
  /\ UNCHANGED promise

(* A DELETE during training is promised; the voice goes when it can.       *)
PromiseDeletion ==
  /\ phase \in {"training", "ready", "failed", "gone"}
  /\ promise' = "requested"
  /\ UNCHANGED phase

KeepPromise == promise = "requested" /\ phase' = "gone" /\ UNCHANGED promise

(* A DELETE outside training is immediate.                                 *)
Delete == phase \notin {"none", "training"} /\ phase' = "gone" /\ promise' = "deleted"

Next == Create \/ Train \/ Settle \/ PromiseDeletion \/ KeepPromise \/ Delete

Spec == Init /\ [][Next]_<<phase, promise>>
=============================================================================
