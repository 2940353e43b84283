----------------------------- MODULE OrpheusClone -----------------------------
(***************************************************************************)
(* The Orpheus voice-cloning service (voice-pipeline/orpheus_clone_prod):  *)
(* web containers answering the customer's requests about one voice        *)
(* (api.py), the training runs they spawn (train_job.py, main.py) and the  *)
(* GPU containers that speak with its checkpoint (main.py, serve.py), all  *)
(* around one Modal Volume.                                                *)
(*                                                                         *)
(* Between its reload and its commit a handler touches only its own view,  *)
(* so the steps of a process are cut at the Volume operations, at .spawn() *)
(* and at .remote(), where the others can see or overtake it.              *)
(***************************************************************************)
EXTENDS OrpheusVolume, Naturals

CONSTANTS Api,              \* the web containers, one request at a time each
          MaxFaults,        \* bound on kills, and on calls that raise and that nobody catches
          Races             \* the crossings, of those below, that may happen

(* Requests that the service accepts and that cross what it has under way. *)
(*   "overlap": a request that changes the voice is between its reload and *)
(*              its commit when another container's request writes too;    *)
(*   "late":    a dataset is uploaded while a run is in flight or after a  *)
(*              DELETE was answered;                                       *)
(*   "early":   the dataset is committed again before the run that failed  *)
(*              has made its post-commit check.                            *)
Kinds == {"overlap", "late", "early"}

ASSUME ParametersAssumption == MaxFaults \in Nat /\ Races \subseteq Kinds

VARIABLES
  volume,     \* the committed files of the voice
  apc,        \* [Api -> where each web container's request is]
  aview,      \* [Api -> its view of the voice]
  adirty,     \* [Api -> its uncommitted files]
  jpc,        \* [Jobs -> where each training run is]
  jview,
  jdirty,
  engines,    \* the GPU containers of the voice: the checkpoint each one loaded
  faults,
  (* What the customer was last told: the voice exists, and of its DELETE. *)
  created,
  acked,
  crossed     \* history: the crossings that have happened

apiVars == <<apc, aview, adirty>>
jobVars == <<jpc, jview, jdirty>>
serviceVars == <<volume, apc, aview, adirty, jpc, jview, jdirty, engines, faults, created, acked>>
vars        == <<serviceVars, crossed>>

ApiPcs == {"idle", "upload_body", "commit_upload", "commit_training", "spawn",
           "commit_rollback", "commit_delete", "commit_marker", "commit_pending", "engine"}
JobPcs == {"unused", "queued", "prepare", "trained", "warm_commit", "warm_call", "warmed",
           "except", "final_commit", "post_check", "post_commit", "done", "crashed"}

Poisoned == "UnknownVoiceError"   \* an engine whose @modal.enter() found no voice

ASSUME PoisonedAssumption == Poisoned \notin Jobs

TypeOK ==
  /\ volume  \in Trees
  /\ apc     \in [Api -> ApiPcs]
  /\ aview   \in [Api -> Trees]
  /\ adirty  \in [Api -> SUBSET Files]
  /\ jpc     \in [Jobs -> JobPcs]
  /\ jview   \in [Jobs -> Trees]
  /\ jdirty  \in [Jobs -> SUBSET Files]
  /\ engines \subseteq Jobs \cup {Poisoned}
  /\ faults \in 0 .. MaxFaults
  /\ created \in BOOLEAN
  /\ acked   \in {"none", "requested", "deleted"}
  /\ crossed \subseteq Kinds

Init ==
  /\ volume  = NoVoice
  /\ apc     = [c \in Api |-> "idle"]
  /\ aview   = [c \in Api |-> NoVoice]
  /\ adirty  = [c \in Api |-> {}]
  /\ jpc     = [j \in Jobs |-> "unused"]
  /\ jview   = [j \in Jobs |-> NoVoice]
  /\ jdirty  = [j \in Jobs |-> {}]
  /\ engines = {}
  /\ faults = 0
  /\ created = FALSE
  /\ acked   = "none"
  /\ crossed = {}

(* A kill, or an exception that nobody catches.                            *)
Fault == faults < MaxFaults /\ faults' = faults + 1

-----------------------------------------------------------------------------
(* api.py: the request handlers.                                           *)

(* A container goes to pc with this view and these uncommitted files.      *)
ApiMove(c, pc, view, dirty) ==
  /\ apc'    = [apc EXCEPT ![c] = pc]
  /\ aview'  = [aview EXCEPT ![c] = view]
  /\ adirty' = [adirty EXCEPT ![c] = dirty]

(* POST /v1/orpheus-voices.  The id is fresh and nobody knows it before    *)
(* the answer, so its write and its commit are one step.                   *)
CreateVoice(c) ==
  /\ apc[c] = "idle" /\ ~ created
  /\ LET view == [aview[c] EXCEPT !.manifest = Manifest("awaiting_dataset", FALSE)]
     IN  /\ ApiMove(c, "idle", view, {})
         /\ volume' = Commit(volume, view, {"manifest"})
  /\ created' = TRUE
  /\ UNCHANGED <<jobVars, engines, faults, acked>>

(* load_owned_voice(): reload, refuse an unknown voice, finish a deletion  *)
(* that is still owed.  Next is what the handler does with a live voice.   *)
Refuse(c)         == ApiMove(c, "idle", volume, {})
FinishDeletion(c) == ApiMove(c, "commit_pending", NoVoice, FilesOf(volume))

(* PUT .../dataset.  The body is read after the reload (api.py awaits it). *)
UploadDataset(c) ==
  /\ apc[c] = "idle" /\ created
  /\ Exists(volume)
  /\ IF PendingDelete(volume) THEN FinishDeletion(c)
                              ELSE ApiMove(c, "upload_body", volume, {})
  /\ UNCHANGED <<volume, jobVars, engines, faults, created, acked>>

(* The body has arrived: write upload.zip and mark_dataset_uploaded().     *)
UploadBody(c) ==
  /\ apc[c] = "upload_body"
  /\ ApiMove(c, "commit_upload", [MarkUploaded(aview[c]) EXCEPT !.upload = TRUE],
             {"upload", "manifest"})
  /\ UNCHANGED <<volume, jobVars, engines, faults, created, acked>>

CommitDataset_AnyStatus(c) ==
  /\ apc[c] = "idle" /\ created
  /\ Exists(volume) /\ ~ PendingDelete(volume) /\ volume.manifest.uploaded
  /\ ApiMove(c, "commit_training", WriteStatus(volume, "training"), {"manifest"})
  /\ UNCHANGED <<volume, jobVars, engines, faults, created, acked>>

(* POST .../dataset/commit, up to the commit that precedes the spawn.      *)
CommitDataset(c) ==
  /\ apc[c] = "idle" /\ created
  /\ Exists(volume)
  /\ \/ /\ PendingDelete(volume)
        /\ FinishDeletion(c)
     \/ /\ ~ PendingDelete(volume)
        /\ Status(volume) \in CommittableStatuses
        /\ volume.manifest.uploaded
        /\ ApiMove(c, "commit_training", WriteStatus(volume, "training"), {"manifest"})
  /\ UNCHANGED <<volume, jobVars, engines, faults, created, acked>>

SpawnTraining(c) ==
  /\ apc[c] = "spawn"
  /\ \E j \in Jobs : jpc[j] = "unused" /\ jpc' = [jpc EXCEPT ![j] = "queued"]
  /\ apc' = [apc EXCEPT ![c] = "idle"]
  /\ UNCHANGED <<volume, aview, adirty, jview, jdirty, engines, faults, created, acked>>

SpawnFails_NoRollback(c) ==
  /\ apc[c] = "spawn"
  /\ ApiMove(c, "idle", aview[c], {})
  /\ UNCHANGED <<volume, jobVars, engines, faults, created, acked>>

(* .spawn() raised: roll the status back so that the customer may retry.   *)
SpawnFails(c) ==
  /\ apc[c] = "spawn"
  /\ ApiMove(c, "commit_rollback",
             MarkUploaded(WriteStatus(aview[c], "awaiting_dataset")), {"manifest"})
  /\ UNCHANGED <<volume, jobVars, engines, faults, created, acked>>

(* DELETE: a marker while a run owns the voice, otherwise the files go.    *)
DeleteVoice(c) ==
  /\ apc[c] = "idle" /\ created
  /\ Exists(volume)
  /\ IF InFlight(volume)
       THEN ApiMove(c, "commit_marker", RequestDelete(volume), {"marker"})
       ELSE ApiMove(c, "commit_delete", NoVoice, FilesOf(volume))
  /\ UNCHANGED <<volume, jobVars, engines, faults, created, acked>>

(* GET: reads, and finishes a deletion that is owed.                       *)
PollVoice(c) ==
  /\ apc[c] = "idle" /\ created
  /\ IF Exists(volume) /\ PendingDelete(volume) THEN FinishDeletion(c) ELSE Refuse(c)
  /\ UNCHANGED <<volume, jobVars, engines, faults, created, acked>>

(* POST /v1/orpheus-tts: reload, finish a deletion that is owed (the voice *)
(* then resolves to nothing), and go to the GPU if the voice resolves.     *)
SynthesizeVoice(c) ==
  /\ apc[c] = "idle" /\ created
  /\ \/ Exists(volume) /\ PendingDelete(volume) /\ FinishDeletion(c)
     \/ Resolves(volume) /\ ApiMove(c, "engine", volume, {})
  /\ UNCHANGED <<volume, jobVars, engines, faults, created, acked>>

(* commit_store(), and the answer that follows it.                         *)
ApiCommit(c) ==
  /\ apc[c] \in {"commit_upload", "commit_training", "commit_rollback",
                 "commit_delete", "commit_marker", "commit_pending"}
  /\ volume' = Commit(volume, aview[c], adirty[c])
  /\ ApiMove(c, IF apc[c] = "commit_training" THEN "spawn" ELSE "idle", aview[c], {})
  /\ acked' = CASE apc[c] = "commit_delete" -> "deleted"
                [] apc[c] = "commit_marker" -> "requested"
                [] OTHER                    -> acked
  /\ UNCHANGED <<jobVars, engines, faults, created>>

-----------------------------------------------------------------------------
(* main.OrpheusCloneEngine: the voice's GPU containers.                    *)

(* @modal.enter() of a new container, on the latest committed files.  It   *)
(* keeps what it found for its lifetime; a checkpoint that is not there    *)
(* cannot be loaded, and the container does not come up.                   *)
EngineInit(e) == IF Resolves(volume) THEN e = volume.merged /\ e # NoJob
                                     ELSE e = Poisoned

(* A call is routed to a container that is up, or to a new one.            *)
EngineCall ==
  \/ engines # {} /\ UNCHANGED engines
  \/ \E e \in Jobs \cup {Poisoned} : EngineInit(e) /\ engines' = engines \cup {e}
  \/ Resolves(volume) /\ volume.merged = NoJob /\ UNCHANGED engines

SynthesizeText(c) ==
  /\ apc[c] = "engine"
  /\ EngineCall
  /\ apc' = [apc EXCEPT ![c] = "idle"]
  /\ UNCHANGED <<volume, aview, adirty, jobVars, faults, created, acked>>

(* scaledown_window: idle containers are stopped.                          *)
EngineScaledown ==
  /\ \E e \in engines : engines' = engines \ {e}
  /\ UNCHANGED <<volume, apiVars, jobVars, faults, created, acked>>

-----------------------------------------------------------------------------
(* train_job.run_training_job and main.run_training_job_modal.             *)

JobMove(j, pc, view, dirty) ==
  /\ jpc'    = [jpc EXCEPT ![j] = pc]
  /\ jview'  = [jview EXCEPT ![j] = view]
  /\ jdirty' = [jdirty EXCEPT ![j] = dirty]

(* The container is killed, or raises what nobody catches: what it had not *)
(* committed is lost, and nothing is recorded.                             *)
JobDies(j) ==
  /\ Fault
  /\ JobMove(j, "crashed", NoVoice, {})
  /\ UNCHANGED volume

(* The reload at the start is outside the try.                             *)
JobStart(j) ==
  /\ jpc[j] = "queued"
  /\ \/ JobMove(j, "prepare", volume, {}) /\ UNCHANGED <<volume, faults>>
     \/ JobDies(j)
  /\ UNCHANGED <<apiVars, engines, created, acked>>

(* prepare_dataset, the fine-tune and the merge; no upload.zip, no clips.  *)
JobTrains(j) ==
  /\ jpc[j] = "prepare"
  /\ jview[j].upload
  /\ JobMove(j, "trained", [jview[j] EXCEPT !.clips = TRUE], {"clips"})
  /\ UNCHANGED <<volume, apiVars, engines, faults, created, acked>>

(* No upload.zip; too few clips or no transcriber, which removes the clips *)
(* again; or a failed fine-tune, which leaves them.                        *)
JobTrainingFails(j) ==
  /\ jpc[j] = "prepare"
  /\ IF jview[j].upload
       THEN \E kept \in BOOLEAN :
              JobMove(j, "except", [jview[j] EXCEPT !.clips = kept], {"clips"})
       ELSE JobMove(j, "except", jview[j], {})
  /\ UNCHANGED <<volume, apiVars, engines, faults, created, acked>>

(* What a run sees after reload_store(): it fails and leaves the local     *)
(* view, or brings in what the others committed, the run's own uncommitted *)
(* files being committed on the way or kept ("may implicitly commit").     *)
JobReload(j, view, dirty) ==
  \/ /\ view = jview[j] /\ dirty = jdirty[j] /\ UNCHANGED volume
  \/ /\ view = Commit(volume, jview[j], jdirty[j])
     /\ \/ dirty = jdirty[j] /\ UNCHANGED volume
        \/ dirty = {} /\ volume' = view

(* _deleted_mid_run(): the record is gone or a DELETE is pending.          *)
DeletedMidRun(view) == ~ Exists(view) \/ IsDeleteRequested(view)

JobDiscards(j, view, dirty) == JobMove(j, "final_commit", NoVoice, dirty \cup FilesOf(view))

(* After the merge: save the checkpoint, then write "warming"; saving may  *)
(* fail (a multi-gigabyte copy).                                           *)
JobSaves(j) ==
  /\ jpc[j] = "trained"
  /\ \E view \in {jview[j], Commit(volume, jview[j], jdirty[j])}, dirty \in {jdirty[j], {}} :
       /\ JobReload(j, view, dirty)
       /\ IF DeletedMidRun(view)
            THEN JobDiscards(j, view, dirty)
            ELSE \/ JobMove(j, "warm_commit", WriteStatus(SaveCheckpoint(view, j), "warming"),
                            dirty \cup {"merged", "manifest"})
                 \/ JobMove(j, "except", view, dirty)
  /\ UNCHANGED <<apiVars, engines, faults, created, acked>>

JobWarmCommit_Skipped(j) ==
  /\ jpc[j] = "warm_commit"
  /\ JobMove(j, "warm_call", jview[j], jdirty[j])
  /\ UNCHANGED <<volume, apiVars, engines, faults, created, acked>>

(* warm_up(): commit, then one synthesis on a GPU container; whatever goes *)
(* wrong in either is swallowed.                                           *)
JobWarmCommit(j) ==
  /\ jpc[j] = "warm_commit"
  /\ \/ /\ volume' = Commit(volume, jview[j], jdirty[j])
        /\ JobMove(j, "warm_call", jview[j], {})
     \/ /\ JobMove(j, "warmed", jview[j], jdirty[j])
        /\ UNCHANGED volume
  /\ UNCHANGED <<apiVars, engines, faults, created, acked>>

JobWarmCall(j) ==
  /\ jpc[j] = "warm_call"
  /\ EngineCall \/ UNCHANGED engines
  /\ jpc' = [jpc EXCEPT ![j] = "warmed"]
  /\ UNCHANGED <<volume, apiVars, jview, jdirty, faults, created, acked>>

(* The last word on the voice: discarded, or "ready".                      *)
JobReady(j) ==
  /\ jpc[j] = "warmed"
  /\ \E view \in {jview[j], Commit(volume, jview[j], jdirty[j])}, dirty \in {jdirty[j], {}} :
       /\ JobReload(j, view, dirty)
       /\ IF DeletedMidRun(view)
            THEN JobDiscards(j, view, dirty)
            ELSE JobMove(j, "final_commit", WriteStatus(view, "ready"), dirty \cup {"manifest"})
  /\ UNCHANGED <<apiVars, engines, faults, created, acked>>

(* The except branch: discarded, or "failed"; what raises here is dropped  *)
(* ("don't let a failure to record status mask the real error").           *)
JobFailed(j) ==
  /\ jpc[j] = "except"
  /\ \E view \in {jview[j], Commit(volume, jview[j], jdirty[j])}, dirty \in {jdirty[j], {}} :
       /\ JobReload(j, view, dirty)
       /\ \/ /\ UNCHANGED faults
             /\ IF DeletedMidRun(view)
                  THEN JobDiscards(j, view, dirty)
                  ELSE JobMove(j, "final_commit", WriteStatus(view, "failed"), dirty \cup {"manifest"})
          \/ Fault /\ JobMove(j, "final_commit", view, dirty)
  /\ UNCHANGED <<apiVars, engines, created, acked>>

(* main.py's trailing commit, in the finally clause; if it raises, neither *)
(* the last status nor the check below is made.                            *)
JobFinalCommit(j) ==
  /\ jpc[j] = "final_commit"
  /\ \/ /\ volume' = Commit(volume, jview[j], jdirty[j])
        /\ JobMove(j, "post_check", jview[j], {})
        /\ UNCHANGED faults
     \/ JobDies(j)
  /\ UNCHANGED <<apiVars, engines, created, acked>>

(* _complete_delete_requested_after_commit(); a failed reload ends it.     *)
JobPostCheck(j) ==
  /\ jpc[j] = "post_check"
  /\ \/ /\ IsDeleteRequested(volume)
        /\ JobMove(j, "post_commit", NoVoice, FilesOf(volume))
     \/ /\ ~ IsDeleteRequested(volume)
        /\ JobMove(j, "done", volume, {})
     \/ JobMove(j, "done", jview[j], {})
  /\ UNCHANGED <<volume, apiVars, engines, faults, created, acked>>

JobPostCommit(j) ==
  /\ jpc[j] = "post_commit"
  /\ \/ volume' = Commit(volume, jview[j], jdirty[j])
     \/ UNCHANGED volume
  /\ JobMove(j, "done", jview[j], {})
  /\ UNCHANGED <<apiVars, engines, faults, created, acked>>

-----------------------------------------------------------------------------
(* A web container is killed, or the commit of a handler raises.           *)
ApiCrash(c) ==
  /\ apc[c] # "idle" /\ Fault
  /\ ApiMove(c, "idle", volume, {})
  /\ UNCHANGED <<volume, jobVars, engines, created, acked>>

(* A training container is killed.                                         *)
JobCrash(j) ==
  /\ jpc[j] \notin {"unused", "done", "crashed"}
  /\ JobDies(j)
  /\ UNCHANGED <<apiVars, engines, created, acked>>

-----------------------------------------------------------------------------
ApiStep(c) ==
  \/ CreateVoice(c)   \/ UploadDataset(c) \/ UploadBody(c)      \/ CommitDataset(c)
  \/ SpawnTraining(c) \/ SpawnFails(c)    \/ DeleteVoice(c)     \/ PollVoice(c)
  \/ ApiCommit(c)     \/ ApiCrash(c)      \/ SynthesizeVoice(c) \/ SynthesizeText(c)

JobRuns(j) ==
  \/ JobStart(j)       \/ JobTrains(j)    \/ JobTrainingFails(j) \/ JobSaves(j)
  \/ JobWarmCommit(j)  \/ JobWarmCall(j)  \/ JobReady(j)         \/ JobFailed(j)
  \/ JobFinalCommit(j) \/ JobPostCheck(j) \/ JobPostCommit(j)

Step ==
  \/ \E c \in Api : ApiStep(c)
  \/ \E j \in Jobs : JobRuns(j) \/ JobCrash(j)
  \/ EngineScaledown

(* What the history remembers of a state.                                  *)
Changing(c) == apc[c] \in {"upload_body", "commit_upload", "commit_training", "spawn", "commit_rollback"}
Writing(c)  == apc[c] \notin {"idle", "engine"}
Claiming(c) == apc[c] \in {"commit_training", "spawn", "commit_rollback"}

Overlap == \E c, d \in Api : c # d /\ Changing(c) /\ Writing(d)
Late    == /\ InFlight(volume) \/ acked # "none"
           /\ \E c \in Api : apc[c] \in {"upload_body", "commit_upload"}
Early   == /\ \E c \in Api : Claiming(c)
           /\ \E j \in Jobs : jpc[j] \in {"post_check", "post_commit"}

Crossings == {k \in Kinds : \/ k = "overlap" /\ Overlap
                            \/ k = "late" /\ Late
                            \/ k = "early" /\ Early}

Next ==
  /\ Step
  /\ crossed' = crossed \cup Crossings'
  /\ crossed' \subseteq Races

Spec == Init /\ [][Next]_vars

(* Handlers and runs that started go on; an accepted spawn is scheduled;   *)
(* and a customer waiting for a deletion polls ("the next API read").      *)
Fairness ==
  /\ \A c \in Api :
       /\ WF_serviceVars(UploadBody(c)) /\ WF_serviceVars(ApiCommit(c))
       /\ WF_serviceVars(SynthesizeText(c))
       /\ WF_serviceVars(SpawnTraining(c) \/ SpawnFails(c))
       /\ SF_serviceVars(PollVoice(c))
  /\ \A j \in Jobs : WF_serviceVars(JobRuns(j))

FairSpec == Spec /\ Fairness

-----------------------------------------------------------------------------
(* What the service promises.                                              *)

(* A run owns the voice's files from its spawn to its trailing commit.     *)
Owns(j) == jpc[j] \notin {"unused", "post_check", "post_commit", "done", "crashed"}

(* Whatever resolve_voice_dir lets through has a saved checkpoint: neither *)
(* "warming" nor "ready" is ever visible before, or survives, merged/.     *)
ResolvedHasCheckpoint == Resolves(volume) => volume.merged # NoJob

(* Nothing of the voice is left on the Volume.  A second DELETE that saw   *)
(* the run in flight may leave its (empty) marker behind the run's removal. *)
Erased == [volume EXCEPT !.marker = FALSE] = NoVoice

(* Once the customer was told that the voice is, or will be, deleted, no   *)
(* new request reaches a GPU with it.                                      *)
ServesNoDeleted == \A c \in Api : apc[c] = "idle" /\ apc'[c] = "engine" => acked = "none"

NotServedAfterDelete == [][ServesNoDeleted]_vars

(* No voice is ever trained by two runs at once.                           *)
OneRunAtATime == \A i, j \in Jobs : Owns(i) /\ Owns(j) => i = j

Owned == \/ \E j \in Jobs : Owns(j)
         \/ \E c \in Api : apc[c] \in {"spawn", "commit_rollback"}

(* The voice was left in training with nobody to settle it: by a kill (of  *)
(* a training container api.py:208-212 says so), or by a call that raised  *)
(* outside of any handler: the first reload of a run, its trailing commit, *)
(* the record of its failure, the commit of a rollback.                    *)
Stranded == faults > 0 /\ InFlight(volume) /\ ~ Owned

(* Who is served is served with the checkpoint on the Volume: there is one, *)
(* and a voice is never retrained under a GPU container that cached the    *)
(* old one.                                                                *)
EngineIsCurrent ==
  /\ ResolvedHasCheckpoint
  /\ \A e \in engines : e \in Jobs /\ Exists(volume) => e = volume.merged

(* No warm container is poisoned with UnknownVoiceError while the customer *)
(* still wants the voice (the outage main.py's warm_up commit prevents).   *)
NoPoisonedEngine == Poisoned \in engines => acked # "none"

(* A deletion that was accepted completes, whichever of the run's checks   *)
(* or later reads gets to it, also after a fault that left someone to do it.*)
DeleteCompletes == acked = "requested" ~> Erased \/ Stranded

(* A voice in training is ready, failed or gone in the end.                *)
TrainingSettles == InFlight(volume) ~> ~ InFlight(volume) \/ Stranded

(* The Volume, the containers and the runs together implement the life of  *)
(* a voice: a status never moves against its order, whoever wrote it last. *)
Phase == CASE ~ created                    -> "none"
           [] created /\ Erased            -> "gone"
           [] ~ Erased /\ InFlight(volume) -> "training"
           [] OTHER                        -> Status(volume)

Lifecycle == INSTANCE VoiceLifecycle WITH phase <- Phase, promise <- acked

ImplementsLifecycle == Lifecycle!Spec
=============================================================================
