-------------------------- MODULE OrpheusCloneProofs --------------------------
(***************************************************************************)
(* Theorems about OrpheusClone, for any number of web containers, runs and *)
(* faults and for every request: the types; that one run at a time trains  *)
(* a voice until two changes of it overlap (RunInv); and, until a request  *)
(* crosses what is under way, what is served, what is not, and the life of *)
(* a voice that the service implements (LifeInv).                          *)
(***************************************************************************)
EXTENDS OrpheusClone, TLAPS

-----------------------------------------------------------------------------
(* The store's operations keep a voice a voice.                            *)

(* A commit merges trees of the right type.                                *)
LEMMA CommitType ==
  ASSUME NEW v \in Trees, NEW w \in Trees, NEW d \in SUBSET Files
  PROVE  Commit(v, w, d) \in Trees
BY DEF Commit, Trees

(* Writing a status keeps the manifest well typed.                         *)
LEMMA WriteStatusType ==
  ASSUME NEW v \in Trees, NEW s \in Statuses
  PROVE  /\ WriteStatus(v, s) \in Trees
         /\ Status(WriteStatus(v, s)) = s
BY DEF WriteStatus, Trees, Manifests, Status

(* What the volume holds is well typed after each operation of the store.  *)
LEMMA StoreType ==
  ASSUME NEW v \in Trees, NEW j \in Jobs, NEW b \in BOOLEAN
  PROVE  /\ MarkUploaded(v) \in Trees
         /\ RequestDelete(v) \in Trees
         /\ SaveCheckpoint(v, j) \in Trees
         /\ [v EXCEPT !.clips = b] \in Trees
         /\ [v EXCEPT !.upload = TRUE] \in Trees
         /\ [v EXCEPT !.manifest = Manifest("awaiting_dataset", FALSE)] \in Trees
         /\ FilesOf(v) \in SUBSET Files
         /\ Status(MarkUploaded(v)) = Status(v)
         /\ Status([v EXCEPT !.upload = TRUE]) = Status(v)
         /\ Status([v EXCEPT !.clips = b]) = Status(v)
         /\ Status(SaveCheckpoint(v, j)) = Status(v)
BY DEF MarkUploaded, RequestDelete, SaveCheckpoint, FilesOf, Trees, Manifests, Manifest,
       Statuses, Status, Files

(* The empty tree is a tree, of a voice that is absent.                    *)
LEMMA NoVoiceType == NoVoice \in Trees /\ Status(NoVoice) = "absent"
BY DEF NoVoice, Trees, Manifests, Manifest, Statuses, Status

-----------------------------------------------------------------------------
(* A handler or a run that moves stays in its types.                       *)

ApiType == /\ apc \in [Api -> ApiPcs] /\ aview \in [Api -> Trees]
           /\ adirty \in [Api -> SUBSET Files]
JobType == /\ jpc \in [Jobs -> JobPcs] /\ jview \in [Jobs -> Trees]
           /\ jdirty \in [Jobs -> SUBSET Files]

(* A web container's next step is well typed.                              *)
LEMMA ApiMoveType ==
  ASSUME ApiType, NEW c \in Api, NEW pc \in ApiPcs, NEW view \in Trees,
         NEW dirty \in SUBSET Files, ApiMove(c, pc, view, dirty)
  PROVE  ApiType'
BY DEF ApiType, ApiMove

(* A run's next step is well typed.                                        *)
LEMMA JobMoveType ==
  ASSUME JobType, NEW j \in Jobs, NEW pc \in JobPcs, NEW view \in Trees,
         NEW dirty \in SUBSET Files, JobMove(j, pc, view, dirty)
  PROVE  JobType'
BY DEF JobType, JobMove

(* A run's view after a reload is well typed.                              *)
LEMMA JobReloadType ==
  ASSUME TypeOK, NEW j \in Jobs, NEW view, NEW dirty, JobReload(j, view, dirty)
  PROVE  view \in Trees /\ dirty \in SUBSET Files /\ volume' \in Trees
<1>1. jview[j] \in Trees /\ jdirty[j] \in SUBSET Files /\ volume \in Trees
  BY DEF TypeOK
<1>2. Commit(volume, jview[j], jdirty[j]) \in Trees
  BY <1>1, CommitType
<1>3. QED
  BY <1>1, <1>2 DEF JobReload

(* A run that drops a deleted voice leaves a well-typed view.              *)
LEMMA JobDiscardsType ==
  ASSUME JobType, NEW j \in Jobs, NEW view \in Trees, NEW dirty \in SUBSET Files,
         JobDiscards(j, view, dirty)
  PROVE  JobType'
<1>1. FilesOf(view) \in SUBSET Files
  BY DEF FilesOf
<1>2. QED
  BY <1>1, JobMoveType, NoVoiceType DEF JobDiscards, JobPcs

(* The service starts well typed.                                          *)
LEMMA TypeInit == Init => TypeOK
<1> SUFFICES ASSUME Init PROVE TypeOK
  OBVIOUS
<1>1. 0 \in 0 .. MaxFaults
  BY ParametersAssumption
<1>2. NoVoice \in Trees /\ {} \in SUBSET Files /\ "idle" \in ApiPcs /\ "unused" \in JobPcs
  BY NoVoiceType DEF ApiPcs, JobPcs
<1>3. ApiType /\ JobType
  BY <1>2 DEF Init, ApiType, JobType
<1>4. QED
  BY <1>1, <1>2, <1>3 DEF Init, TypeOK, ApiType, JobType, Kinds

(* Every step of the service keeps the types.                              *)
LEMMA TypeStep == TypeOK /\ [Next]_vars => TypeOK'
<1> SUFFICES ASSUME TypeOK, [Next]_vars PROVE TypeOK'
  OBVIOUS
<1>h. crossed' \subseteq Kinds
  BY ParametersAssumption DEF Next, TypeOK, vars
<1> USE ParametersAssumption
<1>t. /\ ApiType /\ JobType /\ volume \in Trees /\ volume.marker \in BOOLEAN
      /\ engines \subseteq Jobs \cup {Poisoned} /\ faults \in 0 .. MaxFaults
      /\ created \in BOOLEAN /\ acked \in {"none", "requested", "deleted"}
  BY DEF TypeOK, ApiType, JobType, Trees
<1>q. ASSUME ApiType', JobType', volume' \in Trees, engines' \subseteq Jobs \cup {Poisoned},
             faults' \in 0 .. MaxFaults, created' \in BOOLEAN,
             acked' \in {"none", "requested", "deleted"}
      PROVE  TypeOK'
  BY <1>q, <1>h DEF TypeOK, ApiType, JobType
<1>e. ASSUME UNCHANGED apiVars PROVE ApiType'
  BY <1>e, <1>t DEF ApiType, apiVars
<1>f. ASSUME UNCHANGED jobVars PROVE JobType'
  BY <1>f, <1>t DEF JobType, jobVars
<1>s. {"awaiting_dataset", "training", "warming", "ready", "failed"} \subseteq Statuses
  BY DEF Statuses
<1>m. ASSUME Fault PROVE faults' \in 0 .. MaxFaults
  BY <1>m, <1>t DEF Fault
<1>1. ASSUME NEW c \in Api, ApiStep(c) PROVE TypeOK'
  <2> DEFINE Same == UNCHANGED <<engines, faults, created, acked>>
  <2>v. aview[c] \in Trees /\ adirty[c] \in SUBSET Files
    BY <1>t DEF ApiType
  <2>w. ASSUME NEW pc \in ApiPcs, NEW view \in Trees, NEW dirty \in SUBSET Files,
               ApiMove(c, pc, view, dirty)
        PROVE  ApiType'
    BY <2>w, <1>t, ApiMoveType
  <2>d. FilesOf(volume) \in SUBSET Files
    BY DEF FilesOf
  <2>p. ASSUME FinishDeletion(c) PROVE ApiType'
    BY <2>p, <2>w, <2>d, NoVoiceType DEF FinishDeletion, ApiPcs
  <2>1. CASE CreateVoice(c)
    <3>1. [aview[c] EXCEPT !.manifest = Manifest("awaiting_dataset", FALSE)] \in Trees
      BY <2>v DEF Trees, Manifests, Manifest, Statuses
    <3>2. ApiType' /\ volume' \in Trees
      BY <2>1, <2>w, <3>1, <1>t, CommitType DEF CreateVoice, ApiPcs, Files
    <3>3. QED
      BY <2>1, <3>2, <1>t, <1>f, <1>q DEF CreateVoice
  <2>2. CASE UploadDataset(c)
    <3>1. ApiType'
      BY <2>2, <2>w, <2>p, <1>t DEF UploadDataset, ApiPcs
    <3>2. QED
      BY <2>2, <3>1, <1>t, <1>f, <1>q DEF UploadDataset
  <2>3. CASE UploadBody(c)
    <3>1. [MarkUploaded(aview[c]) EXCEPT !.upload = TRUE] \in Trees
      BY <2>v DEF MarkUploaded, Trees, Manifests
    <3>2. ApiType'
      BY <2>3, <3>1, <2>w DEF UploadBody, ApiPcs, Files
    <3>3. QED
      BY <2>3, <3>2, <1>t, <1>f, <1>q DEF UploadBody
  <2>4. CASE CommitDataset(c)
    <3>1. WriteStatus(volume, "training") \in Trees
      BY <1>t, <1>s, WriteStatusType
    <3>2. ApiType'
      BY <2>4, <3>1, <2>w, <2>p DEF CommitDataset, ApiPcs, Files
    <3>3. QED
      BY <2>4, <3>2, <1>t, <1>f, <1>q DEF CommitDataset
  <2>5. CASE SpawnTraining(c)
    <3>1. ApiType' /\ JobType'
      BY <2>5, <1>t DEF SpawnTraining, ApiType, JobType, ApiPcs, JobPcs
    <3>2. QED
      BY <2>5, <3>1, <1>t, <1>q DEF SpawnTraining
  <2>6. CASE SpawnFails(c)
    <3>1. MarkUploaded(WriteStatus(aview[c], "awaiting_dataset")) \in Trees
      BY <2>v DEF WriteStatus, MarkUploaded, Trees, Manifests, Statuses
    <3>2. ApiType'
      BY <2>6, <3>1, <2>w DEF SpawnFails, ApiPcs, Files
    <3>3. QED
      BY <2>6, <3>2, <1>t, <1>f, <1>q DEF SpawnFails
  <2>7. CASE DeleteVoice(c)
    <3>1. RequestDelete(volume) \in Trees
      BY <1>t DEF RequestDelete, Trees
    <3>2. ApiType'
      BY <2>7, <3>1, <2>d, <2>w, NoVoiceType DEF DeleteVoice, ApiPcs, Files
    <3>3. QED
      BY <2>7, <3>2, <1>t, <1>f, <1>q DEF DeleteVoice
  <2>8. CASE PollVoice(c)
    <3>1. ApiType'
      BY <2>8, <2>p, <2>w, <1>t DEF PollVoice, Refuse, ApiPcs
    <3>2. QED
      BY <2>8, <3>1, <1>t, <1>f, <1>q DEF PollVoice
  <2>9. CASE SynthesizeVoice(c)
    <3>1. ApiType'
      BY <2>9, <2>p, <2>w, <1>t DEF SynthesizeVoice, ApiPcs
    <3>2. QED
      BY <2>9, <3>1, <1>t, <1>f, <1>q DEF SynthesizeVoice
  <2>10. CASE ApiCommit(c)
    <3>1. volume' \in Trees
      BY <2>10, <2>v, <1>t, CommitType DEF ApiCommit
    <3>2. ApiType'
      BY <2>10, <2>v, <2>w DEF ApiCommit, ApiPcs
    <3>3. acked' \in {"none", "requested", "deleted"}
      BY <2>10, <1>t DEF ApiCommit
    <3>4. QED
      BY <2>10, <3>1, <3>2, <3>3, <1>t, <1>f, <1>q DEF ApiCommit
  <2>11. CASE ApiCrash(c)
    <3>1. ApiType'
      BY <2>11, <2>w, <1>t DEF ApiCrash, ApiPcs
    <3>2. faults' \in 0 .. MaxFaults
      BY <2>11, <1>m DEF ApiCrash
    <3>3. QED
      BY <2>11, <3>1, <3>2, <1>t, <1>f, <1>q DEF ApiCrash
  <2>12. CASE SynthesizeText(c)
    <3>1. ApiType' /\ engines' \subseteq Jobs \cup {Poisoned}
      BY <2>12, <1>t DEF SynthesizeText, EngineCall, ApiType, ApiPcs
    <3>2. QED
      BY <2>12, <3>1, <1>t, <1>f, <1>q DEF SynthesizeText
  <2>13. QED
    BY <1>1, <2>1, <2>2, <2>3, <2>4, <2>5, <2>6, <2>7, <2>8, <2>9, <2>10, <2>11, <2>12
       DEF ApiStep
<1>2. ASSUME NEW j \in Jobs, JobRuns(j) \/ JobCrash(j) PROVE TypeOK'
  <2>v. jview[j] \in Trees /\ jdirty[j] \in SUBSET Files
    BY <1>t DEF JobType
  <2>w. ASSUME NEW pc \in JobPcs, NEW view \in Trees, NEW dirty \in SUBSET Files,
               JobMove(j, pc, view, dirty)
        PROVE  JobType'
    BY <2>w, <1>t, JobMoveType
  <2>r. ASSUME NEW view, NEW dirty, JobReload(j, view, dirty)
        PROVE  view \in Trees /\ dirty \in SUBSET Files /\ volume' \in Trees
    BY <2>r, JobReloadType
  <2>d. ASSUME NEW view \in Trees, NEW dirty \in SUBSET Files, JobDiscards(j, view, dirty)
        PROVE  JobType'
    BY <2>d, <1>t, JobDiscardsType
  <2>k. ASSUME JobDies(j), UNCHANGED <<apiVars, engines, created, acked>> PROVE TypeOK'
    <3>1. JobType' /\ faults' \in 0 .. MaxFaults
      BY <2>k, <2>w, <1>m, NoVoiceType DEF JobDies, JobPcs
    <3>2. QED
      BY <2>k, <3>1, <1>t, <1>e, <1>q DEF JobDies
  <2>1. CASE JobStart(j)
    <3>1. CASE JobMove(j, "prepare", volume, {}) /\ UNCHANGED <<volume, faults>>
      <4>1. JobType'
        BY <3>1, <2>w, <1>t DEF JobPcs
      <4>2. QED
        BY <2>1, <3>1, <4>1, <1>t, <1>e, <1>q DEF JobStart
    <3>2. QED
      BY <2>1, <3>1, <2>k DEF JobStart
  <2>2. CASE JobTrains(j)
    <3>1. [jview[j] EXCEPT !.clips = TRUE] \in Trees
      BY <2>v DEF Trees
    <3>2. JobType'
      BY <2>2, <3>1, <2>w DEF JobTrains, JobPcs, Files
    <3>3. QED
      BY <2>2, <3>2, <1>t, <1>e, <1>q DEF JobTrains
  <2>3. CASE JobTrainingFails(j)
    <3>1. \A kept \in BOOLEAN : [jview[j] EXCEPT !.clips = kept] \in Trees
      BY <2>v DEF Trees
    <3>2. JobType'
      BY <2>3, <3>1, <2>v, <2>w DEF JobTrainingFails, JobPcs, Files
    <3>3. QED
      BY <2>3, <3>2, <1>t, <1>e, <1>q DEF JobTrainingFails
  <2>4. CASE JobSaves(j)
    <3>1. PICK view \in {jview[j], Commit(volume, jview[j], jdirty[j])}, dirty \in {jdirty[j], {}} :
            /\ JobReload(j, view, dirty)
            /\ IF DeletedMidRun(view)
                 THEN JobDiscards(j, view, dirty)
                 ELSE \/ JobMove(j, "warm_commit", WriteStatus(SaveCheckpoint(view, j), "warming"),
                                 dirty \cup {"merged", "manifest"})
                      \/ JobMove(j, "except", view, dirty)
      BY <2>4 DEF JobSaves
    <3>2. view \in Trees /\ dirty \in SUBSET Files /\ volume' \in Trees
      BY <3>1, <2>r
    <3>3. WriteStatus(SaveCheckpoint(view, j), "warming") \in Trees
      BY <3>2 DEF WriteStatus, SaveCheckpoint, Trees, Manifests, Statuses
    <3>4. dirty \cup {"merged", "manifest"} \in SUBSET Files
      BY <3>2 DEF Files
    <3>5. JobType'
      BY <3>1, <3>2, <3>3, <3>4, <2>w, <2>d DEF JobPcs
    <3>6. QED
      BY <2>4, <3>2, <3>5, <1>t, <1>e, <1>q DEF JobSaves
  <2>5. CASE JobWarmCommit(j)
    <3>1. volume' \in Trees
      BY <2>5, <2>v, <1>t, CommitType DEF JobWarmCommit
    <3>2. JobType'
      BY <2>5, <2>v, <2>w DEF JobWarmCommit, JobPcs
    <3>3. QED
      BY <2>5, <3>1, <3>2, <1>t, <1>e, <1>q DEF JobWarmCommit
  <2>6. CASE JobWarmCall(j)
    <3>1. JobType' /\ engines' \subseteq Jobs \cup {Poisoned}
      BY <2>6, <1>t DEF JobWarmCall, EngineCall, JobType, JobPcs
    <3>2. QED
      BY <2>6, <3>1, <1>t, <1>e, <1>q DEF JobWarmCall
  <2>7. CASE JobReady(j)
    <3>1. PICK view \in {jview[j], Commit(volume, jview[j], jdirty[j])}, dirty \in {jdirty[j], {}} :
            /\ JobReload(j, view, dirty)
            /\ IF DeletedMidRun(view)
                 THEN JobDiscards(j, view, dirty)
                 ELSE JobMove(j, "final_commit", WriteStatus(view, "ready"), dirty \cup {"manifest"})
      BY <2>7 DEF JobReady
    <3>2. view \in Trees /\ dirty \in SUBSET Files /\ volume' \in Trees
      BY <3>1, <2>r
    <3>3. WriteStatus(view, "ready") \in Trees /\ dirty \cup {"manifest"} \in SUBSET Files
      BY <3>2, <1>s, WriteStatusType DEF Files
    <3>4. JobType'
      BY <3>1, <3>2, <3>3, <2>w, <2>d DEF JobPcs
    <3>5. QED
      BY <2>7, <3>2, <3>4, <1>t, <1>e, <1>q DEF JobReady
  <2>8. CASE JobFailed(j)
    <3>1. PICK view \in {jview[j], Commit(volume, jview[j], jdirty[j])}, dirty \in {jdirty[j], {}} :
            /\ JobReload(j, view, dirty)
            /\ \/ /\ UNCHANGED faults
                  /\ IF DeletedMidRun(view)
                       THEN JobDiscards(j, view, dirty)
                       ELSE JobMove(j, "final_commit", WriteStatus(view, "failed"), dirty \cup {"manifest"})
               \/ Fault /\ JobMove(j, "final_commit", view, dirty)
      BY <2>8 DEF JobFailed
    <3>2. view \in Trees /\ dirty \in SUBSET Files /\ volume' \in Trees
      BY <3>1, <2>r
    <3>3. WriteStatus(view, "failed") \in Trees /\ dirty \cup {"manifest"} \in SUBSET Files
      BY <3>2, <1>s, WriteStatusType DEF Files
    <3>4. JobType'
      BY <3>1, <3>2, <3>3, <2>w, <2>d DEF JobPcs
    <3>5. faults' \in 0 .. MaxFaults
      BY <3>1, <1>t, <1>m
    <3>6. QED
      BY <2>8, <3>2, <3>4, <3>5, <1>t, <1>e, <1>q DEF JobFailed
  <2>9. CASE JobFinalCommit(j)
    <3>1. CASE /\ volume' = Commit(volume, jview[j], jdirty[j])
               /\ JobMove(j, "post_check", jview[j], {}) /\ UNCHANGED faults
      <4>1. volume' \in Trees /\ JobType'
        BY <3>1, <2>v, <2>w, <1>t, CommitType DEF JobPcs
      <4>2. QED
        BY <2>9, <3>1, <4>1, <1>t, <1>e, <1>q DEF JobFinalCommit
    <3>2. QED
      BY <2>9, <3>1, <2>k DEF JobFinalCommit
  <2>10. CASE JobPostCheck(j)
    <3>1. JobType'
      BY <2>10, <2>v, <2>w, <1>t, NoVoiceType DEF JobPostCheck, JobPcs, FilesOf
    <3>2. QED
      BY <2>10, <3>1, <1>t, <1>e, <1>q DEF JobPostCheck
  <2>11. CASE JobPostCommit(j)
    <3>1. volume' \in Trees /\ JobType'
      BY <2>11, <2>v, <2>w, <1>t, CommitType DEF JobPostCommit, JobPcs
    <3>2. QED
      BY <2>11, <3>1, <1>t, <1>e, <1>q DEF JobPostCommit
  <2>12. CASE JobCrash(j)
    BY <2>12, <2>k DEF JobCrash
  <2>13. QED
    BY <1>2, <2>1, <2>2, <2>3, <2>4, <2>5, <2>6, <2>7, <2>8, <2>9, <2>10, <2>11, <2>12
       DEF JobRuns
<1>3. CASE EngineScaledown
  BY <1>3, <1>t, <1>e, <1>f, <1>q DEF EngineScaledown
<1>4. CASE UNCHANGED vars
  BY <1>4 DEF vars, serviceVars, TypeOK
<1>5. QED
  BY <1>1, <1>2, <1>3, <1>4 DEF Next, Step

(* Every reachable state of the service is well typed: whatever a stale    *)
(* view writes, the Volume holds a voice the store can read.               *)
THEOREM TypeCorrect == Spec => []TypeOK
BY TypeInit, TypeStep, PTL DEF Spec

-----------------------------------------------------------------------------
(* OneRunAtATime is not inductive: two runs are kept apart by the status   *)
(* on the Volume, which views that were read earlier may still overwrite.  *)
(* RunInv says that while a run owns the voice no status that would let    *)
(* another commit request through is on the Volume, nor in anything that   *)
(* is going to be committed, and that no request is about to spawn.  It    *)
(* holds until a request that changes the voice overlaps another that      *)
(* writes.                                                                 *)

NotCommittable(t) == Status(t) \notin CommittableStatuses

OwnerGuarded(j) ==
  /\ created
  /\ NotCommittable(volume)
  /\ \A c \in Api : ~ Claiming(c)
  /\ \A c \in Api : "manifest" \in adirty[c] \/ apc[c] = "upload_body" => NotCommittable(aview[c])
  /\ jpc[j] \notin {"queued", "final_commit"} /\ "manifest" \in jdirty[j] => NotCommittable(jview[j])

ApiGuarded(c) ==
  /\ apc[c] = "commit_training" => "manifest" \in adirty[c] /\ NotCommittable(aview[c])
  /\ apc[c] = "spawn" => adirty[c] = {} /\ NotCommittable(volume)
  /\ ~ created => apc[c] = "idle"
  /\ ~ Writing(c) => adirty[c] = {}

PostGuarded(j) ==
  jpc[j] = "post_commit" /\ "manifest" \in jdirty[j] => NotCommittable(jview[j])

RunInv ==
  /\ TypeOK
  /\ ~ Overlap
  /\ OneRunAtATime
  /\ \A j \in Jobs : Owns(j) => OwnerGuarded(j)
  /\ \A c \in Api : ApiGuarded(c)
  /\ \A j \in Jobs : PostGuarded(j)

(* Committing a view cannot make a voice that commit_dataset refuses       *)
(* acceptable, unless the view itself is.                                  *)
LEMMA CommitNotCommittable ==
  ASSUME NEW v, NEW w, NEW d
  PROVE  /\ NotCommittable(v) /\ ("manifest" \in d => NotCommittable(w))
              => NotCommittable(Commit(v, w, d))
         /\ NotCommittable(w) /\ "manifest" \in d => NotCommittable(Commit(v, w, d))
BY DEF NotCommittable, Commit, Status

(* A voice that is gone cannot be committed.                               *)
LEMMA NoVoiceNotCommittable == NotCommittable(NoVoice)
BY NoVoiceType DEF NotCommittable, CommittableStatuses

(* At the start no run exists.                                             *)
LEMMA RunInit == Init => RunInv
<1> SUFFICES ASSUME Init PROVE RunInv
  OBVIOUS
<1>1. TypeOK
  BY TypeInit
<1>2. /\ \A j \in Jobs : jpc[j] = "unused"
      /\ \A c \in Api : apc[c] = "idle" /\ adirty[c] = {}
  BY DEF Init
<1>3. QED
  BY <1>1, <1>2 DEF RunInv, OneRunAtATime, Owns, ApiGuarded, PostGuarded, Overlap, Changing

(* A handler's step.                                                       *)
LEMMA RunApiStep ==
  ASSUME RunInv, TypeOK', ~ Overlap', NEW c \in Api, ApiStep(c)
  PROVE  RunInv'
<1> USE DEF RunInv, TypeOK
<1> DEFINE Quiet == jobVars' = jobVars /\ volume' = volume /\ created' = created
<1>v. volume \in Trees /\ aview[c] \in Trees
  OBVIOUS
<1>c. ApiGuarded(c) /\ \A d \in Api : ApiGuarded(d)
  OBVIOUS
<1>o. \A j \in Jobs : Owns(j) => OwnerGuarded(j)
  OBVIOUS
(* Beside a request that changes the voice nobody writes.                  *)
<1>x. /\ Changing(c) => \A d \in Api : d # c => apc[d] \in {"idle", "engine"} /\ adirty[d] = {}
      /\ Writing(c) => \A d \in Api : d # c => ~ Changing(d)
  BY DEF Overlap, ApiGuarded, Writing
<1>q. ASSUME Quiet, NEW pc \in ApiPcs, NEW view, NEW dirty, ApiMove(c, pc, view, dirty), created,
             \A j \in Jobs : Owns(j) =>
               /\ pc \notin {"commit_training", "spawn", "commit_rollback"}
               /\ "manifest" \in dirty \/ pc = "upload_body" => NotCommittable(view),
             pc = "commit_training" => "manifest" \in dirty /\ NotCommittable(view),
             pc # "spawn", pc \in {"idle", "engine"} => dirty = {}
      PROVE  RunInv'
  <2>1. apc'[c] = pc /\ aview'[c] = view /\ adirty'[c] = dirty
    BY <1>q DEF ApiMove
  <2>0. \A d \in Api : d # c => apc'[d] = apc[d] /\ aview'[d] = aview[d] /\ adirty'[d] = adirty[d]
    BY <1>q DEF ApiMove
  <2>2. OneRunAtATime' /\ \A j \in Jobs : Owns(j)' = Owns(j) /\ PostGuarded(j)'
    BY <1>q DEF OneRunAtATime, Owns, PostGuarded, NotCommittable, Status, jobVars
  <2>3. ASSUME NEW j \in Jobs, Owns(j) PROVE OwnerGuarded(j)'
    <3>1. OwnerGuarded(j)
      BY <1>o, <2>3
    <3>2. created' /\ NotCommittable(volume)'
      BY <1>q, <3>1 DEF OwnerGuarded, NotCommittable, Status
    <3>3. /\ apc'[c] \notin {"commit_training", "spawn", "commit_rollback"}
          /\ "manifest" \in adirty'[c] \/ apc'[c] = "upload_body" => NotCommittable(aview'[c])
      BY <1>q, <2>1, <2>3
    <3>4. ASSUME NEW d \in Api
          PROVE  /\ apc'[d] \notin {"commit_training", "spawn", "commit_rollback"}
                 /\ "manifest" \in adirty'[d] \/ apc'[d] = "upload_body" => NotCommittable(aview'[d])
      BY <2>0, <3>1, <3>3 DEF OwnerGuarded, Claiming
    <3>5. jpc'[j] \notin {"queued", "final_commit"} /\ "manifest" \in jdirty'[j]
            => NotCommittable(jview'[j])
      BY <1>q, <3>1 DEF OwnerGuarded, jobVars
    <3>6. QED
      BY <3>2, <3>4, <3>5 DEF OwnerGuarded, Claiming, NotCommittable, Status
  <2>4. ASSUME NEW d \in Api PROVE ApiGuarded(d)'
    <3>1. CASE d = c
      BY <1>q, <2>1, <3>1 DEF ApiGuarded, NotCommittable, Status, Writing
    <3>2. CASE d # c
      BY <1>q, <1>c, <2>0, <3>2 DEF ApiGuarded, NotCommittable, Status, Writing
    <3>3. QED
      BY <3>1, <3>2
  <2>5. QED
    BY <2>2, <2>3, <2>4
<1>p. ASSUME FinishDeletion(c), Quiet, created PROVE RunInv'
  BY <1>p, <1>q, NoVoiceNotCommittable DEF FinishDeletion, ApiPcs
<1>1. CASE CreateVoice(c)
  <2>1. \A j \in Jobs : ~ Owns(j)
    BY <1>1, <1>o DEF CreateVoice, OwnerGuarded
  <2>2. \A d \in Api : apc'[d] = "idle" /\ adirty'[d] = {}
    BY <1>1, <1>c DEF CreateVoice, ApiMove, ApiGuarded, Writing
  <2>3. \A j \in Jobs : ~ Owns(j)' /\ PostGuarded(j)'
    BY <1>1, <2>1 DEF CreateVoice, Owns, PostGuarded, NotCommittable, Status, jobVars
  <2>4. QED
    BY <2>2, <2>3 DEF OneRunAtATime, ApiGuarded
<1>2. CASE UploadDataset(c)
  <2>1. CASE PendingDelete(volume)
    BY <1>2, <2>1, <1>p DEF UploadDataset
  <2>2. CASE ~ PendingDelete(volume)
    <3>1. ApiMove(c, "upload_body", volume, {})
      BY <1>2, <2>2 DEF UploadDataset
    <3>2. \A j \in Jobs : Owns(j) => NotCommittable(volume)
      BY <1>o DEF OwnerGuarded
    <3>3. QED
      BY <1>2, <3>1, <3>2, <1>q DEF UploadDataset, ApiPcs
  <2>3. QED
    BY <2>1, <2>2
<1>3. CASE UploadBody(c)
  <2>1. created
    BY <1>3, <1>c DEF UploadBody, ApiGuarded
  <2>2. \A j \in Jobs : Owns(j) => NotCommittable(aview[c])
    BY <1>3, <1>o DEF UploadBody, OwnerGuarded
  <2>3. Status([MarkUploaded(aview[c]) EXCEPT !.upload = TRUE]) = Status(aview[c])
    BY <1>v DEF MarkUploaded, Status, Trees, Manifests
  <2>4. \A j \in Jobs : Owns(j) => NotCommittable([MarkUploaded(aview[c]) EXCEPT !.upload = TRUE])
    BY <2>2, <2>3 DEF NotCommittable
  <2>5. QED
    BY <1>3, <2>1, <2>4, <1>q DEF UploadBody, ApiPcs
<1>4. CASE CommitDataset(c)
  <2>1. CASE FinishDeletion(c)
    BY <1>4, <2>1, <1>p DEF CommitDataset
  <2>2. CASE /\ Status(volume) \in CommittableStatuses
             /\ ApiMove(c, "commit_training", WriteStatus(volume, "training"), {"manifest"})
    <3>1. \A j \in Jobs : ~ Owns(j)
      BY <2>2, <1>o DEF OwnerGuarded, NotCommittable
    <3>2. NotCommittable(WriteStatus(volume, "training"))
      BY <1>v, WriteStatusType DEF NotCommittable, CommittableStatuses, Statuses
    <3>3. QED
      BY <1>4, <2>2, <3>1, <3>2, <1>q DEF CommitDataset, ApiPcs
  <2>3. QED
    BY <1>4, <2>1, <2>2 DEF CommitDataset
<1>5. CASE SpawnTraining(c)
  <2>1. \A j \in Jobs : ~ Owns(j)
    BY <1>5, <1>o DEF SpawnTraining, OwnerGuarded, Claiming
  <2>2. PICK k \in Jobs : jpc[k] = "unused" /\ jpc' = [jpc EXCEPT ![k] = "queued"]
    BY <1>5 DEF SpawnTraining
  <2>3. created /\ NotCommittable(volume) /\ \A d \in Api : adirty[d] = {}
    BY <1>5, <1>c, <1>x DEF SpawnTraining, ApiGuarded, Changing
  <2>4. \A d \in Api : apc'[d] \in {"idle", "engine"} /\ adirty'[d] = {}
    BY <1>5, <1>x, <2>3 DEF SpawnTraining, Changing
  <2>5. \A j \in Jobs : Owns(j)' => j = k
    BY <2>1, <2>2 DEF Owns
  <2>6. jpc'[k] = "queued"
    BY <2>2
  <2>7. OwnerGuarded(k)'
    BY <1>5, <2>3, <2>4, <2>6 DEF SpawnTraining, OwnerGuarded, Claiming, NotCommittable, Status
  <2>8. \A j \in Jobs : PostGuarded(j)'
    BY <1>5, <2>2 DEF SpawnTraining, PostGuarded, NotCommittable, Status
  <2>9. \A d \in Api : ApiGuarded(d)'
    BY <1>5, <2>3, <2>4 DEF SpawnTraining, ApiGuarded
  <2>10. QED
    BY <2>5, <2>7, <2>8, <2>9 DEF OneRunAtATime
<1>6. CASE SpawnFails(c)
  <2>1. created /\ \A j \in Jobs : ~ Owns(j)
    BY <1>6, <1>c, <1>o DEF SpawnFails, OwnerGuarded, Claiming, ApiGuarded
  <2>2. QED
    BY <1>6, <2>1, <1>q DEF SpawnFails, ApiPcs
<1>7. CASE DeleteVoice(c)
  <2>1. CASE InFlight(volume)
    BY <1>7, <2>1, <1>q DEF DeleteVoice, ApiPcs
  <2>2. CASE ~ InFlight(volume)
    BY <1>7, <2>2, <1>q, NoVoiceNotCommittable DEF DeleteVoice, ApiPcs
  <2>3. QED
    BY <2>1, <2>2
<1>8. CASE PollVoice(c)
  <2>1. CASE FinishDeletion(c)
    BY <1>8, <2>1, <1>p DEF PollVoice
  <2>2. CASE Refuse(c)
    BY <1>8, <2>2, <1>q DEF PollVoice, Refuse, ApiPcs
  <2>3. QED
    BY <1>8, <2>1, <2>2 DEF PollVoice
<1>9. CASE SynthesizeVoice(c)
  <2>1. CASE FinishDeletion(c)
    BY <1>9, <2>1, <1>p DEF SynthesizeVoice
  <2>2. CASE ApiMove(c, "engine", volume, {})
    BY <1>9, <2>2, <1>q DEF SynthesizeVoice, ApiPcs
  <2>3. QED
    BY <1>9, <2>1, <2>2 DEF SynthesizeVoice
<1>10. CASE ApiCommit(c)
  <2> DEFINE next == IF apc[c] = "commit_training" THEN "spawn" ELSE "idle"
  <2>1. apc'[c] = next /\ adirty'[c] = {} /\ volume' = Commit(volume, aview[c], adirty[c])
    BY <1>10 DEF ApiCommit, ApiMove
  <2>0. \A d \in Api : d # c => /\ apc'[d] = apc[d] /\ aview'[d] = aview[d] /\ adirty'[d] = adirty[d]
                               /\ ~ Changing(d)
    BY <1>10, <1>x DEF ApiCommit, ApiMove, Writing
  <2>2. created
    BY <1>10, <1>c DEF ApiCommit, ApiGuarded
  <2>3. \A j \in Jobs : Owns(j)' = Owns(j) /\ PostGuarded(j)'
    BY <1>10 DEF ApiCommit, Owns, PostGuarded, NotCommittable, Status, jobVars
  <2>4. ASSUME NEW j \in Jobs, Owns(j) PROVE OwnerGuarded(j)'
    <3>1. OwnerGuarded(j) /\ next = "idle"
      BY <2>4, <1>o DEF OwnerGuarded, Claiming
    <3>2. NotCommittable(volume')
      BY <2>1, <3>1, CommitNotCommittable DEF OwnerGuarded
    <3>3. NotCommittable(volume)' /\ created' = created /\ jobVars' = jobVars
      BY <1>10, <3>2 DEF ApiCommit, NotCommittable, Status
    <3>4. jpc'[j] \notin {"queued", "final_commit"} /\ "manifest" \in jdirty'[j]
            => NotCommittable(jview[j])'
      BY <3>1, <3>3 DEF OwnerGuarded, NotCommittable, Status, jobVars
    <3>5. ASSUME NEW d \in Api
          PROVE  /\ apc'[d] \notin {"commit_training", "spawn", "commit_rollback"}
                 /\ "manifest" \in adirty'[d] \/ apc'[d] = "upload_body" => NotCommittable(aview'[d])
      BY <2>0, <2>1, <3>1 DEF OwnerGuarded, Claiming
    <3>6. QED
      BY <2>2, <3>3, <3>4, <3>5 DEF OwnerGuarded, Claiming, NotCommittable, Status
  <2>5. ASSUME NEW d \in Api PROVE ApiGuarded(d)'
    <3>1. apc[c] = "commit_training" => NotCommittable(volume')
      BY <1>c, <2>1, CommitNotCommittable DEF ApiGuarded
    <3>2. CASE d = c
      BY <1>10, <2>1, <2>2, <3>1, <3>2 DEF ApiCommit, ApiGuarded, NotCommittable, Status
    <3>3. CASE d # c
      BY <1>10, <1>c, <2>0, <2>2, <3>3
         DEF ApiCommit, ApiGuarded, NotCommittable, Status, Changing, Writing
    <3>4. QED
      BY <3>2, <3>3
  <2>6. QED
    BY <2>3, <2>4, <2>5 DEF OneRunAtATime
<1>11. CASE ApiCrash(c)
  <2>1. created
    BY <1>11, <1>c DEF ApiCrash, ApiGuarded
  <2>2. QED
    BY <1>11, <2>1, <1>q DEF ApiCrash, ApiPcs
<1>12. CASE SynthesizeText(c)
  <2>1. ApiMove(c, "idle", aview[c], adirty[c])
    BY <1>12 DEF SynthesizeText, ApiMove
  <2>2. created /\ adirty[c] = {}
    BY <1>12, <1>c DEF SynthesizeText, ApiGuarded, Writing
  <2>3. QED
    BY <1>12, <2>1, <2>2, <1>q DEF SynthesizeText, ApiPcs
<1>13. QED
  BY <1>1, <1>2, <1>3, <1>4, <1>5, <1>6, <1>7, <1>8, <1>9, <1>10, <1>11, <1>12 DEF ApiStep

(* What a run's reload shows it while it owns the voice, and leaves on the *)
(* Volume: nothing committable, as nothing committable was anywhere.       *)
LEMMA OwnerReload ==
  ASSUME NEW j \in Jobs, OwnerGuarded(j), jpc[j] \notin {"queued", "final_commit"},
         NEW view, NEW dirty, dirty \in {jdirty[j], {}}, JobReload(j, view, dirty)
  PROVE  /\ NotCommittable(volume')
         /\ "manifest" \in dirty => NotCommittable(view)
<1>1. NotCommittable(volume) /\ ("manifest" \in jdirty[j] => NotCommittable(jview[j]))
  BY DEF OwnerGuarded
<1>2. NotCommittable(Commit(volume, jview[j], jdirty[j]))
  BY <1>1, CommitNotCommittable
<1>3. QED
  BY <1>1, <1>2 DEF JobReload

(* A run's step.                                                           *)
LEMMA RunJobStep ==
  ASSUME RunInv, TypeOK', ~ Overlap', NEW j \in Jobs, JobRuns(j) \/ JobCrash(j)
  PROVE  RunInv'
<1> USE DEF RunInv, TypeOK
<1>o. \A i \in Jobs : Owns(i) => OwnerGuarded(i)
  OBVIOUS
<1>v. volume \in Trees /\ jview[j] \in Trees
  OBVIOUS
(* The step of a run that owns the voice, and goes on owning it or not.    *)
<1>q. ASSUME Owns(j), NEW pc \in JobPcs, NEW view, NEW dirty, JobMove(j, pc, view, dirty),
             pc \notin {"unused", "post_commit"}, UNCHANGED apiVars, created' = created,
             Owns(j)' => NotCommittable(volume'),
             pc \notin {"queued", "final_commit", "post_check", "done", "crashed"}
               => ("manifest" \in dirty => NotCommittable(view))
      PROVE  RunInv'
  <2>1. jpc'[j] = pc /\ jview'[j] = view /\ jdirty'[j] = dirty
    BY <1>q DEF JobMove
  <2>2. \A i \in Jobs \ {j} : jpc'[i] = jpc[i] /\ jview'[i] = jview[i] /\ jdirty'[i] = jdirty[i]
    BY <1>q DEF JobMove
  <2>3. OwnerGuarded(j)
    BY <1>q, <1>o
  <2>4. \A i \in Jobs : Owns(i)' => i = j
    BY <1>q, <2>2 DEF OneRunAtATime, Owns
  <2>5. Owns(j)' => OwnerGuarded(j)'
    BY <1>q, <2>1, <2>3 DEF OwnerGuarded, Owns, Claiming, NotCommittable, Status, apiVars
  <2>6. ASSUME NEW c \in Api PROVE ApiGuarded(c)'
    <3>1. ApiGuarded(c) /\ apc'[c] = apc[c] /\ aview'[c] = aview[c] /\ adirty'[c] = adirty[c]
      BY <1>q DEF apiVars
    <3>2. apc[c] \notin {"commit_training", "spawn"} /\ created
      BY <2>3 DEF OwnerGuarded, Claiming
    <3>3. QED
      BY ONLY <1>q, <3>1, <3>2 DEF ApiGuarded, Writing
  <2>7. \A i \in Jobs : PostGuarded(i)'
    BY <1>q, <2>1, <2>2 DEF PostGuarded, NotCommittable, Status
  <2>8. QED
    BY <2>4, <2>5, <2>6, <2>7 DEF OneRunAtATime
(* The step of a run that no longer does.                                  *)
<1>p. ASSUME ~ Owns(j), ~ Owns(j)', NEW pc, NEW view, NEW dirty, JobMove(j, pc, view, dirty),
             UNCHANGED apiVars, created' = created,
             NotCommittable(volume) => NotCommittable(volume'),
             pc = "post_commit" /\ "manifest" \in dirty => NotCommittable(view)
      PROVE  RunInv'
  <2>1. jpc'[j] = pc /\ jview'[j] = view /\ jdirty'[j] = dirty
    BY <1>p DEF JobMove
  <2>2. \A i \in Jobs \ {j} : jpc'[i] = jpc[i] /\ jview'[i] = jview[i] /\ jdirty'[i] = jdirty[i]
    BY <1>p DEF JobMove
  <2>3. \A i \in Jobs : Owns(i)' = Owns(i)
    BY <1>p, <2>2 DEF Owns
  <2>4. ASSUME NEW i \in Jobs, Owns(i) PROVE OwnerGuarded(i)'
    <3>1. OwnerGuarded(i) /\ i # j
      BY <1>o, <1>p, <2>4
    <3>2. QED
      BY <1>p, <2>2, <3>1 DEF OwnerGuarded, Claiming, NotCommittable, Status, apiVars
  <2>5. ASSUME NEW c \in Api PROVE ApiGuarded(c)'
    <3>1. ApiGuarded(c) /\ apc'[c] = apc[c] /\ aview'[c] = aview[c] /\ adirty'[c] = adirty[c]
      BY <1>p DEF apiVars
    <3>2. NotCommittable(volume) => NotCommittable(volume)'
      BY <1>p DEF NotCommittable, Status
    <3>3. NotCommittable(aview[c]) => NotCommittable(aview[c])'
      BY <3>1 DEF NotCommittable, Status
    <3>4. QED
      BY ONLY <1>p, <3>1, <3>2, <3>3 DEF ApiGuarded, Writing
  <2>6. \A i \in Jobs : PostGuarded(i)'
    BY <1>p, <2>1, <2>2 DEF PostGuarded, NotCommittable, Status
  <2>7. QED
    BY <2>3, <2>4, <2>5, <2>6 DEF OneRunAtATime
<1>r. ASSUME Owns(j), jpc[j] \notin {"queued", "final_commit"}, NEW view, NEW dirty,
             dirty \in {jdirty[j], {}}, JobReload(j, view, dirty)
      PROVE  /\ NotCommittable(volume')
             /\ "manifest" \in dirty => NotCommittable(view)
  BY <1>r, <1>o, OwnerReload
<1>k. ASSUME JobCrash(j) PROVE RunInv'
  <2>1. JobMove(j, "crashed", NoVoice, {}) /\ UNCHANGED apiVars /\ created' = created
        /\ volume' = volume
    BY <1>k DEF JobCrash, JobDies
  <2>2. ~ Owns(j)'
    BY <2>1 DEF JobMove, Owns
  <2>3. CASE Owns(j)
    BY <2>1, <2>2, <2>3, <1>q DEF JobPcs
  <2>4. CASE ~ Owns(j)
    BY <2>1, <2>2, <2>4, <1>p
  <2>5. QED
    BY <2>3, <2>4
<1>1. CASE JobStart(j)
  <2>1. CASE JobDies(j)
    BY <1>1, <2>1, <1>k DEF JobStart, JobCrash
  <2>2. CASE JobMove(j, "prepare", volume, {}) /\ UNCHANGED <<volume, faults>>
    <3>1. Owns(j) /\ NotCommittable(volume')
      BY <1>1, <2>2, <1>o DEF JobStart, Owns, OwnerGuarded, NotCommittable, Status
    <3>2. QED
      BY <1>1, <2>2, <3>1, <1>q DEF JobStart, JobPcs
  <2>3. QED
    BY <1>1, <2>1, <2>2 DEF JobStart
<1>2. CASE JobTrains(j)
  <2>1. Owns(j) /\ NotCommittable(volume')
    BY <1>2, <1>o DEF JobTrains, Owns, OwnerGuarded, NotCommittable, Status
  <2>2. QED
    BY <1>2, <2>1, <1>q DEF JobTrains, JobPcs
<1>3. CASE JobTrainingFails(j)
  <2>1. Owns(j) /\ NotCommittable(volume')
    BY <1>3, <1>o DEF JobTrainingFails, Owns, OwnerGuarded, NotCommittable, Status
  <2>2. PICK view, dirty : "manifest" \notin dirty /\ JobMove(j, "except", view, dirty)
    BY <1>3 DEF JobTrainingFails
  <2>3. QED
    BY <1>3, <2>1, <2>2, <1>q DEF JobTrainingFails, JobPcs
<1>4. CASE JobSaves(j)
  <2>1. PICK view \in {jview[j], Commit(volume, jview[j], jdirty[j])}, dirty \in {jdirty[j], {}} :
          /\ JobReload(j, view, dirty)
          /\ IF DeletedMidRun(view)
               THEN JobDiscards(j, view, dirty)
               ELSE \/ JobMove(j, "warm_commit", WriteStatus(SaveCheckpoint(view, j), "warming"),
                               dirty \cup {"merged", "manifest"})
                    \/ JobMove(j, "except", view, dirty)
    BY <1>4 DEF JobSaves
  <2>2. Owns(j) /\ jpc[j] \notin {"queued", "final_commit"}
    BY <1>4 DEF JobSaves, Owns
  <2>3. NotCommittable(volume') /\ ("manifest" \in dirty => NotCommittable(view))
    BY <2>1, <2>2, <1>r
  <2>4. UNCHANGED apiVars /\ created' = created
    BY <1>4 DEF JobSaves
  <2>5. CASE JobDiscards(j, view, dirty)
    BY <2>2, <2>3, <2>4, <2>5, <1>q DEF JobDiscards, JobPcs
  <2>6. CASE JobMove(j, "warm_commit", WriteStatus(SaveCheckpoint(view, j), "warming"),
                     dirty \cup {"merged", "manifest"})
    <3>1. view \in Trees
      BY <2>1, JobReloadType
    <3>2. NotCommittable(WriteStatus(SaveCheckpoint(view, j), "warming"))
      BY <3>1 DEF NotCommittable, WriteStatus, SaveCheckpoint, Status, CommittableStatuses,
                  Trees, Manifests
    <3>3. QED
      BY <2>2, <2>3, <2>4, <2>6, <3>2, <1>q DEF JobPcs
  <2>7. CASE JobMove(j, "except", view, dirty)
    BY <2>2, <2>3, <2>4, <2>7, <1>q DEF JobPcs
  <2>8. QED
    BY <2>1, <2>5, <2>6, <2>7
<1>5. CASE JobWarmCommit(j)
  <2>1. Owns(j) /\ OwnerGuarded(j)
    BY <1>5, <1>o DEF JobWarmCommit, Owns
  <2>2. NotCommittable(volume) /\ ("manifest" \in jdirty[j] => NotCommittable(jview[j]))
    BY <1>5, <2>1 DEF JobWarmCommit, OwnerGuarded
  <2>3. NotCommittable(Commit(volume, jview[j], jdirty[j]))
    BY <2>2, CommitNotCommittable
  <2>4. CASE JobMove(j, "warm_call", jview[j], {})
    <3>1. NotCommittable(volume')
      BY <1>5, <2>2, <2>3 DEF JobWarmCommit
    <3>2. QED
      BY <1>5, <2>1, <2>4, <3>1, <1>q DEF JobWarmCommit, JobPcs
  <2>5. CASE JobMove(j, "warmed", jview[j], jdirty[j])
    <3>1. NotCommittable(volume')
      BY <1>5, <2>2, <2>3 DEF JobWarmCommit
    <3>2. QED
      BY <1>5, <2>1, <2>2, <2>5, <3>1, <1>q DEF JobWarmCommit, JobPcs
  <2>6. QED
    BY <1>5, <2>4, <2>5 DEF JobWarmCommit
<1>6. CASE JobWarmCall(j)
  <2>1. Owns(j) /\ NotCommittable(volume')
    BY <1>6, <1>o DEF JobWarmCall, Owns, OwnerGuarded, NotCommittable, Status
  <2>2. "manifest" \in jdirty[j] => NotCommittable(jview[j])
    BY <1>6, <2>1, <1>o DEF JobWarmCall, OwnerGuarded
  <2>3. JobMove(j, "warmed", jview[j], jdirty[j])
    BY <1>6 DEF JobWarmCall, JobMove
  <2>4. QED
    BY <1>6, <2>1, <2>2, <2>3, <1>q DEF JobWarmCall, JobPcs
<1>7. CASE JobReady(j)
  <2>1. PICK view \in {jview[j], Commit(volume, jview[j], jdirty[j])}, dirty \in {jdirty[j], {}} :
          /\ JobReload(j, view, dirty)
          /\ IF DeletedMidRun(view)
               THEN JobDiscards(j, view, dirty)
               ELSE JobMove(j, "final_commit", WriteStatus(view, "ready"), dirty \cup {"manifest"})
    BY <1>7 DEF JobReady
  <2>2. Owns(j) /\ jpc[j] \notin {"queued", "final_commit"}
    BY <1>7 DEF JobReady, Owns
  <2>3. NotCommittable(volume')
    BY <2>1, <2>2, <1>r
  <2>4. PICK v, d : JobMove(j, "final_commit", v, d)
    BY <2>1 DEF JobDiscards
  <2>5. QED
    BY <1>7, <2>2, <2>3, <2>4, <1>q DEF JobReady, JobPcs
<1>8. CASE JobFailed(j)
  <2>1. PICK view \in {jview[j], Commit(volume, jview[j], jdirty[j])}, dirty \in {jdirty[j], {}} :
          /\ JobReload(j, view, dirty)
          /\ \/ /\ UNCHANGED faults
                /\ IF DeletedMidRun(view)
                     THEN JobDiscards(j, view, dirty)
                     ELSE JobMove(j, "final_commit", WriteStatus(view, "failed"), dirty \cup {"manifest"})
             \/ Fault /\ JobMove(j, "final_commit", view, dirty)
    BY <1>8 DEF JobFailed
  <2>2. Owns(j) /\ jpc[j] \notin {"queued", "final_commit"}
    BY <1>8 DEF JobFailed, Owns
  <2>3. NotCommittable(volume')
    BY <2>1, <2>2, <1>r
  <2>4. PICK v, d : JobMove(j, "final_commit", v, d)
    BY <2>1 DEF JobDiscards
  <2>5. QED
    BY <1>8, <2>2, <2>3, <2>4, <1>q DEF JobFailed, JobPcs
<1>9. CASE JobFinalCommit(j)
  <2>1. CASE JobDies(j)
    BY <1>9, <2>1, <1>k DEF JobFinalCommit, JobCrash
  <2>2. CASE JobMove(j, "post_check", jview[j], {})
    <3>1. Owns(j) /\ ~ Owns(j)'
      BY <1>9, <2>2 DEF JobFinalCommit, JobMove, Owns
    <3>2. QED
      BY <1>9, <2>2, <3>1, <1>q DEF JobFinalCommit, JobPcs
  <2>3. QED
    BY <1>9, <2>1, <2>2 DEF JobFinalCommit
<1>10. CASE JobPostCheck(j)
  <2>1. PICK pc, view, dirty :
          /\ pc \in {"post_commit", "done"}
          /\ JobMove(j, pc, view, dirty)
          /\ pc = "post_commit" => view = NoVoice
    BY <1>10 DEF JobPostCheck
  <2>2. ~ Owns(j) /\ ~ Owns(j)'
    BY <1>10, <2>1 DEF JobPostCheck, JobMove, Owns
  <2>3. QED
    BY <1>10, <2>1, <2>2, <1>p, NoVoiceNotCommittable DEF JobPostCheck
<1>11. CASE JobPostCommit(j)
  <2>1. ~ Owns(j) /\ ~ Owns(j)' /\ JobMove(j, "done", jview[j], {})
    BY <1>11 DEF JobPostCommit, JobMove, Owns
  <2>2. "manifest" \in jdirty[j] => NotCommittable(jview[j])
    BY <1>11 DEF JobPostCommit, PostGuarded
  <2>3. NotCommittable(volume) => NotCommittable(volume')
    BY <1>11, <2>2, CommitNotCommittable DEF JobPostCommit
  <2>4. QED
    BY <1>11, <2>1, <2>3, <1>p DEF JobPostCommit
<1>12. CASE JobCrash(j)
  BY <1>12, <1>k
<1>13. QED
  BY <1>1, <1>2, <1>3, <1>4, <1>5, <1>6, <1>7, <1>8, <1>9, <1>10, <1>11, <1>12 DEF JobRuns

(* The history remembers what a state crosses.                             *)
Calm == ~ Overlap /\ ~ Late /\ ~ Early

LEMMA Remembered ==
  ASSUME TypeOK, [Next]_vars
  PROVE  /\ crossed \subseteq crossed'
         /\ "overlap" \notin crossed' => "overlap" \notin crossed /\ (Overlap' => Overlap)
         /\ crossed' = {} => crossed = {} /\ (Calm => Calm')
<1>1. CASE UNCHANGED vars
  <2>1. apc' = apc /\ crossed' = crossed
    BY <1>1 DEF vars, serviceVars
  <2>2. Overlap' => Overlap
    BY <2>1 DEF Overlap, Changing, Writing
  <2>3. Calm => Calm'
    <3>1. UNCHANGED <<volume, acked, jpc>>
      BY <1>1 DEF vars, serviceVars
    <3>2. Late' => Late
      BY <2>1, <3>1 DEF Late
    <3>3. Early' => Early
      BY <2>1, <3>1 DEF Early, Claiming
    <3>4. QED
      BY <2>2, <3>2, <3>3 DEF Calm
  <2>4. QED
    BY ONLY <1>1, <2>1, <2>2, <2>3
<1>2. CASE Next
  <2>1. crossed' = crossed \cup Crossings'
    BY <1>2 DEF Next
  <2>2. /\ Overlap' => "overlap" \in Crossings'
        /\ Late' => "late" \in Crossings'
        /\ Early' => "early" \in Crossings'
    BY DEF Crossings, Kinds
  <2>3. Crossings' = {} => Calm'
    BY <2>2 DEF Calm
  <2>4. QED
    BY <2>1, <2>2, <2>3
<1>3. QED
  BY <1>1, <1>2

(* Every step keeps the invariant of the runs, one step per action.        *)
LEMMA RunStep ==
  ASSUME RunInv, [Next]_vars, "overlap" \notin crossed'
  PROVE  RunInv'
<1>t. TypeOK' /\ ~ Overlap'
  BY TypeStep, Remembered DEF RunInv
<1>1. ASSUME NEW c \in Api, ApiStep(c) PROVE RunInv'
  BY <1>1, <1>t, RunApiStep
<1>2. ASSUME NEW j \in Jobs, JobRuns(j) \/ JobCrash(j) PROVE RunInv'
  BY <1>2, <1>t, RunJobStep
<1>3. CASE EngineScaledown \/ UNCHANGED vars
  <2>1. UNCHANGED <<volume, apiVars, jobVars, created>>
    BY <1>3 DEF EngineScaledown, vars, serviceVars, apiVars, jobVars
  <2>2. QED
    BY <1>t, <2>1 DEF RunInv, OneRunAtATime, Owns, OwnerGuarded, Claiming, NotCommittable,
                      Status, ApiGuarded, PostGuarded, Writing, apiVars, jobVars
<1>4. QED
  BY <1>1, <1>2, <1>3 DEF Next, Step

(* Until a request that changes the voice overlaps one that writes, which  *)
(* takes two web containers, no voice is trained by two runs at once:      *)
(* however many runs are spawned, killed or fail, and whatever the         *)
(* customer uploads or retries in the meantime.                            *)
THEOREM SingleRun == Spec => []("overlap" \notin crossed => OneRunAtATime)
<1> DEFINE Inv == TypeOK /\ ("overlap" \notin crossed => RunInv)
<1>1. Init => Inv
  BY RunInit DEF RunInv
<1>2. Inv /\ [Next]_vars => Inv'
  <2> SUFFICES ASSUME Inv, [Next]_vars PROVE Inv'
    OBVIOUS
  <2>1. TypeOK' /\ ("overlap" \notin crossed' => "overlap" \notin crossed)
    BY TypeStep, Remembered
  <2>2. "overlap" \notin crossed' => RunInv'
    BY <2>1, RunStep
  <2>3. QED
    BY <2>1, <2>2
<1>3. Inv => ("overlap" \notin crossed => OneRunAtATime)
  BY DEF RunInv
<1>4. QED
  BY <1>1, <1>2, <1>3, PTL DEF Spec

-----------------------------------------------------------------------------
(* As long as no request crosses what is under way at most one run is      *)
(* active, and whoever works on the voice has a view that differs from the *)
(* Volume in what it is about to commit only, and in the marker, which a   *)
(* DELETE may set beside it.                                               *)

Active(j) == jpc[j] \notin {"unused", "done", "crashed"}
OneActive == \A i, j \in Jobs : Active(i) /\ Active(j) => i = j

Sync(v, t, d) ==
  /\ "manifest" \in d \/ v.manifest = t.manifest
  /\ "upload" \in d \/ v.upload = t.upload
  /\ "clips" \in d \/ v.clips = t.clips
  /\ "merged" \in d \/ v.merged = t.merged

Gone(v) == [v EXCEPT !.marker = FALSE] = NoVoice
HasCheckpoint(v) == Status(v) \in {"warming", "ready"}

(* The volume v of a voice whose owner was told a.                         *)
VolumeOK(v, a) ==
  /\ ~ Exists(v) => Gone(v)
  /\ HasCheckpoint(v) <=> v.merged # NoJob
  /\ v.marker => a # "none"
  /\ a # "none" => v.marker \/ ~ Exists(v)
  /\ a = "deleted" => ~ Exists(v)

EnginesOK(v, a, up) ==
  /\ \A e \in up : e \in Jobs /\ Exists(v) => e = v.merged
  /\ Poisoned \in up => a # "none"

(* A request that is at pc, with view t and uncommitted files d.           *)
ApiOK(pc, v, t, d, a) ==
  /\ pc = "upload_body" => d = {} /\ Sync(v, t, d)
  /\ pc = "commit_upload" => d = {"upload", "manifest"} /\ Sync(v, t, d) /\ Status(t) = Status(v)
  /\ pc \in {"upload_body", "commit_upload"} => a = "none" /\ Exists(v) /\ ~ InFlight(v)
  /\ pc = "commit_training" =>
       /\ d = {"manifest"} /\ Status(t) = "training" /\ Status(v) \in CommittableStatuses
       /\ a = "none"
  /\ pc \in {"spawn", "commit_rollback"} => Status(v) = "training" /\ a = "none"
  /\ pc = "commit_rollback" => d = {"manifest"} /\ Status(t) = "awaiting_dataset"
  /\ pc \in {"commit_delete", "commit_pending"} => t = NoVoice /\ Sync(v, t, d) /\ ~ InFlight(v)
  /\ pc = "commit_pending" => a # "none"
  /\ pc = "commit_marker" => d = {"marker"} /\ t.marker /\ Status(v) # "awaiting_dataset"
  /\ pc = "engine" /\ a = "none" => Resolves(v)

(* Run j, which owns the voice.                                            *)
OwnerOK(j, pc, v, t, d, a) ==
  /\ InFlight(v) /\ v.merged \in {NoJob, j}
  /\ pc # "queued" => Sync(v, t, d) /\ (t.marker => a # "none")
  /\ pc \in {"queued", "prepare", "trained", "except"} => Status(v) = "training"
  /\ pc \in {"prepare", "trained", "except"} =>
       Status(t) = "training" /\ t.merged = NoJob /\ d \subseteq {"clips"}
  /\ pc \in {"warm_commit", "warm_call", "warmed"} =>
       /\ Status(t) = "warming" /\ t.merged = j /\ "marker" \notin d
       /\ "manifest" \in d <=> "merged" \in d
  /\ pc \in {"prepare", "warm_call"} => d = {}
  /\ pc = "final_commit" =>
       /\ "manifest" \in d \/ Status(t) = "training"
       /\ \/ t = NoVoice /\ a # "none"
          \/ Status(t) = "ready" /\ t.merged = j /\ "marker" \notin d
          \/ Status(t) = "failed" /\ t.merged = NoJob /\ v.merged = NoJob /\ "marker" \notin d
          \/ Status(t) = "training" /\ t.merged = NoJob /\ d \subseteq {"clips"}

PostOK(pc, v, t, d, a) == pc = "post_commit" => t = NoVoice /\ Sync(v, t, d) /\ a # "none"

Untouched == /\ volume = NoVoice /\ acked = "none" /\ engines = {}
             /\ \A c \in Api : apc[c] = "idle" /\ aview[c] = NoVoice
             /\ \A j \in Jobs : jpc[j] = "unused"

LifeInv ==
  /\ TypeOK /\ Calm /\ OneActive
  /\ ~ created => Untouched
  /\ created => VolumeOK(volume, acked) /\ EnginesOK(volume, acked, engines)
  /\ \A c \in Api : ApiOK(apc[c], volume, aview[c], adirty[c], acked)
  /\ \A j \in Jobs : Owns(j) => /\ OwnerOK(j, jpc[j], volume, jview[j], jdirty[j], acked)
                                /\ \A c \in Api : apc[c] \in {"idle", "commit_marker", "engine"}
  /\ \A j \in Jobs : PostOK(jpc[j], volume, jview[j], jdirty[j], acked)
  /\ \A j \in Jobs, c \in Api :
       Active(j) => apc[c] \notin {"commit_training", "spawn", "commit_rollback"}

(* What a commit makes of the Volume, file by file.                        *)
LEMMA CommitFields ==
  ASSUME NEW v \in Trees, NEW t \in Trees, NEW d \in SUBSET Files
  PROVE  LET w == Commit(v, t, d) IN
         /\ w \in Trees
         /\ w.manifest = IF "manifest" \in d THEN t.manifest ELSE v.manifest
         /\ w.upload = IF "upload" \in d THEN t.upload ELSE v.upload
         /\ w.clips = IF "clips" \in d THEN t.clips ELSE v.clips
         /\ w.merged = IF "merged" \in d THEN t.merged ELSE v.merged
         /\ w.marker = IF "marker" \in d THEN t.marker ELSE v.marker
<1>1. Commit(v, t, d) \in Trees
  BY CommitType
<1> QED BY <1>1 DEF Commit

(* A view in step with the Volume is what the Volume becomes by its commit,*)
(* but for the marker.                                                     *)
LEMMA SyncedCommit ==
  ASSUME NEW v \in Trees, NEW t \in Trees, NEW d \in SUBSET Files, Sync(v, t, d)
  PROVE  LET w == Commit(v, t, d) IN
         /\ w \in Trees
         /\ w.manifest = t.manifest /\ w.upload = t.upload /\ w.clips = t.clips
         /\ w.merged = t.merged
         /\ w.marker = IF "marker" \in d THEN t.marker ELSE v.marker
         /\ Status(w) = Status(t) /\ Sync(w, t, {}) /\ Sync(w, w, {}) /\ Sync(v, w, d)
<1> DEFINE w == Commit(v, t, d)
<1>1. /\ w \in Trees
      /\ w.manifest = IF "manifest" \in d THEN t.manifest ELSE v.manifest
      /\ w.upload = IF "upload" \in d THEN t.upload ELSE v.upload
      /\ w.clips = IF "clips" \in d THEN t.clips ELSE v.clips
      /\ w.merged = IF "merged" \in d THEN t.merged ELSE v.merged
      /\ w.marker = IF "marker" \in d THEN t.marker ELSE v.marker
  BY CommitFields
<1> HIDE DEF w
<1>2. /\ w.manifest = t.manifest /\ w.upload = t.upload /\ w.clips = t.clips
      /\ w.merged = t.merged
  BY <1>1 DEF Sync
<1>3. Status(w) = Status(t) /\ Sync(w, t, {}) /\ Sync(w, w, {}) /\ Sync(v, w, d)
  BY <1>2 DEF Sync, Status
<1> QED BY <1>1, <1>2, <1>3 DEF w

(* A tree is nothing but its marker exactly if its files are those of no   *)
(* voice.                                                                  *)
LEMMA GoneFields ==
  ASSUME NEW v \in Trees
  PROVE  Gone(v) <=> /\ v.manifest = NoVoice.manifest /\ v.upload = NoVoice.upload
                     /\ v.clips = NoVoice.clips /\ v.merged = NoVoice.merged
<1> DEFINE w == [v EXCEPT !.marker = FALSE]
<1>1. /\ w \in Trees /\ w.manifest = v.manifest /\ w.upload = v.upload /\ w.clips = v.clips
      /\ w.merged = v.merged /\ w.marker = FALSE
  BY DEF Trees
<1>2. NoVoice \in Trees /\ NoVoice.marker = FALSE
  BY NoVoiceType DEF NoVoice
<1> HIDE DEF w
<1>3. w = NoVoice <=> /\ w.manifest = NoVoice.manifest /\ w.upload = NoVoice.upload
                      /\ w.clips = NoVoice.clips /\ w.merged = NoVoice.merged
  BY <1>1, <1>2 DEF Trees
<1> QED BY <1>1, <1>3 DEF w, Gone

LEMMA NoVoiceFields ==
  /\ Status(NoVoice) = "absent" /\ NoVoice.merged = NoJob /\ NoVoice.marker = FALSE
  /\ NoVoice.manifest.status = "absent" /\ ~ Exists(NoVoice) /\ ~ InFlight(NoVoice)
BY DEF NoVoice, Manifest, Status, Exists, InFlight, InFlightStatuses

(* Removing every file of a view that is in step with the Volume leaves a  *)
(* view of no voice in step with it.                                       *)
LEMMA Discarded ==
  ASSUME NEW v \in Trees, NEW t \in Trees, NEW d \in SUBSET Files, Sync(v, t, d)
  PROVE  /\ d \cup FilesOf(t) \in SUBSET Files
         /\ Sync(v, NoVoice, d \cup FilesOf(t))
         /\ Exists(t) => "manifest" \in FilesOf(t)
<1>1. \A f \in Files : f \notin FilesOf(t) => t[f] = NoVoice[f]
  BY DEF FilesOf
<1>2. {"manifest", "upload", "clips", "merged"} \subseteq Files
  BY DEF Files
<1>3. Sync(v, NoVoice, d \cup FilesOf(t))
  BY <1>1, <1>2 DEF Sync
<1>4. Exists(t) => t.manifest # NoVoice.manifest
  BY NoVoiceFields DEF Exists
<1> QED BY <1>1, <1>2, <1>3, <1>4 DEF FilesOf

(* What a reload leaves a run that owns the voice with: a view that is in  *)
(* step with what the Volume has become.                                   *)
Reloaded(j, v, t, a, w, view, dirty) ==
  /\ w \in Trees /\ view \in Trees /\ dirty \in SUBSET Files
  /\ Sync(w, view, dirty) /\ Status(view) = Status(t) /\ view.merged = t.merged
  /\ view.marker => a # "none"
  /\ VolumeOK(w, a) /\ InFlight(w) /\ w.merged \in {NoJob, j}
  /\ Status(w) \in {Status(v), Status(t)}
  /\ \A up : EnginesOK(v, a, up) => EnginesOK(w, a, up)
  /\ a = "none" /\ Resolves(v) => Resolves(w)

LEMMA OwnerReloads ==
  ASSUME NEW j \in Jobs, NEW v \in Trees, NEW t \in Trees, NEW d \in SUBSET Files, NEW a,
         VolumeOK(v, a), InFlight(v), v.merged \in {NoJob, j}, Sync(v, t, d),
         t.marker => a # "none", "marker" \notin d,
         \/ Status(t) = "training" /\ t.merged = NoJob /\ v.merged = NoJob
         \/ Status(t) = "warming" /\ t.merged = j,
         NEW w, NEW view, NEW dirty,
         \/ view = t /\ dirty = d /\ w = v
         \/ view = Commit(v, t, d) /\ dirty = d /\ w = v
         \/ view = Commit(v, t, d) /\ dirty = {} /\ w = view
  PROVE  Reloaded(j, v, t, a, w, view, dirty)
<1> DEFINE u == Commit(v, t, d)
<1>1. /\ u \in Trees
      /\ u.manifest = t.manifest /\ u.upload = t.upload /\ u.clips = t.clips
      /\ u.merged = t.merged /\ u.marker = v.marker
      /\ Status(u) = Status(t) /\ Sync(u, t, {}) /\ Sync(u, u, {}) /\ Sync(v, u, d)
  BY SyncedCommit
<1> HIDE DEF u
<1>2. NoJob \notin Jobs
  BY JobsAssumption
<1>3. Exists(v) /\ Exists(t) /\ Exists(u) /\ InFlight(t) /\ InFlight(u)
  BY <1>1 DEF Exists, Status, InFlight, InFlightStatuses
<1>4. HasCheckpoint(t) <=> t.merged # NoJob
  BY <1>2 DEF HasCheckpoint
<1>5. VolumeOK(u, a)
  BY <1>1, <1>3, <1>4 DEF VolumeOK, HasCheckpoint
<1>6. ASSUME NEW up, EnginesOK(v, a, up) PROVE EnginesOK(u, a, up)
  <2>1. ASSUME NEW e \in up, e \in Jobs PROVE e = u.merged
    <3>1. e = v.merged
      BY <1>3, <1>6, <2>1 DEF EnginesOK
    <3> QED BY <1>1, <1>2, <2>1, <3>1
  <2> QED BY <1>6, <2>1 DEF EnginesOK
<1>7. ASSUME a = "none", Resolves(v) PROVE Resolves(u)
  <2>1. HasCheckpoint(v) /\ ~ v.marker
    BY <1>7 DEF Resolves, HasCheckpoint, IsDeleteRequested
  <2>2. t.merged = j /\ Status(t) = "warming"
    BY <1>2, <2>1 DEF VolumeOK
  <2> QED BY <1>1, <2>1, <2>2 DEF Resolves, IsDeleteRequested
<1>8. u.marker => a # "none"
  BY <1>1 DEF VolumeOK
<1>9. u.merged \in {NoJob, j}
  BY <1>1
<1>10. CASE view = t /\ dirty = d /\ w = v
  BY <1>10 DEF Reloaded
<1>11. CASE view = u /\ dirty = d /\ w = v
  BY <1>1, <1>8, <1>11 DEF Reloaded
<1>12. CASE view = u /\ dirty = {} /\ w = u
  BY <1>1, <1>3, <1>5, <1>6, <1>7, <1>8, <1>9, <1>12 DEF Reloaded
<1> QED BY <1>10, <1>11, <1>12 DEF u

-----------------------------------------------------------------------------
(* A step of a web container, and one of a run, keep the invariant if    *)
(* what they leave is as it has to be.                                     *)
LEMMA ApiFrame ==
  ASSUME LifeInv, TypeOK', Calm', created, created', NEW c \in Api,
         NEW pc, NEW view, NEW dirty, ApiMove(c, pc, view, dirty), UNCHANGED jobVars,
         VolumeOK(volume', acked'), EnginesOK(volume', acked', engines'),
         ApiOK(pc, volume', view, dirty, acked'),
         \A d \in Api \ {c} : ApiOK(apc[d], volume', aview[d], adirty[d], acked'),
         \A j \in Jobs : Owns(j) => /\ OwnerOK(j, jpc[j], volume', jview[j], jdirty[j], acked')
                                    /\ pc \in {"idle", "commit_marker", "engine"},
         \A j \in Jobs : PostOK(jpc[j], volume', jview[j], jdirty[j], acked'),
         pc \in {"commit_training", "spawn", "commit_rollback"} => \A j \in Jobs : ~ Active(j)
  PROVE  LifeInv'
<1>1. apc \in [Api -> ApiPcs] /\ aview \in [Api -> Trees] /\ adirty \in [Api -> SUBSET Files]
  BY DEF LifeInv, TypeOK
<1>2. apc'[c] = pc /\ aview'[c] = view /\ adirty'[c] = dirty
  BY <1>1 DEF ApiMove
<1>0. \A d \in Api \ {c} : apc'[d] = apc[d] /\ aview'[d] = aview[d] /\ adirty'[d] = adirty[d]
  BY <1>1 DEF ApiMove
<1>3. jpc' = jpc /\ jview' = jview /\ jdirty' = jdirty
  BY DEF jobVars
<1>4. OneActive'
  BY <1>3 DEF LifeInv, OneActive, Active
<1>5. \A d \in Api : ApiOK(apc'[d], volume', aview'[d], adirty'[d], acked')
  BY <1>0, <1>2
<1>6. \A j \in Jobs : Owns(j)' => /\ OwnerOK(j, jpc'[j], volume', jview'[j], jdirty'[j], acked')
                                  /\ \A d \in Api : apc'[d] \in {"idle", "commit_marker", "engine"}
  <2>1. \A j \in Jobs : Owns(j)' <=> Owns(j)
    BY <1>3 DEF Owns
  <2>2. \A j \in Jobs : Owns(j) => \A d \in Api : apc[d] \in {"idle", "commit_marker", "engine"}
    BY DEF LifeInv
  <2> QED BY <1>0, <1>2, <1>3, <2>1, <2>2
<1>7. \A j \in Jobs : PostOK(jpc'[j], volume', jview'[j], jdirty'[j], acked')
  BY <1>3
<1>8. \A j \in Jobs, d \in Api :
        Active(j)' => apc'[d] \notin {"commit_training", "spawn", "commit_rollback"}
  <2>1. \A j \in Jobs : Active(j)' <=> Active(j)
    BY <1>3 DEF Active
  <2>2. \A j \in Jobs, d \in Api :
          Active(j) => apc[d] \notin {"commit_training", "spawn", "commit_rollback"}
    BY DEF LifeInv
  <2> QED BY <1>0, <1>2, <2>1, <2>2
<1> QED BY <1>4, <1>5, <1>6, <1>7, <1>8 DEF LifeInv

LEMMA JobFrame ==
  ASSUME LifeInv, TypeOK', Calm', NEW j \in Jobs, Active(j), NEW pc, NEW view, NEW dirty,
         JobMove(j, pc, view, dirty), UNCHANGED <<apiVars, created, acked>>,
         pc # "unused",
         VolumeOK(volume', acked), EnginesOK(volume', acked, engines'),
         Owns(j)' => Owns(j) /\ OwnerOK(j, pc, volume', view, dirty, acked),
         PostOK(pc, volume', view, dirty, acked),
         \A c \in Api : ApiOK(apc[c], volume', aview[c], adirty[c], acked)
  PROVE  LifeInv'
<1>1. jpc \in [Jobs -> JobPcs] /\ jview \in [Jobs -> Trees] /\ jdirty \in [Jobs -> SUBSET Files]
  BY DEF LifeInv, TypeOK
<1>2. jpc'[j] = pc /\ jview'[j] = view /\ jdirty'[j] = dirty
  BY <1>1 DEF JobMove
<1>3. \A i \in Jobs : i # j => /\ ~ Active(i) /\ jpc'[i] = jpc[i]
                               /\ jview'[i] = jview[i] /\ jdirty'[i] = jdirty[i]
  BY <1>1 DEF JobMove, LifeInv, OneActive
<1>4. apc' = apc /\ aview' = aview /\ adirty' = adirty /\ acked' = acked /\ created' = created
  BY DEF apiVars
<1>5. \A i \in Jobs : i # j => ~ Active(i)' /\ ~ Owns(i)' /\ jpc'[i] # "post_commit"
  BY <1>3 DEF Active, Owns
<1>6. created
  BY DEF LifeInv, Untouched, Active
<1>7. OneActive'
  BY <1>5 DEF OneActive
<1>8. \A c \in Api : ApiOK(apc'[c], volume', aview'[c], adirty'[c], acked')
  BY <1>4
<1>9. \A i \in Jobs : Owns(i)' => /\ OwnerOK(i, jpc'[i], volume', jview'[i], jdirty'[i], acked')
                                  /\ \A c \in Api : apc'[c] \in {"idle", "commit_marker", "engine"}
  BY <1>2, <1>4, <1>5 DEF LifeInv
<1>10. \A i \in Jobs : PostOK(jpc'[i], volume', jview'[i], jdirty'[i], acked')
  BY <1>2, <1>4, <1>5 DEF PostOK
<1>11. \A i \in Jobs, c \in Api :
        Active(i)' => apc'[c] \notin {"commit_training", "spawn", "commit_rollback"}
  BY <1>4, <1>5 DEF LifeInv
<1> QED BY <1>4, <1>6, <1>7, <1>8, <1>9, <1>10, <1>11 DEF LifeInv

(* A step of a web container that reads: nothing that others see moves.  *)
LEMMA ReadFrame ==
  ASSUME LifeInv, TypeOK', Calm', created, NEW c \in Api,
         NEW pc, NEW view, NEW dirty, ApiMove(c, pc, view, dirty),
         UNCHANGED <<volume, jobVars, created, acked>>,
         EnginesOK(volume, acked, engines'), ApiOK(pc, volume, view, dirty, acked),
         pc \in {"idle", "commit_marker", "engine"} \/ \A j \in Jobs : ~ Owns(j),
         pc \in {"commit_training", "spawn", "commit_rollback"} => \A j \in Jobs : ~ Active(j)
  PROVE  LifeInv'
<1>1. volume' = volume /\ acked' = acked /\ created' = created /\ UNCHANGED jobVars
  OBVIOUS
<1>2. VolumeOK(volume, acked)
  BY DEF LifeInv
<1>3. \A j \in Jobs : Owns(j) => /\ OwnerOK(j, jpc[j], volume, jview[j], jdirty[j], acked)
                                 /\ pc \in {"idle", "commit_marker", "engine"}
  BY DEF LifeInv
<1>4. \A j \in Jobs : PostOK(jpc[j], volume, jview[j], jdirty[j], acked)
  BY DEF LifeInv
<1>5. \A d \in Api : ApiOK(apc[d], volume', aview[d], adirty[d], acked')
  BY <1>1 DEF LifeInv
<1> QED BY <1>1, <1>2, <1>3, <1>4, <1>5, ApiFrame

(* A request at rest asks nothing.                                         *)
LEMMA IdleOK == ASSUME NEW v, NEW t, NEW d, NEW a PROVE ApiOK("idle", v, t, d, a)
BY DEF ApiOK

(* Removing the files of the Volume as it is.                              *)
LEMMA RemovalOK ==
  ASSUME NEW v \in Trees, ~ InFlight(v), NEW a, NEW pc \in {"commit_delete", "commit_pending"},
         pc = "commit_pending" => a # "none"
  PROVE  ApiOK(pc, v, NoVoice, FilesOf(v), a)
<1>1. Sync(v, v, {})
  BY DEF Sync
<1>2. {} \in SUBSET Files /\ {} \cup FilesOf(v) = FilesOf(v)
  OBVIOUS
<1>3. Sync(v, NoVoice, FilesOf(v))
  <2>1. Sync(v, NoVoice, {} \cup FilesOf(v))
    BY <1>1, <1>2, Discarded
  <2> QED BY <1>2, <2>1
<1> QED BY <1>3 DEF ApiOK

(* While a run owns the voice its status is one of a run in flight.        *)
LEMMA NobodyOwns == LifeInv /\ ~ InFlight(volume) => \A j \in Jobs : ~ Owns(j)
BY DEF LifeInv, OwnerOK

LEMMA NobodyIsActive ==
  ASSUME LifeInv, ~ InFlight(volume), \A j \in Jobs : jpc[j] \notin {"post_check", "post_commit"}
  PROVE  \A j \in Jobs : ~ Active(j)
<1>1. \A j \in Jobs : ~ Owns(j)
  BY NobodyOwns
<1> QED BY <1>1 DEF Owns, Active

(* load_owned_voice() finishing a deletion that is owed.                   *)
LEMMA FinishDeletionKeeps ==
  ASSUME LifeInv, TypeOK', Calm', created, NEW c \in Api,
         FinishDeletion(c), PendingDelete(volume),
         UNCHANGED <<volume, jobVars, engines, created, acked>>
  PROVE  LifeInv'
<1>1. ~ InFlight(volume) /\ acked # "none" /\ volume \in Trees
  BY DEF LifeInv, VolumeOK, TypeOK, PendingDelete, IsDeleteRequested
<1>2. ApiOK("commit_pending", volume, NoVoice, FilesOf(volume), acked)
  BY <1>1, RemovalOK
<1>3. \A j \in Jobs : ~ Owns(j)
  BY <1>1, NobodyOwns
<1>4. EnginesOK(volume, acked, engines')
  BY DEF LifeInv
<1> QED BY <1>2, <1>3, <1>4, ReadFrame DEF FinishDeletion

LEMMA CreateKeeps ==
  ASSUME LifeInv, TypeOK', Calm', NEW c \in Api, CreateVoice(c)
  PROVE  LifeInv'
<1> DEFINE t == [aview[c] EXCEPT !.manifest = Manifest("awaiting_dataset", FALSE)]
           m == Manifest("awaiting_dataset", FALSE)
<1>1. /\ volume = NoVoice /\ acked = "none" /\ engines = {} /\ aview[c] = NoVoice
      /\ \A j \in Jobs : jpc[j] = "unused"
  BY DEF CreateVoice, LifeInv, Untouched
<1>2. /\ apc' = [apc EXCEPT ![c] = "idle"] /\ volume' = Commit(volume, t, {"manifest"})
      /\ created' = TRUE /\ jpc' = jpc /\ engines' = {} /\ acked' = "none"
  BY <1>1 DEF CreateVoice, ApiMove, jobVars
<1>3. NoVoice \in Trees /\ t \in Trees /\ t.manifest = m
  BY <1>1, NoVoiceType DEF Trees, Manifests, Manifest, Statuses
<1>4. m.status = "awaiting_dataset"
  BY DEF Manifest
<1> HIDE DEF t, m
<1>5. volume'.manifest = m /\ volume'.merged = NoVoice.merged /\ volume'.marker = NoVoice.marker
  <2>1. {"manifest"} \in SUBSET Files
    BY DEF Files
  <2> QED BY <1>1, <1>2, <1>3, <2>1, CommitFields
<1>6. VolumeOK(volume', "none")
  BY <1>4, <1>5, NoVoiceFields DEF VolumeOK, Exists, Status, HasCheckpoint
<1>7. EnginesOK(volume', "none", {})
  BY DEF EnginesOK
<1>8. \A d \in Api : apc'[d] = "idle"
  BY <1>2 DEF CreateVoice, LifeInv, Untouched
<1>9. \A d \in Api : ApiOK(apc'[d], volume', aview'[d], adirty'[d], acked')
  BY <1>8, IdleOK
<1>10. \A j \in Jobs : ~ Active(j)' /\ ~ Owns(j)' /\ jpc'[j] = "unused"
  BY <1>1, <1>2 DEF Active, Owns
<1>11. OneActive'
  BY <1>10 DEF OneActive
<1>12. \A j \in Jobs : PostOK(jpc'[j], volume', jview'[j], jdirty'[j], acked')
  BY <1>10 DEF PostOK
<1> QED BY <1>2, <1>6, <1>7, <1>9, <1>10, <1>11, <1>12 DEF LifeInv

(* A call to a GPU container, of a voice that resolves or whose deletion   *)
(* was asked for, brings up the container it should.                       *)
LEMMA CallOK ==
  ASSUME volume \in Trees, EngineCall, EnginesOK(volume, acked, engines), Resolves(volume) \/ acked # "none"
  PROVE  EnginesOK(volume, acked, engines')
<1>1. CASE UNCHANGED engines
  BY <1>1
<1>2. ASSUME NEW e \in Jobs \cup {Poisoned}, EngineInit(e), engines' = engines \cup {e}
      PROVE  EnginesOK(volume, acked, engines')
  <2>1. CASE Resolves(volume)
    <3>1. e = volume.merged /\ e \in Jobs
      BY <1>2, <2>1 DEF EngineInit, Trees
    <3> QED BY <1>2, <3>1, PoisonedAssumption DEF EnginesOK
  <2>2. CASE ~ Resolves(volume)
    BY <1>2, <2>2, PoisonedAssumption DEF EngineInit, EnginesOK
  <2> QED BY <2>1, <2>2
<1> QED BY <1>1, <1>2 DEF EngineCall

(* A request's own steps, up to its commit.                                *)
LEMMA RequestKeeps ==
  ASSUME LifeInv, TypeOK', Calm', NEW c \in Api,
         \/ UploadDataset(c) \/ UploadBody(c) \/ CommitDataset(c) \/ DeleteVoice(c)
         \/ PollVoice(c) \/ SynthesizeVoice(c) \/ SynthesizeText(c) \/ SpawnFails(c)
         \/ ApiCrash(c)
  PROVE  LifeInv'
<1>0. created
  BY DEF UploadDataset, UploadBody, CommitDataset, DeleteVoice, PollVoice, SynthesizeVoice,
         SynthesizeText, SpawnFails, ApiCrash, LifeInv, Untouched
<1>1. /\ UNCHANGED <<volume, jobVars, created, acked>> /\ volume \in Trees
      /\ VolumeOK(volume, acked) /\ EnginesOK(volume, acked, engines)
      /\ ApiOK(apc[c], volume, aview[c], adirty[c], acked)
      /\ aview[c] \in Trees
  BY <1>0 DEF UploadDataset, UploadBody, CommitDataset, DeleteVoice, PollVoice, SynthesizeVoice,
              SynthesizeText, SpawnFails, ApiCrash, LifeInv, TypeOK
<1>2. CASE UploadDataset(c)
  <2>1. Exists(volume) /\ engines' = engines
    BY <1>2 DEF UploadDataset
  <2>2. CASE PendingDelete(volume) /\ FinishDeletion(c)
    BY <1>0, <1>1, <2>1, <2>2, FinishDeletionKeeps
  <2>3. CASE ApiMove(c, "upload_body", volume, {})
    <3>0. ~ InFlight(volume) /\ acked = "none"
      <4>1. apc'[c] = "upload_body"
        BY <2>3 DEF ApiMove, LifeInv, TypeOK
      <4>2. ~ Late' /\ volume' = volume /\ acked' = acked
        BY <1>1 DEF Calm
      <4> QED BY <4>1, <4>2 DEF Late, InFlight, Status
    <3>1. ApiOK("upload_body", volume, volume, {}, acked)
      BY <2>1, <3>0 DEF ApiOK, Sync
    <3>2. \A j \in Jobs : ~ Owns(j)
      BY <3>0, NobodyOwns
    <3> QED BY <1>0, <1>1, <2>1, <2>3, <3>1, <3>2, ReadFrame
  <2> QED BY <1>2, <2>2, <2>3 DEF UploadDataset
<1>3. CASE UploadBody(c)
  <2> DEFINE t == [MarkUploaded(aview[c]) EXCEPT !.upload = TRUE]
  <2>1. /\ ApiMove(c, "commit_upload", t, {"upload", "manifest"}) /\ engines' = engines
        /\ adirty[c] = {} /\ Sync(volume, aview[c], {}) /\ acked = "none"
        /\ Exists(volume) /\ ~ InFlight(volume)
    BY <1>1, <1>3 DEF UploadBody, ApiOK
  <2>2. /\ Status(t) = Status(aview[c]) /\ t.clips = aview[c].clips /\ t.merged = aview[c].merged
    BY <1>1 DEF MarkUploaded, Trees, Manifests, Status
  <2> HIDE DEF t
  <2>3. Status(t) = Status(volume) /\ Sync(volume, t, {"upload", "manifest"})
    BY <2>1, <2>2 DEF Sync, Status
  <2>4. ApiOK("commit_upload", volume, t, {"upload", "manifest"}, acked)
    BY <2>1, <2>3 DEF ApiOK
  <2>5. \A j \in Jobs : ~ Owns(j)
    BY <2>1, NobodyOwns
  <2> QED BY <1>0, <1>1, <2>1, <2>4, <2>5, ReadFrame
<1>4. CASE CommitDataset(c)
  <2>1. CASE PendingDelete(volume) /\ FinishDeletion(c)
    BY <1>0, <1>1, <1>4, <2>1, FinishDeletionKeeps DEF CommitDataset
  <2>2. CASE /\ ~ PendingDelete(volume) /\ Status(volume) \in CommittableStatuses
             /\ ApiMove(c, "commit_training", WriteStatus(volume, "training"), {"manifest"})
    <3>1. Exists(volume) /\ ~ InFlight(volume)
      BY <2>2 DEF CommittableStatuses, InFlight, InFlightStatuses, Exists, Status
    <3>2. acked = "none"
      BY <1>1, <2>2, <3>1 DEF VolumeOK, PendingDelete, IsDeleteRequested
    <3>3. Status(WriteStatus(volume, "training")) = "training"
      BY <1>1, WriteStatusType DEF Statuses
    <3>4. ApiOK("commit_training", volume, WriteStatus(volume, "training"), {"manifest"}, acked)
      BY <2>2, <3>2, <3>3 DEF ApiOK
    <3>5. \A j \in Jobs : ~ Active(j)
      <4>1. apc'[c] = "commit_training"
        BY <2>2 DEF ApiMove, LifeInv, TypeOK
      <4>2. ~ Early' /\ jpc' = jpc
        BY <1>1 DEF Calm, jobVars
      <4>3. \A j \in Jobs : jpc[j] \notin {"post_check", "post_commit"}
        BY <4>1, <4>2 DEF Early, Claiming
      <4> QED BY <3>1, <4>3, NobodyIsActive
    <3>6. \A j \in Jobs : ~ Owns(j)
      BY <3>1, NobodyOwns
    <3> QED BY <1>0, <1>1, <1>4, <2>2, <3>4, <3>5, <3>6, ReadFrame DEF CommitDataset
  <2> QED BY <1>4, <2>1, <2>2 DEF CommitDataset
<1>5. CASE DeleteVoice(c)
  <2>1. CASE InFlight(volume)
    <3>1. ApiMove(c, "commit_marker", RequestDelete(volume), {"marker"}) /\ engines' = engines
      BY <1>5, <2>1 DEF DeleteVoice
    <3>2. RequestDelete(volume).marker
      BY <1>1 DEF RequestDelete, Trees
    <3>3. ApiOK("commit_marker", volume, RequestDelete(volume), {"marker"}, acked)
      BY <2>1, <3>2 DEF ApiOK, InFlight, InFlightStatuses
    <3> QED BY <1>0, <1>1, <3>1, <3>3, ReadFrame
  <2>2. CASE ~ InFlight(volume)
    <3>1. ApiMove(c, "commit_delete", NoVoice, FilesOf(volume)) /\ engines' = engines
      BY <1>5, <2>2 DEF DeleteVoice
    <3>2. ApiOK("commit_delete", volume, NoVoice, FilesOf(volume), acked)
      BY <1>1, <2>2, RemovalOK
    <3>3. \A j \in Jobs : ~ Owns(j)
      BY <2>2, NobodyOwns
    <3> QED BY <1>0, <1>1, <3>1, <3>2, <3>3, ReadFrame
  <2> QED BY <2>1, <2>2
<1>6. CASE PollVoice(c)
  <2>1. CASE PendingDelete(volume) /\ FinishDeletion(c)
    BY <1>0, <1>1, <1>6, <2>1, FinishDeletionKeeps DEF PollVoice
  <2>2. CASE Refuse(c)
    BY <1>0, <1>1, <1>6, <2>2, IdleOK, ReadFrame DEF PollVoice, Refuse
  <2> QED BY <1>6, <2>1, <2>2 DEF PollVoice
<1>7. CASE SynthesizeVoice(c)
  <2>1. CASE PendingDelete(volume) /\ FinishDeletion(c)
    BY <1>0, <1>1, <1>7, <2>1, FinishDeletionKeeps DEF SynthesizeVoice
  <2>2. CASE Resolves(volume) /\ ApiMove(c, "engine", volume, {})
    <3>1. acked = "none"
      BY <1>1, <2>2 DEF VolumeOK, Resolves, IsDeleteRequested, Exists, Status
    <3>2. ApiOK("engine", volume, volume, {}, acked)
      BY <2>2, <3>1 DEF ApiOK
    <3> QED BY <1>0, <1>1, <1>7, <2>2, <3>2, ReadFrame DEF SynthesizeVoice
  <2> QED BY <1>7, <2>1, <2>2 DEF SynthesizeVoice
<1>8. CASE SynthesizeText(c)
  <2>1. Resolves(volume) \/ acked # "none"
    BY <1>1, <1>8 DEF SynthesizeText, ApiOK
  <2>2. EnginesOK(volume, acked, engines')
    BY <1>1, <1>8, <2>1, CallOK DEF SynthesizeText
  <2>3. ApiMove(c, "idle", aview[c], adirty[c])
    BY <1>8 DEF SynthesizeText, ApiMove, LifeInv, TypeOK
  <2> QED BY <1>0, <1>1, <2>2, <2>3, IdleOK, ReadFrame
<1>9. CASE SpawnFails(c)
  <2> DEFINE t == MarkUploaded(WriteStatus(aview[c], "awaiting_dataset"))
  <2>1. Status(t) = "awaiting_dataset"
    BY <1>1 DEF MarkUploaded, WriteStatus, Trees, Manifests, Status
  <2>2. /\ ApiMove(c, "commit_rollback", t, {"manifest"}) /\ engines' = engines
        /\ Status(volume) = "training" /\ acked = "none"
    BY <1>1, <1>9 DEF SpawnFails, ApiOK
  <2> HIDE DEF t
  <2>3. ApiOK("commit_rollback", volume, t, {"manifest"}, acked)
    BY <2>1, <2>2 DEF ApiOK
  <2>4. \A j \in Jobs : ~ Active(j)
    BY <1>9 DEF SpawnFails, LifeInv
  <2>5. \A j \in Jobs : ~ Owns(j)
    BY <2>4 DEF Active, Owns
  <2> QED BY <1>0, <1>1, <2>2, <2>3, <2>4, <2>5, ReadFrame
<1>10. CASE ApiCrash(c)
  BY <1>0, <1>1, <1>10, IdleOK, ReadFrame DEF ApiCrash
<1> QED BY <1>2, <1>3, <1>4, <1>5, <1>6, <1>7, <1>8, <1>9, <1>10

(* Setting the marker, whatever goes on beside it.                         *)
LEMMA MarkerSet ==
  ASSUME NEW v \in Trees, NEW t \in Trees, t.marker, VolumeOK(v, acked),
         NEW w, w = Commit(v, t, {"marker"})
  PROVE  /\ VolumeOK(w, "requested")
         /\ \A a, up : EnginesOK(v, a, up) => EnginesOK(w, "requested", up)
         /\ \A j, pc, u, d, a : OwnerOK(j, pc, v, u, d, a) => OwnerOK(j, pc, w, u, d, "requested")
         /\ \A pc, u, d, a : PostOK(pc, v, u, d, a) => PostOK(pc, w, u, d, "requested")
<1>1. {"marker"} \in SUBSET Files
  BY DEF Files
<1>2. /\ w \in Trees /\ w.manifest = v.manifest /\ w.upload = v.upload /\ w.clips = v.clips
      /\ w.merged = v.merged /\ w.marker
  BY <1>1, CommitFields
<1>3. /\ Status(w) = Status(v) /\ (Exists(w) <=> Exists(v)) /\ (InFlight(w) <=> InFlight(v))
      /\ (HasCheckpoint(w) <=> HasCheckpoint(v))
  BY <1>2 DEF Status, Exists, InFlight, HasCheckpoint
<1>4. Gone(w) <=> Gone(v)
  BY <1>2, GoneFields
<1>5. \A u, d : Sync(v, u, d) => Sync(w, u, d)
  BY <1>2 DEF Sync
<1>6. VolumeOK(w, "requested")
  BY <1>2, <1>3, <1>4 DEF VolumeOK
<1>7. ASSUME NEW a, NEW up, EnginesOK(v, a, up) PROVE EnginesOK(w, "requested", up)
  BY <1>2, <1>3, <1>7 DEF EnginesOK
<1>8. ASSUME NEW j, NEW pc, NEW u, NEW d, NEW a, OwnerOK(j, pc, v, u, d, a)
      PROVE  OwnerOK(j, pc, w, u, d, "requested")
  BY <1>2, <1>3, <1>5, <1>8 DEF OwnerOK
<1>9. ASSUME NEW pc, NEW u, NEW d, NEW a, PostOK(pc, v, u, d, a)
      PROVE  PostOK(pc, w, u, d, "requested")
  BY <1>5, <1>9 DEF PostOK
<1> QED BY <1>6, <1>7, <1>8, <1>9

(* Committing the removal of all that was there.                           *)
LEMMA Removed ==
  ASSUME NEW v \in Trees, NEW d \in SUBSET Files, Sync(v, NoVoice, d),
         NEW w, w = Commit(v, NoVoice, d)
  PROVE  /\ Gone(w) /\ ~ Exists(w) /\ \A e : Sync(w, NoVoice, e)
         /\ \A a : a # "none" => VolumeOK(w, a) /\ \A up : EnginesOK(w, a, up)
<1>1. /\ w \in Trees
      /\ w.manifest = NoVoice.manifest /\ w.upload = NoVoice.upload /\ w.clips = NoVoice.clips
      /\ w.merged = NoVoice.merged
  BY NoVoiceType, SyncedCommit
<1>2. Gone(w) /\ ~ Exists(w) /\ w.merged = NoJob /\ ~ HasCheckpoint(w)
  BY <1>1, GoneFields, NoVoiceFields DEF Exists, HasCheckpoint, Status
<1>3. \A e : Sync(w, NoVoice, e)
  BY <1>1 DEF Sync
<1>4. ASSUME NEW a, a # "none" PROVE VolumeOK(w, a) /\ \A up : EnginesOK(w, a, up)
  BY <1>2, <1>4 DEF VolumeOK, EnginesOK
<1> QED BY <1>2, <1>3, <1>4

(* Committing a manifest, of a voice that stays and that nobody else works *)
(* on: its status moves as it may.                                         *)
LEMMA ManifestSet ==
  ASSUME NEW v \in Trees, NEW t \in Trees, NEW d \in SUBSET Files,
         d \in {{"manifest"}, {"upload", "manifest"}}, VolumeOK(v, "none"),
         Exists(t), HasCheckpoint(t) <=> HasCheckpoint(v), Exists(v),
         NEW w, w = Commit(v, t, d)
  PROVE  /\ VolumeOK(w, "none") /\ Status(w) = Status(t)
         /\ \A up : EnginesOK(v, "none", up) => EnginesOK(w, "none", up)
<1>1. /\ w.manifest = t.manifest /\ w.merged = v.merged /\ w.marker = v.marker
  BY CommitFields
<1>2. Status(w) = Status(t) /\ Exists(w) /\ (HasCheckpoint(w) <=> HasCheckpoint(v))
  BY <1>1 DEF Status, Exists, HasCheckpoint
<1>3. VolumeOK(w, "none")
  BY <1>1, <1>2 DEF VolumeOK
<1>4. ASSUME NEW up, EnginesOK(v, "none", up) PROVE EnginesOK(w, "none", up)
  BY <1>1, <1>4 DEF EnginesOK
<1> QED BY <1>2, <1>3, <1>4

(* What a commit does to the Volume disturbs no other request: nobody else *)
(* writes beside one that changes the voice, and removals do not mind.     *)
LEMMA BesideChange ==
  ASSUME NEW v, NEW w, NEW t, NEW d, NEW pc \in {"idle", "engine"}, ApiOK(pc, v, t, d, "none"),
         Resolves(v) => Resolves(w)
  PROVE  ApiOK(pc, w, t, d, "none")
BY DEF ApiOK

LEMMA BesideRemoval ==
  ASSUME NEW v, NEW w, NEW t, NEW d, NEW a, NEW b, b # "none",
         NEW pc \in {"idle", "engine", "commit_delete", "commit_pending", "commit_marker"},
         ApiOK(pc, v, t, d, a),
         ~ Exists(w), \A e : Sync(w, NoVoice, e)
  PROVE  ApiOK(pc, w, t, d, b)
<1>1. ~ InFlight(w) /\ Status(w) # "awaiting_dataset"
  BY DEF Exists, InFlight, InFlightStatuses, Status
<1> QED BY <1>1 DEF ApiOK

LEMMA BesideMarker ==
  ASSUME NEW v \in Trees, NEW x \in Trees, NEW w, w = Commit(v, x, {"marker"}),
         NEW pc \in {"idle", "engine", "commit_delete", "commit_pending", "commit_marker"},
         NEW t, NEW d, NEW a, ApiOK(pc, v, t, d, a)
  PROVE  ApiOK(pc, w, t, d, "requested")
<1>1. {"marker"} \in SUBSET Files
  BY DEF Files
<1>2. /\ w.manifest = v.manifest /\ w.upload = v.upload /\ w.clips = v.clips
      /\ w.merged = v.merged
  BY <1>1, CommitFields
<1>3. Status(w) = Status(v) /\ (InFlight(w) <=> InFlight(v)) /\ \A u, e : Sync(v, u, e) => Sync(w, u, e)
  BY <1>2 DEF Status, InFlight, Sync
<1> QED BY <1>3 DEF ApiOK

LEMMA CommitKeeps ==
  ASSUME LifeInv, TypeOK', Calm', NEW c \in Api, ApiCommit(c)
  PROVE  LifeInv'
<1> DEFINE v == volume
           t == aview[c]
           d == adirty[c]
           w == Commit(v, t, d)
           next == IF apc[c] = "commit_training" THEN "spawn" ELSE "idle"
<1>1. /\ created /\ VolumeOK(v, acked) /\ EnginesOK(v, acked, engines)
      /\ ApiOK(apc[c], v, t, d, acked)
      /\ \A j \in Jobs : PostOK(jpc[j], v, jview[j], jdirty[j], acked)
      /\ \A j \in Jobs : Owns(j) => /\ OwnerOK(j, jpc[j], v, jview[j], jdirty[j], acked)
                                    /\ apc[c] \in {"idle", "commit_marker", "engine"}
  BY DEF ApiCommit, LifeInv, Untouched
<1>2. v \in Trees /\ t \in Trees /\ d \in SUBSET Files
  BY DEF LifeInv, TypeOK
<1>3. /\ volume' = w /\ ApiMove(c, next, t, {}) /\ UNCHANGED <<jobVars, engines, created>>
  BY DEF ApiCommit
<1>4. acked' = CASE apc[c] = "commit_delete" -> "deleted"
                 [] apc[c] = "commit_marker" -> "requested"
                 [] OTHER                    -> acked
  BY DEF ApiCommit
<1>5. apc[c] \in {"commit_upload", "commit_training", "commit_rollback",
                  "commit_delete", "commit_marker", "commit_pending"}
  BY DEF ApiCommit
<1>o. ASSUME NEW b \in Api \ {c}
      PROVE  /\ ApiOK(apc[b], v, aview[b], adirty[b], acked)
             /\ apc[b] \in {"idle", "engine", "commit_delete", "commit_pending", "commit_marker"}
             /\ Changing(c) => apc[b] \in {"idle", "engine"}
  <2>1. ~ Overlap /\ apc[b] \in ApiPcs /\ ApiOK(apc[b], v, aview[b], adirty[b], acked)
    BY DEF LifeInv, Calm, TypeOK
  <2>2. ~ Changing(b)
    BY <1>5, <2>1 DEF Overlap, Writing
  <2> QED BY <2>1, <2>2 DEF Overlap, Changing, Writing, ApiPcs
<1> HIDE DEF v, t, d, w
<1>6. created' /\ engines' = engines
  BY <1>1, <1>3
<1>7. CASE apc[c] \in {"commit_upload", "commit_training", "commit_rollback"}
  <2>1. acked = "none" /\ acked' = "none"
    BY <1>1, <1>4, <1>7 DEF ApiOK
  <2>2. d \in {{"manifest"}, {"upload", "manifest"}} /\ Exists(t) /\ Exists(v)
        /\ (HasCheckpoint(t) <=> HasCheckpoint(v))
        /\ (apc[c] = "commit_training" => Status(t) = "training")
    BY <1>1, <1>7 DEF ApiOK, Exists, HasCheckpoint, Status, CommittableStatuses
  <2>3. VolumeOK(w, "none") /\ Status(w) = Status(t) /\ EnginesOK(w, "none", engines)
    BY <1>1, <1>2, <2>1, <2>2, ManifestSet DEF w
  <2>4. ApiOK(next, w, t, {}, "none")
    BY <2>2, <2>3, IdleOK DEF ApiOK
  <2>5. \A j \in Jobs : ~ Owns(j) /\ jpc[j] # "post_commit"
    BY <1>1, <1>7, <2>1 DEF PostOK
  <2>6. \A j \in Jobs : PostOK(jpc[j], w, jview[j], jdirty[j], "none")
    BY <2>5 DEF PostOK
  <2>7. next = "spawn" => \A j \in Jobs : ~ Active(j)
    BY DEF LifeInv
  <2>8. Resolves(v) => Resolves(w)
    <3>1. /\ w.marker = v.marker
          /\ apc[c] = "commit_upload" => Status(w) = Status(v)
          /\ apc[c] # "commit_upload" => ~ Resolves(v)
      BY <1>1, <1>2, <1>7, <2>2, <2>3, CommitFields
         DEF w, ApiOK, Resolves, CommittableStatuses
    <3> QED BY <1>7, <3>1 DEF Resolves, IsDeleteRequested
  <2>9. ASSUME NEW b \in Api \ {c} PROVE ApiOK(apc[b], w, aview[b], adirty[b], "none")
    <3>1. apc[b] \in {"idle", "engine"} /\ ApiOK(apc[b], v, aview[b], adirty[b], "none")
      BY <1>7, <1>o, <2>1 DEF Changing
    <3> QED BY <2>8, <3>1, BesideChange
  <2> QED BY <1>1, <1>3, <1>6, <2>1, <2>3, <2>4, <2>5, <2>6, <2>7, <2>9, ApiFrame
<1>8. CASE apc[c] \in {"commit_delete", "commit_pending"}
  <2>1. t = NoVoice /\ Sync(v, NoVoice, d) /\ acked' # "none"
    BY <1>1, <1>4, <1>8 DEF ApiOK
  <2>2. /\ ~ Exists(w) /\ \A e : Sync(w, NoVoice, e)
        /\ VolumeOK(w, acked') /\ EnginesOK(w, acked', engines')
    BY <1>2, <2>1, Removed DEF w
  <2>3. next = "idle" /\ \A j \in Jobs : ~ Owns(j)
    BY <1>1, <1>8
  <2>4. \A j \in Jobs : PostOK(jpc[j], w, jview[j], jdirty[j], acked')
    BY <1>1, <2>1, <2>2 DEF PostOK
  <2>5. ApiOK(next, w, t, {}, acked')
    BY <2>3, IdleOK
  <2>6. ASSUME NEW b \in Api \ {c} PROVE ApiOK(apc[b], w, aview[b], adirty[b], acked')
    BY <1>o, <2>1, <2>2, BesideRemoval
  <2> QED BY <1>1, <1>3, <1>6, <2>2, <2>3, <2>4, <2>5, <2>6, ApiFrame
<1>9. CASE apc[c] = "commit_marker"
  <2>1. d = {"marker"} /\ t.marker /\ acked' = "requested"
    BY <1>1, <1>4, <1>9 DEF ApiOK
  <2>0. w = Commit(v, t, {"marker"})
    BY <2>1 DEF w
  <2>2. /\ VolumeOK(w, "requested") /\ EnginesOK(w, "requested", engines)
        /\ \A j \in Jobs : Owns(j) => OwnerOK(j, jpc[j], w, jview[j], jdirty[j], "requested")
        /\ \A j \in Jobs : PostOK(jpc[j], w, jview[j], jdirty[j], "requested")
    BY <1>1, <1>2, <2>1, <2>0, MarkerSet
  <2>3. next = "idle"
    BY <1>9
  <2>4. ApiOK(next, w, t, {}, acked')
    BY <2>3, IdleOK
  <2>5. ASSUME NEW b \in Api \ {c} PROVE ApiOK(apc[b], w, aview[b], adirty[b], acked')
    BY <1>2, <1>o, <2>0, <2>1, BesideMarker
  <2>6. \A j \in Jobs : Owns(j) => next \in {"idle", "commit_marker", "engine"}
    BY <2>3
  <2> QED BY <1>1, <1>3, <1>6, <2>1, <2>2, <2>3, <2>4, <2>5, <2>6, ApiFrame
<1> QED BY <1>5, <1>7, <1>8, <1>9

LEMMA SpawnKeeps ==
  ASSUME LifeInv, TypeOK', Calm', NEW c \in Api, SpawnTraining(c)
  PROVE  LifeInv'
<1>1. PICK k \in Jobs : jpc[k] = "unused" /\ jpc' = [jpc EXCEPT ![k] = "queued"]
  BY DEF SpawnTraining
<1>2. /\ created /\ VolumeOK(volume, acked) /\ EnginesOK(volume, acked, engines)
      /\ Status(volume) = "training" /\ acked = "none"
      /\ \A j \in Jobs : ~ Active(j)
  BY DEF SpawnTraining, LifeInv, Untouched, ApiOK
<1>3. /\ UNCHANGED <<volume, aview, adirty, jview, jdirty, engines, created, acked>>
      /\ apc'[c] = "idle" /\ \A d \in Api \ {c} : apc'[d] = apc[d]
  BY DEF SpawnTraining, LifeInv, TypeOK
<1>o. \A d \in Api : apc'[d] \in {"idle", "engine"}
  <2>1. ~ Overlap /\ Changing(c)
    BY DEF SpawnTraining, LifeInv, Calm, Changing
  <2>2. \A d \in Api \ {c} : ~ Writing(d)
    BY <2>1 DEF Overlap
  <2> QED BY <1>3, <2>2 DEF Writing
<1>4. jpc'[k] = "queued" /\ \A j \in Jobs : j # k => jpc'[j] = jpc[j]
  BY <1>1 DEF LifeInv, TypeOK
<1>5. \A j \in Jobs : j # k => ~ Active(j)' /\ ~ Owns(j)' /\ jpc'[j] # "post_commit"
  BY <1>2, <1>4 DEF Active, Owns
<1>6. OwnerOK(k, "queued", volume, jview[k], jdirty[k], acked)
  BY <1>2 DEF OwnerOK, InFlight, InFlightStatuses, VolumeOK, HasCheckpoint
<1>7. OneActive'
  BY <1>5 DEF OneActive
<1>8. ASSUME NEW d \in Api PROVE ApiOK(apc'[d], volume', aview'[d], adirty'[d], acked')
  <2>1. CASE d = c
    BY <1>3, <2>1, IdleOK
  <2>2. CASE d # c
    BY <1>3, <2>2 DEF LifeInv
  <2> QED BY <2>1, <2>2
<1>9. \A j \in Jobs : Owns(j)' => /\ OwnerOK(j, jpc'[j], volume', jview'[j], jdirty'[j], acked')
                                  /\ \A d \in Api : apc'[d] \in {"idle", "commit_marker", "engine"}
  BY <1>3, <1>4, <1>5, <1>6, <1>o
<1>11. \A j \in Jobs, d \in Api :
         Active(j)' => apc'[d] \notin {"commit_training", "spawn", "commit_rollback"}
  BY <1>o
<1>10. \A j \in Jobs : PostOK(jpc'[j], volume', jview'[j], jdirty'[j], acked')
  BY <1>4, <1>5 DEF PostOK
<1> QED BY <1>2, <1>3, <1>7, <1>8, <1>9, <1>10, <1>11 DEF LifeInv

LEMMA LifeApiStep ==
  ASSUME LifeInv, TypeOK', Calm', NEW c \in Api, ApiStep(c)
  PROVE  LifeInv'
BY CreateKeeps, RequestKeeps, CommitKeeps, SpawnKeeps DEF ApiStep

-----------------------------------------------------------------------------
(* What a run does to the Volume disturbs no request.                      *)
LEMMA RequestStays ==
  ASSUME NEW v, NEW w, NEW t, NEW d, NEW a, NEW pc \in {"idle", "commit_marker", "engine"},
         ApiOK(pc, v, t, d, a), Status(w) # "awaiting_dataset",
         a = "none" /\ Resolves(v) => Resolves(w)
  PROVE  ApiOK(pc, w, t, d, a)
BY DEF ApiOK

LEMMA OwnerFrame ==
  ASSUME LifeInv, TypeOK', Calm', NEW j \in Jobs, Owns(j), NEW pc, NEW view, NEW dirty,
         JobMove(j, pc, view, dirty), UNCHANGED <<apiVars, created, acked>>,
         pc \notin {"unused", "post_commit"},
         VolumeOK(volume', acked), EnginesOK(volume', acked, engines'),
         Status(volume') # "awaiting_dataset",
         acked = "none" /\ Resolves(volume) => Resolves(volume'),
         pc \notin {"post_check", "done", "crashed"}
           => OwnerOK(j, pc, volume', view, dirty, acked)
  PROVE  LifeInv'
<1>1. Active(j)
  BY DEF Active, Owns
<1>2. Owns(j)' => OwnerOK(j, pc, volume', view, dirty, acked)
  BY DEF Owns, JobMove, LifeInv, TypeOK
<1>3. PostOK(pc, volume', view, dirty, acked)
  BY DEF PostOK
<1>4. ASSUME NEW c \in Api PROVE ApiOK(apc[c], volume', aview[c], adirty[c], acked)
  <2>1. apc[c] \in {"idle", "commit_marker", "engine"}
        /\ ApiOK(apc[c], volume, aview[c], adirty[c], acked)
    BY DEF LifeInv
  <2> QED BY <2>1, RequestStays
<1> QED BY <1>1, <1>2, <1>3, <1>4, JobFrame

(* A run that drops the voice it reloaded.                                 *)
LEMMA DiscardOK ==
  ASSUME NEW j \in Jobs, NEW v, NEW t, NEW a, NEW w, NEW view, NEW dirty,
         Reloaded(j, v, t, a, w, view, dirty), Status(t) \in {"training", "warming"},
         DeletedMidRun(view)
  PROVE  OwnerOK(j, "final_commit", w, NoVoice, dirty \cup FilesOf(view), a)
<1>1. Exists(view) /\ view.marker /\ a # "none"
  BY DEF Reloaded, DeletedMidRun, IsDeleteRequested, Exists, Status
<1>2. Sync(w, NoVoice, dirty \cup FilesOf(view)) /\ "manifest" \in FilesOf(view)
  BY <1>1, Discarded DEF Reloaded
<1> QED BY <1>1, <1>2, NoVoiceFields DEF OwnerOK, Reloaded

(* A run that writes a status into the view it reloaded.                   *)
LEMMA WritesStatus ==
  ASSUME NEW w \in Trees, NEW view \in Trees, NEW dirty, Sync(w, view, dirty), NEW s
  PROVE  LET u == WriteStatus(view, s) IN
         /\ Status(u) = s /\ u.merged = view.merged /\ u.marker = view.marker
         /\ Sync(w, u, dirty \cup {"manifest"})
<1> DEFINE u == WriteStatus(view, s)
<1>1. /\ Status(u) = s /\ u.merged = view.merged /\ u.marker = view.marker
      /\ u.upload = view.upload /\ u.clips = view.clips
  BY DEF WriteStatus, Trees, Manifests, Status
<1> HIDE DEF u
<1>2. Sync(w, u, dirty \cup {"manifest"})
  BY <1>1 DEF Sync
<1> QED BY <1>1, <1>2 DEF u

LEMMA RunReloads ==
  ASSUME LifeInv, NEW j \in Jobs, jpc[j] \in {"trained", "warmed", "except"},
         NEW view, NEW dirty, JobReload(j, view, dirty)
  PROVE  /\ Reloaded(j, volume, jview[j], acked, volume', view, dirty)
         /\ Status(jview[j]) = IF jpc[j] = "warmed" THEN "warming" ELSE "training"
         /\ dirty \subseteq jdirty[j]
<1> DEFINE v == volume
           t == jview[j]
           d == jdirty[j]
           w == volume'
<1>1. v \in Trees /\ t \in Trees /\ d \in SUBSET Files
  BY DEF LifeInv, TypeOK
<1>2. VolumeOK(v, acked) /\ OwnerOK(j, jpc[j], v, t, d, acked)
  BY DEF LifeInv, Owns, Untouched
<1>3. \/ view = t /\ dirty = d /\ w = v
      \/ view = Commit(v, t, d) /\ dirty = d /\ w = v
      \/ view = Commit(v, t, d) /\ dirty = {} /\ w = view
  BY DEF JobReload
<1> HIDE DEF v, t, d, w
<1>4. Status(t) = IF jpc[j] = "warmed" THEN "warming" ELSE "training"
  BY <1>2 DEF OwnerOK
<1>5. /\ InFlight(v) /\ v.merged \in {NoJob, j} /\ Sync(v, t, d) /\ (t.marker => acked # "none")
      /\ "marker" \notin d
      /\ \/ Status(t) = "training" /\ t.merged = NoJob /\ v.merged = NoJob
         \/ Status(t) = "warming" /\ t.merged = j
  <2>1. CASE jpc[j] = "warmed"
    BY <1>2, <2>1 DEF OwnerOK
  <2>2. CASE jpc[j] # "warmed"
    <3>1. Status(v) = "training" /\ Status(t) = "training" /\ t.merged = NoJob /\ d \subseteq {"clips"}
      BY <1>2, <2>2 DEF OwnerOK
    <3>2. v.merged = NoJob
      BY <1>2, <3>1 DEF VolumeOK, HasCheckpoint
    <3> QED BY <1>2, <2>2, <3>1, <3>2 DEF OwnerOK
  <2> QED BY <2>1, <2>2
<1>6. Reloaded(j, v, t, acked, w, view, dirty)
  BY <1>1, <1>2, <1>3, <1>5, OwnerReloads
<1>7. dirty \subseteq d
  BY <1>3
<1> QED BY <1>4, <1>6, <1>7 DEF v, t, d, w

(* The frame of a run's step that began with a reload.                     *)
LEMMA ReloadFrame ==
  ASSUME LifeInv, TypeOK', Calm', NEW j \in Jobs, Owns(j), NEW t,
         NEW view0, NEW dirty0, Reloaded(j, volume, t, acked, volume', view0, dirty0),
         NEW pc, NEW view, NEW dirty, JobMove(j, pc, view, dirty),
         UNCHANGED <<apiVars, engines, created, acked>>,
         pc \notin {"unused", "post_commit"},
         pc \notin {"post_check", "done", "crashed"}
           => OwnerOK(j, pc, volume', view, dirty, acked)
  PROVE  LifeInv'
<1>1. /\ VolumeOK(volume', acked)
      /\ acked = "none" /\ Resolves(volume) => Resolves(volume')
      /\ InFlight(volume')
  BY DEF Reloaded
<1>2. Status(volume') # "awaiting_dataset"
  BY <1>1 DEF InFlight, InFlightStatuses
<1>3. EnginesOK(volume', acked, engines')
  <2>1. EnginesOK(volume, acked, engines)
    BY DEF LifeInv, Untouched, Owns
  <2> QED BY <2>1 DEF Reloaded
<1> QED BY <1>1, <1>2, <1>3, OwnerFrame

LEMMA SavesKeeps ==
  ASSUME LifeInv, TypeOK', Calm', NEW j \in Jobs, JobSaves(j)
  PROVE  LifeInv'
<1> DEFINE w == volume'
<1>1. PICK view \in {jview[j], Commit(volume, jview[j], jdirty[j])}, dirty \in {jdirty[j], {}} :
        /\ JobReload(j, view, dirty)
        /\ IF DeletedMidRun(view)
             THEN JobDiscards(j, view, dirty)
             ELSE \/ JobMove(j, "warm_commit", WriteStatus(SaveCheckpoint(view, j), "warming"),
                             dirty \cup {"merged", "manifest"})
                  \/ JobMove(j, "except", view, dirty)
  BY DEF JobSaves
<1>2. /\ jpc[j] = "trained" /\ Owns(j) /\ UNCHANGED <<apiVars, engines, created, acked>>
  BY DEF JobSaves, Owns
<1>3. /\ Reloaded(j, volume, jview[j], acked, w, view, dirty) /\ Status(jview[j]) = "training"
      /\ dirty \subseteq jdirty[j]
  BY <1>1, <1>2, RunReloads
<1>4. Status(volume) = "training" /\ jdirty[j] \subseteq {"clips"} /\ jview[j].merged = NoJob
  BY <1>2 DEF LifeInv, OwnerOK
<1>5. /\ w \in Trees /\ view \in Trees /\ Sync(w, view, dirty) /\ (view.marker => acked # "none")
      /\ InFlight(w) /\ w.merged \in {NoJob, j} /\ Status(w) = "training"
      /\ Status(view) = "training" /\ view.merged = NoJob /\ dirty \subseteq {"clips"}
  BY <1>3, <1>4 DEF Reloaded
<1>6. CASE DeletedMidRun(view) /\ JobDiscards(j, view, dirty)
  <2>1. OwnerOK(j, "final_commit", w, NoVoice, dirty \cup FilesOf(view), acked)
    BY <1>3, <1>6, DiscardOK
  <2> QED BY <1>2, <1>3, <1>6, <2>1, ReloadFrame DEF JobDiscards
<1>7. CASE JobMove(j, "warm_commit", WriteStatus(SaveCheckpoint(view, j), "warming"),
                   dirty \cup {"merged", "manifest"})
  <2> DEFINE s == SaveCheckpoint(view, j)
             u == WriteStatus(s, "warming")
             e == dirty \cup {"merged", "manifest"}
  <2>1. /\ s \in Trees /\ s.manifest = view.manifest /\ s.upload = view.upload
        /\ s.clips = view.clips /\ s.merged = j /\ s.marker = view.marker
    BY <1>5 DEF SaveCheckpoint, Trees
  <2> HIDE DEF s
  <2>2. Sync(w, s, dirty \cup {"merged"})
    BY <1>5, <2>1 DEF Sync
  <2>3. /\ Status(u) = "warming" /\ u.merged = j /\ u.marker = view.marker
        /\ Sync(w, u, (dirty \cup {"merged"}) \cup {"manifest"})
    BY <1>5, <2>1, <2>2, WritesStatus
  <2>4. (dirty \cup {"merged"}) \cup {"manifest"} = e
    OBVIOUS
  <2>5. "marker" \notin e /\ "manifest" \in e /\ "merged" \in e
    BY <1>5
  <2> HIDE DEF u, e
  <2>6. OwnerOK(j, "warm_commit", w, u, e, acked)
    BY <1>5, <2>3, <2>4, <2>5 DEF OwnerOK
  <2>7. JobMove(j, "warm_commit", u, e)
    BY <1>7 DEF u, e, s
  <2> QED BY <1>2, <1>3, <2>6, <2>7, ReloadFrame
<1>8. CASE JobMove(j, "except", view, dirty)
  <2>1. OwnerOK(j, "except", w, view, dirty, acked)
    BY <1>5 DEF OwnerOK
  <2> QED BY <1>2, <1>3, <1>8, <2>1, ReloadFrame
<1> QED BY <1>1, <1>6, <1>7, <1>8

LEMMA ReadyKeeps ==
  ASSUME LifeInv, TypeOK', Calm', NEW j \in Jobs, JobReady(j)
  PROVE  LifeInv'
<1> DEFINE w == volume'
<1>1. PICK view \in {jview[j], Commit(volume, jview[j], jdirty[j])}, dirty \in {jdirty[j], {}} :
        /\ JobReload(j, view, dirty)
        /\ IF DeletedMidRun(view)
             THEN JobDiscards(j, view, dirty)
             ELSE JobMove(j, "final_commit", WriteStatus(view, "ready"), dirty \cup {"manifest"})
  BY DEF JobReady
<1>2. /\ jpc[j] = "warmed" /\ Owns(j) /\ UNCHANGED <<apiVars, engines, created, acked>>
  BY DEF JobReady, Owns
<1>3. /\ Reloaded(j, volume, jview[j], acked, w, view, dirty) /\ Status(jview[j]) = "warming"
      /\ dirty \subseteq jdirty[j]
  BY <1>1, <1>2, RunReloads
<1>4. jview[j].merged = j /\ "marker" \notin jdirty[j]
  BY <1>2 DEF LifeInv, OwnerOK
<1>5. CASE DeletedMidRun(view) /\ JobDiscards(j, view, dirty)
  <2>1. OwnerOK(j, "final_commit", w, NoVoice, dirty \cup FilesOf(view), acked)
    BY <1>3, <1>5, DiscardOK
  <2> QED BY <1>2, <1>3, <1>5, <2>1, ReloadFrame DEF JobDiscards
<1>6. CASE JobMove(j, "final_commit", WriteStatus(view, "ready"), dirty \cup {"manifest"})
  <2> DEFINE u == WriteStatus(view, "ready")
             e == dirty \cup {"manifest"}
  <2>1. Status(u) = "ready" /\ u.merged = j /\ u.marker = view.marker /\ Sync(w, u, e)
    BY <1>3, <1>4, WritesStatus DEF Reloaded
  <2>2. "marker" \notin e /\ "manifest" \in e
    BY <1>3, <1>4
  <2> HIDE DEF u, e
  <2>3. OwnerOK(j, "final_commit", w, u, e, acked)
    BY <1>3, <2>1, <2>2 DEF OwnerOK, Reloaded
  <2>4. JobMove(j, "final_commit", u, e)
    BY <1>6 DEF u, e
  <2> QED BY <1>2, <1>3, <2>3, <2>4, ReloadFrame
<1> QED BY <1>1, <1>5, <1>6

LEMMA FailedKeeps ==
  ASSUME LifeInv, TypeOK', Calm', NEW j \in Jobs, JobFailed(j)
  PROVE  LifeInv'
<1> DEFINE w == volume'
<1>1. PICK view \in {jview[j], Commit(volume, jview[j], jdirty[j])}, dirty \in {jdirty[j], {}} :
        /\ JobReload(j, view, dirty)
        /\ \/ DeletedMidRun(view) /\ JobDiscards(j, view, dirty)
           \/ JobMove(j, "final_commit", WriteStatus(view, "failed"), dirty \cup {"manifest"})
           \/ JobMove(j, "final_commit", view, dirty)
  BY DEF JobFailed
<1>2. /\ jpc[j] = "except" /\ Owns(j) /\ UNCHANGED <<apiVars, engines, created, acked>>
  BY DEF JobFailed, Owns
<1>3. /\ Reloaded(j, volume, jview[j], acked, w, view, dirty) /\ Status(jview[j]) = "training"
      /\ dirty \subseteq jdirty[j]
  BY <1>1, <1>2, RunReloads
<1>4. jview[j].merged = NoJob /\ jdirty[j] \subseteq {"clips"} /\ Status(volume) = "training"
  BY <1>2 DEF LifeInv, OwnerOK
<1>5. CASE DeletedMidRun(view) /\ JobDiscards(j, view, dirty)
  <2>1. OwnerOK(j, "final_commit", w, NoVoice, dirty \cup FilesOf(view), acked)
    BY <1>3, <1>5, DiscardOK
  <2> QED BY <1>2, <1>3, <1>5, <2>1, ReloadFrame DEF JobDiscards
<1>6. CASE JobMove(j, "final_commit", WriteStatus(view, "failed"), dirty \cup {"manifest"})
  <2> DEFINE u == WriteStatus(view, "failed")
             e == dirty \cup {"manifest"}
  <2>1. Status(u) = "failed" /\ u.merged = NoJob /\ u.marker = view.marker /\ Sync(w, u, e)
    BY <1>3, <1>4, WritesStatus DEF Reloaded
  <2>2. "marker" \notin e /\ "manifest" \in e
    BY <1>3, <1>4
  <2>3. w.merged = NoJob
    <3>1. Status(w) = "training" /\ VolumeOK(w, acked)
      BY <1>3, <1>4 DEF Reloaded
    <3> QED BY <3>1 DEF VolumeOK, HasCheckpoint
  <2> HIDE DEF u, e
  <2>4. OwnerOK(j, "final_commit", w, u, e, acked)
    BY <1>3, <2>1, <2>2, <2>3 DEF OwnerOK, Reloaded
  <2>5. JobMove(j, "final_commit", u, e)
    BY <1>6 DEF u, e
  <2> QED BY <1>2, <1>3, <2>4, <2>5, ReloadFrame
<1>7. CASE JobMove(j, "final_commit", view, dirty)
  <2>1. OwnerOK(j, "final_commit", w, view, dirty, acked)
    BY <1>3, <1>4 DEF OwnerOK, Reloaded
  <2> QED BY <1>2, <1>3, <1>7, <2>1, ReloadFrame
<1> QED BY <1>1, <1>5, <1>6, <1>7

(* What a run that owns the voice finds.                                   *)
LEMMA OwnerHas ==
  ASSUME LifeInv, NEW j \in Jobs, Owns(j)
  PROVE  /\ VolumeOK(volume, acked) /\ EnginesOK(volume, acked, engines)
         /\ OwnerOK(j, jpc[j], volume, jview[j], jdirty[j], acked)
         /\ volume \in Trees /\ jview[j] \in Trees /\ jdirty[j] \in SUBSET Files
         /\ Status(volume) # "awaiting_dataset" /\ created
<1>1. /\ OwnerOK(j, jpc[j], volume, jview[j], jdirty[j], acked) /\ created
      /\ VolumeOK(volume, acked) /\ EnginesOK(volume, acked, engines)
      /\ volume \in Trees /\ jview[j] \in Trees /\ jdirty[j] \in SUBSET Files
  BY DEF LifeInv, TypeOK, Owns, Untouched
<1>2. Status(volume) # "awaiting_dataset"
  BY <1>1 DEF OwnerOK, InFlight, InFlightStatuses
<1> QED BY <1>1, <1>2

(* A container that is killed, or that raises what nobody catches.         *)
LEMMA DiesKeeps ==
  ASSUME LifeInv, TypeOK', Calm', NEW j \in Jobs, Active(j), JobDies(j),
         UNCHANGED <<apiVars, engines, created, acked>>
  PROVE  LifeInv'
<1>1. JobMove(j, "crashed", NoVoice, {}) /\ volume' = volume
  BY DEF JobDies
<1>2. VolumeOK(volume, acked) /\ EnginesOK(volume, acked, engines)
      /\ \A c \in Api : ApiOK(apc[c], volume, aview[c], adirty[c], acked)
  BY DEF LifeInv, Untouched, Active
<1>3. ~ Owns(j)' /\ PostOK("crashed", volume, NoVoice, {}, acked)
  BY <1>1 DEF JobMove, LifeInv, TypeOK, Owns, PostOK
<1>4. engines' = engines /\ UNCHANGED <<apiVars, created, acked>>
  OBVIOUS
<1> QED BY <1>1, <1>2, <1>3, <1>4, JobFrame

(* A run's steps that leave the Volume alone.                              *)
LEMMA TrainKeeps ==
  ASSUME LifeInv, TypeOK', Calm', NEW j \in Jobs, JobStart(j) \/ JobTrains(j) \/ JobTrainingFails(j)
  PROVE  LifeInv'
<1>1. /\ Owns(j) /\ UNCHANGED <<volume, apiVars, engines, created, acked>>
      /\ jpc[j] \in {"queued", "prepare"}
  BY DEF JobStart, JobTrains, JobTrainingFails, JobDies, Owns
<1>2. /\ VolumeOK(volume, acked) /\ EnginesOK(volume, acked, engines)
      /\ OwnerOK(j, jpc[j], volume, jview[j], jdirty[j], acked)
      /\ volume \in Trees /\ jview[j] \in Trees /\ Status(volume) # "awaiting_dataset"
  BY <1>1, OwnerHas
<1>3. ASSUME NEW pc \in {"prepare", "trained", "except"}, NEW t \in Trees, NEW d,
             JobMove(j, pc, t, d), d \subseteq {"clips"}, pc = "prepare" => d = {},
             Sync(volume, t, d), Status(t) = "training", t.merged = NoJob,
             t.marker => acked # "none"
      PROVE  LifeInv'
  <2>1. OwnerOK(j, pc, volume, t, d, acked)
    BY <1>1, <1>2, <1>3 DEF OwnerOK
  <2>2. /\ volume' = volume /\ engines' = engines
        /\ UNCHANGED <<apiVars, created, acked>>
    BY <1>1
  <2> QED BY <1>1, <1>2, <1>3, <2>1, <2>2, OwnerFrame
<1>4. CASE JobStart(j) /\ ~ JobDies(j)
  <2>1. JobMove(j, "prepare", volume, {}) /\ Status(volume) = "training"
    BY <1>2, <1>4 DEF JobStart, OwnerOK
  <2>2. volume.merged = NoJob /\ (volume.marker => acked # "none")
    BY <1>2, <2>1 DEF VolumeOK, HasCheckpoint
  <2>3. Sync(volume, volume, {})
    BY DEF Sync
  <2> QED BY <1>2, <1>3, <2>1, <2>2, <2>3
<1>5. ASSUME jpc[j] = "prepare"
      PROVE  /\ jdirty[j] = {} /\ Sync(volume, jview[j], {}) /\ Status(jview[j]) = "training"
             /\ jview[j].merged = NoJob /\ (jview[j].marker => acked # "none")
  BY <1>2, <1>5 DEF OwnerOK
<1>6. ASSUME jpc[j] = "prepare", NEW b \in BOOLEAN
      PROVE  LET t == [jview[j] EXCEPT !.clips = b] IN
             /\ t \in Trees /\ Sync(volume, t, {"clips"}) /\ Status(t) = "training"
             /\ t.merged = NoJob /\ (t.marker => acked # "none")
  <2> DEFINE t == [jview[j] EXCEPT !.clips = b]
  <2>1. /\ t \in Trees /\ t.manifest = jview[j].manifest /\ t.upload = jview[j].upload
        /\ t.merged = jview[j].merged /\ t.marker = jview[j].marker
    BY <1>2 DEF Trees
  <2> HIDE DEF t
  <2>2. Sync(volume, t, {"clips"}) /\ Status(t) = "training"
    BY <1>5, <1>6, <2>1 DEF Sync, Status
  <2> QED BY <1>5, <1>6, <2>1, <2>2 DEF t
<1>7. CASE JobTrains(j)
  <2>1. JobMove(j, "trained", [jview[j] EXCEPT !.clips = TRUE], {"clips"}) /\ jpc[j] = "prepare"
    BY <1>7 DEF JobTrains
  <2> QED BY <1>3, <1>6, <2>1
<1>8. CASE JobTrainingFails(j)
  <2>1. /\ jpc[j] = "prepare"
        /\ \/ JobMove(j, "except", jview[j], {})
           \/ \E b \in BOOLEAN : JobMove(j, "except", [jview[j] EXCEPT !.clips = b], {"clips"})
    BY <1>8 DEF JobTrainingFails
  <2>2. CASE JobMove(j, "except", jview[j], {})
    BY <1>2, <1>3, <1>5, <2>1, <2>2
  <2>3. ASSUME NEW b \in BOOLEAN, JobMove(j, "except", [jview[j] EXCEPT !.clips = b], {"clips"})
        PROVE  LifeInv'
    BY <1>3, <1>6, <2>1, <2>3
  <2> QED BY <2>1, <2>2, <2>3
<1>9. CASE JobStart(j) /\ JobDies(j)
  BY <1>1, <1>9, DiesKeeps DEF Owns, Active
<1> QED BY <1>4, <1>7, <1>8, <1>9

LEMMA WarmKeeps ==
  ASSUME LifeInv, TypeOK', Calm', NEW j \in Jobs, JobWarmCommit(j) \/ JobWarmCall(j)
  PROVE  LifeInv'
<1> DEFINE v == volume
           t == jview[j]
           d == jdirty[j]
<1>1. Owns(j) /\ jpc[j] \in {"warm_commit", "warm_call"} /\ UNCHANGED <<apiVars, created, acked>>
  BY DEF JobWarmCommit, JobWarmCall, Owns
<1>2. /\ VolumeOK(v, acked) /\ EnginesOK(v, acked, engines) /\ OwnerOK(j, jpc[j], v, t, d, acked)
      /\ v \in Trees /\ t \in Trees /\ d \in SUBSET Files /\ Status(v) # "awaiting_dataset"
  BY <1>1, OwnerHas
<1>3. /\ InFlight(v) /\ v.merged \in {NoJob, j} /\ Sync(v, t, d) /\ (t.marker => acked # "none")
      /\ Status(t) = "warming" /\ t.merged = j /\ "marker" \notin d
      /\ ("manifest" \in d <=> "merged" \in d)
  BY <1>1, <1>2 DEF OwnerOK
<1>4. CASE JobWarmCommit(j) /\ JobMove(j, "warm_call", t, {}) /\ volume' = Commit(v, t, d)
  <2> DEFINE w == Commit(v, t, d)
  <2>1. Reloaded(j, v, t, acked, w, w, {})
    BY <1>2, <1>3, OwnerReloads
  <2>2. Sync(w, t, {})
    BY <1>2, <1>3, SyncedCommit
  <2>3. OwnerOK(j, "warm_call", w, t, {}, acked)
    BY <1>3, <2>1, <2>2 DEF OwnerOK, Reloaded
  <2>4. engines' = engines /\ volume' = w
    BY <1>4 DEF JobWarmCommit
  <2> HIDE DEF w, v, t, d
  <2> QED BY <1>1, <1>4, <2>1, <2>3, <2>4, ReloadFrame DEF v
<1>5. CASE JobMove(j, "warmed", t, d) /\ volume' = v /\ EnginesOK(v, acked, engines')
  <2>1. OwnerOK(j, "warmed", v, t, d, acked)
    BY <1>3 DEF OwnerOK
  <2> QED BY <1>1, <1>2, <1>5, <2>1, OwnerFrame
<1>6. CASE JobWarmCall(j)
  <2>1. /\ jpc[j] = "warm_call" /\ (EngineCall \/ UNCHANGED engines) /\ volume' = v
        /\ jpc' = [jpc EXCEPT ![j] = "warmed"] /\ jview' = jview /\ jdirty' = jdirty
    BY <1>6 DEF JobWarmCall
  <2>2. JobMove(j, "warmed", t, d)
    BY <2>1 DEF JobMove, LifeInv, TypeOK
  <2>3. d = {}
    BY <1>2, <2>1 DEF OwnerOK
  <2>4. Status(v) = "warming"
    BY <1>3, <2>3 DEF Sync, Status
  <2>5. Resolves(v) \/ acked # "none"
    BY <1>2, <2>4 DEF Resolves, IsDeleteRequested, VolumeOK
  <2>6. EnginesOK(v, acked, engines')
    BY <1>2, <2>1, <2>5, CallOK
  <2> QED BY <1>5, <2>1, <2>2, <2>6
<1>7. CASE JobWarmCommit(j) /\ JobMove(j, "warmed", t, d) /\ volume' = v
  BY <1>2, <1>5, <1>7 DEF JobWarmCommit
<1> QED BY <1>4, <1>6, <1>7 DEF JobWarmCommit

(* The trailing commit: the run's last word, on a voice that is its own.   *)
LEMMA FinalKeeps ==
  ASSUME LifeInv, TypeOK', Calm', NEW j \in Jobs, JobFinalCommit(j), ~ JobDies(j)
  PROVE  LifeInv'
<1> DEFINE v == volume
           t == jview[j]
           d == jdirty[j]
           w == Commit(v, t, d)
<1>1. /\ Owns(j) /\ UNCHANGED <<apiVars, engines, created, acked>> /\ jpc[j] = "final_commit"
      /\ volume' = w /\ JobMove(j, "post_check", t, {})
  BY DEF JobFinalCommit, Owns
<1>2. /\ VolumeOK(v, acked) /\ EnginesOK(v, acked, engines) /\ OwnerOK(j, jpc[j], v, t, d, acked)
      /\ v \in Trees /\ t \in Trees /\ d \in SUBSET Files
  BY <1>1, OwnerHas
<1>3. /\ InFlight(v) /\ v.merged \in {NoJob, j} /\ Sync(v, t, d)
      /\ \/ t = NoVoice /\ acked # "none"
         \/ Status(t) = "ready" /\ t.merged = j /\ "marker" \notin d
         \/ Status(t) = "failed" /\ t.merged = NoJob /\ v.merged = NoJob /\ "marker" \notin d
         \/ Status(t) = "training" /\ t.merged = NoJob /\ d \subseteq {"clips"}
  BY <1>1, <1>2 DEF OwnerOK
<1>4. Exists(v) /\ NoJob \notin Jobs
  BY <1>3, JobsAssumption DEF Exists, InFlight, InFlightStatuses, Status
<1> HIDE DEF v, t, d, w
<1>5. CASE t = NoVoice /\ acked # "none"
  <2>1. VolumeOK(w, acked) /\ EnginesOK(w, acked, engines) /\ ~ Exists(w)
    BY <1>2, <1>3, <1>5, Removed DEF w
  <2>2. Status(w) # "awaiting_dataset"
    BY <2>1 DEF Exists, Status
  <2> QED BY <1>1, <1>5, <2>1, <2>2, OwnerFrame
<1>6. CASE Status(t) \in {"ready", "failed"} /\ "marker" \notin d /\ t.merged \in {NoJob, j}
  <2>1. Status(w) = Status(t) /\ w.merged = t.merged /\ w.marker = v.marker
    BY <1>2, <1>3, <1>6, SyncedCommit DEF w
  <2>2. Exists(w) /\ (HasCheckpoint(w) <=> w.merged # NoJob)
    BY <1>3, <1>4, <1>6, <2>1, NoVoiceFields DEF Exists, HasCheckpoint, Status
  <2>3. VolumeOK(w, acked)
    BY <1>2, <1>4, <2>1, <2>2 DEF VolumeOK
  <2>4. EnginesOK(w, acked, engines)
    <3>1. ASSUME NEW e \in engines, e \in Jobs PROVE e = w.merged
      <4>1. e = v.merged
        BY <1>2, <1>4, <3>1 DEF EnginesOK
      <4>2. e = j
        BY <1>3, <1>4, <3>1, <4>1
      <4>3. Status(t) = "ready" /\ t.merged = j
        BY <1>3, <1>4, <1>6, <3>1, <4>1, NoVoiceFields
      <4> QED BY <2>1, <4>2, <4>3
    <3> QED BY <1>2, <3>1 DEF EnginesOK
  <2>5. ASSUME acked = "none", Resolves(v) PROVE Resolves(w)
    <3>1. HasCheckpoint(v) /\ ~ v.marker
      BY <2>5 DEF Resolves, HasCheckpoint, IsDeleteRequested
    <3>2. Status(t) = "ready"
      BY <1>2, <1>3, <1>6, <2>5, <3>1, NoVoiceFields DEF VolumeOK
    <3> QED BY <2>1, <3>1, <3>2 DEF Resolves, IsDeleteRequested
  <2>6. Status(w) # "awaiting_dataset"
    BY <1>6, <2>1
  <2>7. acked = "none" /\ Resolves(volume) => Resolves(volume')
    BY <1>1, <2>5 DEF v
  <2> QED BY <1>1, <2>3, <2>4, <2>6, <2>7, OwnerFrame
<1>7. CASE Status(t) = "training" /\ t.merged = NoJob /\ d \subseteq {"clips"}
  <2>1. /\ Status(w) = "training" /\ w.merged = NoJob /\ w.marker = v.marker
        /\ v.manifest = t.manifest /\ v.merged = NoJob
    BY <1>2, <1>3, <1>7, SyncedCommit DEF w, Sync
  <2>2. Status(v) = "training"
    BY <1>7, <2>1 DEF Status
  <2>3. VolumeOK(w, acked)
    BY <1>2, <2>1, <2>2 DEF VolumeOK, HasCheckpoint, Exists, Status
  <2>4. EnginesOK(w, acked, engines)
    BY <1>2, <1>4, <2>1 DEF EnginesOK
  <2>5. ~ Resolves(v)
    BY <2>2 DEF Resolves
  <2>6. acked = "none" /\ Resolves(volume) => Resolves(volume')
    BY <2>5 DEF v
  <2> QED BY <1>1, <2>1, <2>3, <2>4, <2>6, OwnerFrame
<1> QED BY <1>3, <1>5, <1>6, <1>7

(* A run that no longer owns the voice: its check after the commit, and    *)
(* the removal that the check may find to be owed.                         *)
LEMMA PostKeeps ==
  ASSUME LifeInv, TypeOK', Calm', NEW j \in Jobs, JobPostCheck(j) \/ JobPostCommit(j)
  PROVE  LifeInv'
<1> DEFINE v == volume
           d == jdirty[j]
           w == Commit(v, NoVoice, d)
<1>1. /\ Active(j) /\ ~ Owns(j) /\ UNCHANGED <<apiVars, engines, created, acked>>
      /\ jpc[j] \in {"post_check", "post_commit"}
  BY DEF JobPostCheck, JobPostCommit, Active, Owns
<1>2. /\ VolumeOK(v, acked) /\ EnginesOK(v, acked, engines)
      /\ PostOK(jpc[j], v, jview[j], d, acked)
      /\ v \in Trees /\ d \in SUBSET Files
      /\ \A c \in Api : /\ ApiOK(apc[c], v, aview[c], adirty[c], acked) /\ apc[c] \in ApiPcs
                        /\ apc[c] \notin {"commit_training", "spawn", "commit_rollback"}
  BY <1>1 DEF LifeInv, TypeOK, Untouched, Active
<1>3. ASSUME NEW pc \in {"done", "post_commit"}, NEW t, NEW e, JobMove(j, pc, t, e), volume' = v,
             PostOK(pc, v, t, e, acked)
      PROVE  LifeInv'
  <2>1. ~ Owns(j)'
    BY <1>3 DEF JobMove, LifeInv, TypeOK, Owns
  <2>2. \A c \in Api : ApiOK(apc[c], volume', aview[c], adirty[c], acked)
    BY <1>2, <1>3
  <2>3. VolumeOK(volume', acked) /\ EnginesOK(volume', acked, engines')
        /\ PostOK(pc, volume', t, e, acked)
    BY <1>1, <1>2, <1>3
  <2> QED BY <1>1, <1>3, <2>1, <2>2, <2>3, JobFrame
<1>4. CASE JobPostCheck(j)
  <2>1. volume' = v
    BY <1>4 DEF JobPostCheck
  <2>2. CASE IsDeleteRequested(v) /\ JobMove(j, "post_commit", NoVoice, FilesOf(v))
    <3>1. acked # "none"
      BY <1>2, <2>2 DEF VolumeOK, IsDeleteRequested
    <3>2. Sync(v, v, {}) /\ {} \in SUBSET Files /\ {} \cup FilesOf(v) = FilesOf(v)
      BY DEF Sync
    <3>3. Sync(v, NoVoice, {} \cup FilesOf(v))
      BY <1>2, <3>2, Discarded
    <3>4. PostOK("post_commit", v, NoVoice, FilesOf(v), acked)
      BY <3>1, <3>2, <3>3 DEF PostOK
    <3> QED BY <1>3, <2>1, <2>2, <3>4
  <2>3. ASSUME NEW t, JobMove(j, "done", t, {}) PROVE LifeInv'
    BY <1>3, <2>1, <2>3 DEF PostOK
  <2> QED BY <1>4, <2>2, <2>3 DEF JobPostCheck
<1>5. CASE JobPostCommit(j)
  <2>1. /\ jview[j] = NoVoice /\ Sync(v, NoVoice, d) /\ acked # "none"
        /\ JobMove(j, "done", NoVoice, {})
    BY <1>2, <1>5 DEF JobPostCommit, PostOK
  <2>2. CASE volume' = v
    BY <1>3, <2>1, <2>2 DEF PostOK
  <2>3. CASE volume' = w
    <3>1. /\ VolumeOK(w, acked) /\ EnginesOK(w, acked, engines)
          /\ ~ Exists(w) /\ \A e : Sync(w, NoVoice, e)
      BY <1>2, <2>1, Removed
    <3> HIDE DEF w
    <3>2. ~ InFlight(w) /\ Status(w) # "awaiting_dataset"
      BY <3>1 DEF Exists, InFlight, InFlightStatuses, Status
    <3>3. ASSUME NEW c \in Api PROVE ApiOK(apc[c], w, aview[c], adirty[c], acked)
      <4>1. apc[c] \in {"idle", "commit_delete", "commit_marker", "commit_pending", "engine"}
        BY <1>2, <2>1 DEF ApiOK, ApiPcs
      <4> QED BY <1>2, <2>1, <3>1, <3>2, <4>1 DEF ApiOK
    <3>4. ~ Owns(j)'
      BY <2>1 DEF JobMove, LifeInv, TypeOK, Owns
    <3>5. PostOK("done", w, NoVoice, {}, acked)
      BY DEF PostOK
    <3> QED BY <1>1, <2>1, <2>3, <3>1, <3>3, <3>4, <3>5, JobFrame
  <2> QED BY <1>5, <2>1, <2>2, <2>3 DEF JobPostCommit
<1> QED BY <1>4, <1>5

LEMMA LifeJobStep ==
  ASSUME LifeInv, TypeOK', Calm', NEW j \in Jobs, JobRuns(j) \/ JobCrash(j)
  PROVE  LifeInv'
<1>1. CASE JobCrash(j) \/ (JobFinalCommit(j) /\ JobDies(j))
  <2>1. Active(j) /\ JobDies(j) /\ UNCHANGED <<apiVars, engines, created, acked>>
    BY <1>1 DEF JobCrash, JobFinalCommit, Active
  <2> QED BY <2>1, DiesKeeps
<1> QED BY <1>1, TrainKeeps, SavesKeeps, WarmKeeps, ReadyKeeps, FailedKeeps, FinalKeeps, PostKeeps
        DEF JobRuns

LEMMA LifeInit == Init => LifeInv
<1> SUFFICES ASSUME Init PROVE LifeInv
  OBVIOUS
<1>1. TypeOK
  BY TypeInit
<1>2. /\ ~ created /\ Untouched /\ \A j \in Jobs : ~ Active(j) /\ ~ Owns(j) /\ jpc[j] = "unused"
      /\ \A c \in Api : apc[c] = "idle"
  BY DEF Init, Untouched, Active, Owns
<1>3. OneActive
  BY <1>2 DEF OneActive
<1>4. \A c \in Api : ApiOK(apc[c], volume, aview[c], adirty[c], acked)
  BY <1>2, IdleOK
<1>5. \A j \in Jobs : PostOK(jpc[j], volume, jview[j], jdirty[j], acked)
  BY <1>2 DEF PostOK
<1>6. Calm
  BY <1>2 DEF Init, Calm, Overlap, Late, Early, Changing, Claiming
<1> QED BY <1>1, <1>2, <1>3, <1>4, <1>5, <1>6 DEF LifeInv

(* Every step that crosses nothing keeps the invariant of the voice's life.*)
LEMMA LifeStep ==
  ASSUME LifeInv, [Next]_vars, crossed' = {}
  PROVE  LifeInv'
<1>1. TypeOK' /\ Calm'
  BY TypeStep, Remembered DEF LifeInv
<1>2. ASSUME NEW c \in Api, ApiStep(c) PROVE LifeInv'
  BY <1>1, <1>2, LifeApiStep
<1>3. ASSUME NEW j \in Jobs, JobRuns(j) \/ JobCrash(j) PROVE LifeInv'
  BY <1>1, <1>3, LifeJobStep
<1>4. ASSUME UNCHANGED <<volume, apiVars, jobVars, created, acked>>, engines' \subseteq engines
      PROVE  LifeInv'
  <2>1. UNCHANGED <<volume, apc, aview, adirty, jpc, jview, jdirty, created, acked>>
    BY <1>4 DEF apiVars, jobVars
  <2>2. OneActive' /\ \A j \in Jobs : (Active(j)' <=> Active(j)) /\ (Owns(j)' <=> Owns(j))
    BY <2>1 DEF LifeInv, OneActive, Active, Owns
  <2>3. EnginesOK(volume, acked, engines) => EnginesOK(volume', acked', engines')
    BY <1>4, <2>1 DEF EnginesOK
  <2>4. Untouched => Untouched'
    BY <1>4, <2>1 DEF Untouched
  <2> QED BY <1>1, <2>1, <2>2, <2>3, <2>4 DEF LifeInv
<1>5. CASE EngineScaledown
  BY <1>4, <1>5 DEF EngineScaledown
<1>6. CASE UNCHANGED vars
  BY <1>4, <1>6 DEF vars, serviceVars, apiVars, jobVars
<1> QED BY <1>2, <1>3, <1>5, <1>6 DEF Next, Step

-----------------------------------------------------------------------------
(* The voice as its owner sees it, read off its committed files.           *)
PhaseIn(v) == IF ~ Exists(v) THEN "gone" ELSE IF InFlight(v) THEN "training" ELSE Status(v)

LEMMA PhaseOf ==
  ASSUME LifeInv
  PROVE  /\ ~ created => Phase = "none" /\ acked = "none" /\ volume = NoVoice
         /\ created => Phase = PhaseIn(volume)
<1>1. CASE ~ created
  <2>1. volume = NoVoice /\ acked = "none"
    BY <1>1 DEF LifeInv, Untouched
  <2>2. Erased
    BY <2>1, NoVoiceType, GoneFields DEF Erased, Gone
  <2> QED BY <1>1, <2>1, <2>2 DEF Phase
<1>2. CASE created
  <2>1. volume \in Trees /\ (~ Exists(volume) => Erased)
    BY <1>2 DEF LifeInv, TypeOK, VolumeOK, Gone, Erased
  <2>2. Exists(volume) => ~ Erased
    BY <2>1, GoneFields, NoVoiceFields DEF Exists, Gone, Erased
  <2> QED BY <1>2, <2>1, <2>2 DEF Phase, PhaseIn
<1> QED BY <1>1, <1>2

LEMMA PhasePrimed ==
  ASSUME LifeInv'
  PROVE  created' => Phase' = PhaseIn(volume')
<1> SUFFICES ASSUME created' PROVE Phase' = PhaseIn(volume')
  OBVIOUS
<1>1. volume' \in Trees /\ (~ Exists(volume') => Erased')
  BY DEF LifeInv, TypeOK, VolumeOK, Gone, Erased
<1>2. Exists(volume') => ~ Erased'
  BY <1>1, GoneFields, NoVoiceFields DEF Exists, Gone, Erased
<1> QED BY <1>1, <1>2 DEF Phase, PhaseIn

(* A commit of an api request.                                             *)
LEMMA CommitAbstract ==
  ASSUME LifeInv, LifeInv', NEW c \in Api, ApiCommit(c)
  PROVE  [Lifecycle!Next]_<<Phase, acked>>
<1> DEFINE v == volume
           t == aview[c]
           d == adirty[c]
           w == Commit(v, t, d)
<1>1. /\ apc[c] \in {"commit_upload", "commit_training", "commit_rollback",
                     "commit_delete", "commit_marker", "commit_pending"}
      /\ created /\ created' /\ volume' = w
      /\ v \in Trees /\ t \in Trees /\ d \in SUBSET Files
      /\ VolumeOK(v, acked) /\ ApiOK(apc[c], v, t, d, acked)
      /\ acked \in {"none", "requested", "deleted"}
  BY DEF ApiCommit, LifeInv, TypeOK, Untouched
<1>2. /\ w.manifest = IF "manifest" \in d THEN t.manifest ELSE v.manifest
      /\ w \in Trees
  BY <1>1, CommitFields
<1> HIDE DEF w
<1>3. Phase = PhaseIn(v) /\ Phase' = PhaseIn(w)
  BY <1>1, PhaseOf, PhasePrimed
<1>4. CASE apc[c] = "commit_upload"
  <2>1. Status(w) = Status(v) /\ acked' = acked
    BY <1>1, <1>2, <1>4 DEF ApiOK, Status, ApiCommit
  <2> QED BY <1>3, <2>1 DEF PhaseIn, Exists, InFlight, Status
<1>5. CASE apc[c] = "commit_training"
  <2>1. /\ Status(w) = "training" /\ Status(v) \in CommittableStatuses
        /\ acked = "none" /\ acked' = acked
    BY <1>1, <1>2, <1>5 DEF ApiOK, Status, ApiCommit
  <2>2. Phase \in {"awaiting_dataset", "failed"} /\ Phase' = "training"
    BY <1>3, <2>1 DEF PhaseIn, Exists, InFlight, InFlightStatuses, Status, CommittableStatuses
  <2> QED BY <2>1, <2>2 DEF Lifecycle!Next, Lifecycle!Train
<1>6. CASE apc[c] = "commit_rollback"
  <2>1. /\ Status(w) = "awaiting_dataset" /\ Status(v) = "training"
        /\ acked = "none" /\ acked' = acked
    BY <1>1, <1>2, <1>6 DEF ApiOK, Status, ApiCommit
  <2>2. Phase = "training" /\ Phase' = "awaiting_dataset"
    BY <1>3, <2>1 DEF PhaseIn, Exists, InFlight, InFlightStatuses, Status
  <2> QED BY <2>1, <2>2 DEF Lifecycle!Next, Lifecycle!Settle
<1>7. CASE apc[c] \in {"commit_delete", "commit_pending"}
  <2>1. t = NoVoice /\ Sync(v, t, d) /\ ~ InFlight(v)
    BY <1>1, <1>7 DEF ApiOK
  <2>2. Status(w) = Status(NoVoice)
    BY <1>1, <2>1, SyncedCommit DEF w
  <2>3. Phase' = "gone"
    BY <1>3, <2>2, NoVoiceFields DEF PhaseIn, Exists, Status
  <2>4. Phase \notin {"none", "training"}
    BY <1>1, <1>3, <2>1 DEF PhaseIn, Exists, InFlight, InFlightStatuses, Status, Trees,
                            Manifests, Statuses
  <2>5. CASE apc[c] = "commit_delete"
    <3>1. acked' = "deleted"
      BY <2>5 DEF ApiCommit
    <3> QED BY <2>3, <2>4, <3>1 DEF Lifecycle!Next, Lifecycle!Delete
  <2>6. CASE apc[c] = "commit_pending"
    <3>1. acked' = acked /\ acked # "none"
      BY <1>1, <2>6 DEF ApiCommit, ApiOK
    <3>2. CASE acked = "deleted"
      <4>1. Phase = "gone"
        BY <1>1, <1>3, <3>2 DEF VolumeOK, PhaseIn
      <4> QED BY <2>3, <3>1, <4>1
    <3>3. CASE acked = "requested"
      BY <2>3, <3>1, <3>3 DEF Lifecycle!Next, Lifecycle!KeepPromise
    <3> QED BY <1>1, <3>1, <3>2, <3>3
  <2> QED BY <1>7, <2>5, <2>6
<1>8. CASE apc[c] = "commit_marker"
  <2>1. Status(w) = Status(v) /\ Status(v) # "awaiting_dataset" /\ acked' = "requested"
    BY <1>1, <1>2, <1>8 DEF ApiOK, Status, ApiCommit
  <2>2. Phase' = Phase
    BY <1>3, <2>1 DEF PhaseIn, Exists, InFlight, Status
  <2>3. Phase \in {"training", "ready", "failed", "gone"}
    BY <1>1, <1>3, <2>1 DEF PhaseIn, Exists, InFlight, InFlightStatuses, Status, Trees,
                            Manifests, Statuses
  <2> QED BY <2>1, <2>2, <2>3 DEF Lifecycle!Next, Lifecycle!PromiseDeletion
<1> QED BY <1>1, <1>4, <1>5, <1>6, <1>7, <1>8

(* A step of a run.                                                        *)
LEMMA RunAbstract ==
  ASSUME LifeInv, LifeInv', NEW j \in Jobs, JobRuns(j) \/ JobCrash(j)
  PROVE  [Lifecycle!Next]_<<Phase, acked>>
<1> DEFINE v == volume
           t == jview[j]
           d == jdirty[j]
<1>1. /\ jpc[j] \notin {"unused", "done", "crashed"} /\ acked' = acked /\ created' = created
  BY DEF JobRuns, JobStart, JobTrains, JobTrainingFails, JobSaves, JobWarmCommit, JobWarmCall,
         JobReady, JobFailed, JobFinalCommit, JobPostCheck, JobPostCommit, JobCrash, JobDies
<1>2. /\ created /\ created' /\ v \in Trees /\ t \in Trees /\ d \in SUBSET Files
      /\ VolumeOK(v, acked) /\ acked \in {"none", "requested", "deleted"}
      /\ Owns(j) => OwnerOK(j, jpc[j], v, t, d, acked)
      /\ PostOK(jpc[j], v, t, d, acked)
      /\ Owns(j)' => InFlight(volume')
  BY <1>1 DEF LifeInv, TypeOK, Untouched, OwnerOK
<1>3. Phase = PhaseIn(v) /\ Phase' = PhaseIn(volume')
  BY <1>2, PhaseOf, PhasePrimed
<1>4. CASE volume' = volume
  BY <1>1, <1>3, <1>4
<1>5. CASE Owns(j) /\ Owns(j)'
  <2>1. InFlight(v) /\ InFlight(volume')
    BY <1>2, <1>5 DEF OwnerOK
  <2>2. Phase = "training" /\ Phase' = "training"
    BY <1>3, <2>1 DEF PhaseIn, Exists, InFlight, InFlightStatuses, Status
  <2> QED BY <1>1, <2>2
<1>6. ASSUME Status(volume') = "absent", acked # "none"
      PROVE  [Lifecycle!Next]_<<Phase, acked>>
  <2>1. Phase' = "gone"
    BY <1>3, <1>6 DEF PhaseIn, Exists, Status
  <2>2. CASE acked = "deleted"
    <3>1. Phase = "gone"
      BY <1>2, <1>3, <2>2 DEF VolumeOK, PhaseIn
    <3> QED BY <1>1, <2>1, <3>1
  <2>3. CASE acked = "requested"
    BY <1>1, <2>1, <2>3 DEF Lifecycle!Next, Lifecycle!KeepPromise
  <2> QED BY <1>2, <1>6, <2>2, <2>3
<1>7. CASE JobFinalCommit(j) /\ ~ JobDies(j)
  <2>1. jpc[j] = "final_commit" /\ volume' = Commit(v, t, d) /\ Owns(j)
    BY <1>7 DEF JobFinalCommit, Owns
  <2>2. /\ Sync(v, t, d) /\ InFlight(v)
        /\ \/ t = NoVoice /\ acked # "none"
           \/ Status(t) \in {"ready", "failed", "training"}
    BY <1>2, <2>1 DEF OwnerOK
  <2>3. Status(volume') = Status(t)
    BY <1>2, <2>1, <2>2, SyncedCommit
  <2>4. CASE t = NoVoice /\ acked # "none"
    BY <1>6, <2>3, <2>4, NoVoiceFields
  <2>5. CASE Status(t) \in {"ready", "failed", "training"}
    <3>1. Phase = "training"
      BY <1>3, <2>2 DEF PhaseIn, Exists, InFlight, InFlightStatuses, Status
    <3>2. Phase' \in {"ready", "failed", "training"}
      BY <1>3, <2>3, <2>5 DEF PhaseIn, Exists, InFlight, InFlightStatuses, Status
    <3> QED BY <1>1, <3>1, <3>2 DEF Lifecycle!Next, Lifecycle!Settle
  <2> QED BY <2>2, <2>4, <2>5
<1>8. CASE JobPostCommit(j)
  <2>1. t = NoVoice /\ Sync(v, t, d) /\ acked # "none"
    BY <1>2, <1>8 DEF JobPostCommit, PostOK
  <2>2. CASE volume' = Commit(v, t, d)
    <3>1. Status(volume') = "absent"
      BY <1>2, <2>1, <2>2, SyncedCommit, NoVoiceFields
    <3> QED BY <1>6, <2>1, <3>1
  <2> QED BY <1>4, <1>8, <2>2 DEF JobPostCommit
<1>9. CASE JobSaves(j) \/ JobWarmCommit(j) \/ JobReady(j) \/ JobFailed(j)
  <2>1. Owns(j)
    BY <1>9 DEF JobSaves, JobWarmCommit, JobReady, JobFailed, Owns
  <2>2. Owns(j)'
    BY <1>9 DEF JobSaves, JobWarmCommit, JobReady, JobFailed, JobDiscards, JobMove, Owns,
                LifeInv, TypeOK
  <2> QED BY <1>5, <2>1, <2>2
<1>10. CASE \/ JobStart(j) \/ JobTrains(j) \/ JobTrainingFails(j) \/ JobWarmCall(j)
            \/ JobPostCheck(j) \/ JobCrash(j) \/ JobDies(j)
  <2>1. volume' = volume
    BY <1>10 DEF JobStart, JobTrains, JobTrainingFails, JobWarmCall, JobPostCheck, JobCrash, JobDies
  <2> QED BY <1>4, <2>1
<1> QED BY <1>7, <1>8, <1>9, <1>10 DEF JobRuns

LEMMA StepIsAbstract ==
  ASSUME LifeInv, LifeInv', [Next]_vars
  PROVE  [Lifecycle!Next]_<<Phase, acked>>
<1>1. ASSUME UNCHANGED <<volume, created, acked>> PROVE [Lifecycle!Next]_<<Phase, acked>>
  <2>1. Phase' = Phase
    BY <1>1 DEF Phase, Erased
  <2> QED BY <1>1, <2>1
<1>2. ASSUME NEW c \in Api, CreateVoice(c) PROVE [Lifecycle!Next]_<<Phase, acked>>
  <2> DEFINE t == [aview[c] EXCEPT !.manifest = Manifest("awaiting_dataset", FALSE)]
  <2>1. /\ ~ created /\ created' /\ acked' = acked /\ aview[c] \in Trees /\ volume \in Trees
        /\ volume' = Commit(volume, t, {"manifest"})
    BY <1>2 DEF CreateVoice, LifeInv, TypeOK
  <2>2. t \in Trees /\ t.manifest = Manifest("awaiting_dataset", FALSE)
    BY <2>1 DEF Trees, Manifest, Manifests, Statuses
  <2> HIDE DEF t
  <2>3. Status(volume') = "awaiting_dataset"
    BY <2>1, <2>2, CommitFields DEF Status, Manifest, Files
  <2>4. Phase = "none" /\ Phase' = "awaiting_dataset"
    BY <2>1, <2>3, PhaseOf, PhasePrimed DEF PhaseIn, Exists, InFlight, InFlightStatuses, Status
  <2> QED BY <2>1, <2>4 DEF Lifecycle!Next, Lifecycle!Create
<1>3. ASSUME NEW c \in Api, ApiStep(c), ~ CreateVoice(c), ~ ApiCommit(c)
      PROVE  UNCHANGED <<volume, created, acked>>
  BY <1>3 DEF ApiStep, UploadDataset, UploadBody, CommitDataset, SpawnTraining, SpawnFails,
              DeleteVoice, PollVoice, ApiCrash, SynthesizeVoice, SynthesizeText
<1>4. CASE EngineScaledown \/ UNCHANGED vars
  <2>1. UNCHANGED <<volume, created, acked>>
    BY <1>4 DEF EngineScaledown, vars, serviceVars
  <2> QED BY <1>1, <2>1
<1> QED BY <1>1, <1>2, <1>3, <1>4, CommitAbstract, RunAbstract DEF Next, Step

-----------------------------------------------------------------------------
(* The theorems hold of any number of web containers, runs and faults, and *)
(* of any requests: each says what holds until the first crossing.         *)
CalmInv == TypeOK /\ (crossed = {} => LifeInv)

LEMMA LifeHolds == Spec => []CalmInv
<1>1. Init => CalmInv
  BY LifeInit DEF LifeInv, CalmInv
<1>2. CalmInv /\ [Next]_vars => CalmInv'
  <2> SUFFICES ASSUME CalmInv, [Next]_vars PROVE CalmInv'
    OBVIOUS
  <2>1. TypeOK' /\ crossed \subseteq crossed'
    BY TypeStep, Remembered DEF CalmInv
  <2>2. crossed' = {} => LifeInv'
    BY <2>1, LifeStep DEF CalmInv
  <2> QED BY <2>1, <2>2 DEF CalmInv
<1> QED BY <1>1, <1>2, PTL DEF Spec

(* A GPU container never speaks with a checkpoint other than the voice's,  *)
(* and whatever resolve_voice_dir lets through has one.                    *)
THEOREM ServedCheckpoint == Spec => [](crossed = {} => EngineIsCurrent)
<1>1. LifeInv => EngineIsCurrent
  <2> SUFFICES ASSUME LifeInv PROVE EngineIsCurrent
    OBVIOUS
  <2>1. CASE ~ created
    BY <2>1, NoVoiceFields DEF LifeInv, Untouched, EngineIsCurrent, ResolvedHasCheckpoint, Resolves
  <2>2. CASE created
    BY <2>2 DEF LifeInv, EngineIsCurrent, ResolvedHasCheckpoint, Resolves, VolumeOK,
                HasCheckpoint, EnginesOK
  <2> QED BY <2>1, <2>2
<1>2. CalmInv => (crossed = {} => EngineIsCurrent)
  BY <1>1 DEF CalmInv
<1> QED BY <1>2, LifeHolds, PTL

(* No GPU container is poisoned while the customer wants the voice: the    *)
(* commit in warm_up() and the order of the run's writes see to it.        *)
THEOREM WarmUpIsSeen == Spec => [](crossed = {} => NoPoisonedEngine)
<1>1. CalmInv => (crossed = {} => NoPoisonedEngine)
  BY DEF CalmInv, LifeInv, Untouched, EnginesOK, NoPoisonedEngine
<1> QED BY <1>1, LifeHolds, PTL

(* Once a DELETE was answered, no new request of the customer reaches a    *)
(* GPU with the voice, also while a run goes on with it or was stranded:   *)
(* of each step, and of a behaviour that crosses nothing as a whole.       *)
THEOREM DeletedIsNotServed ==
  Spec => /\ [][(crossed = {})' => ServesNoDeleted]_vars
          /\ [](crossed = {}) => NotServedAfterDelete
<1>1. ASSUME LifeInv, [Next]_vars PROVE [ServesNoDeleted]_vars
  <2> SUFFICES ASSUME ~ UNCHANGED vars,
                      NEW c \in Api, apc[c] = "idle", apc'[c] = "engine"
               PROVE  acked = "none"
    BY DEF ServesNoDeleted
  <2>1. apc \in [Api -> ApiPcs]
    BY <1>1 DEF LifeInv, TypeOK
  <2>2. SynthesizeVoice(c)
    <3>1. ASSUME NEW j \in Jobs, JobRuns(j) \/ JobCrash(j) PROVE apc' = apc
      BY <3>1 DEF JobRuns, JobStart, JobTrains, JobTrainingFails, JobSaves, JobWarmCommit,
                  JobWarmCall, JobReady, JobFailed, JobFinalCommit, JobPostCheck, JobPostCommit,
                  JobCrash, apiVars
    <3>2. EngineScaledown => apc' = apc
      BY DEF EngineScaledown, apiVars
    <3>3. ASSUME NEW b \in Api, ApiStep(b), b # c PROVE apc'[c] = apc[c]
      BY <2>1, <3>3 DEF ApiStep, CreateVoice, UploadDataset, UploadBody, CommitDataset,
             SpawnTraining, SpawnFails, DeleteVoice, PollVoice, ApiCommit, ApiCrash,
             SynthesizeVoice, SynthesizeText, ApiMove, FinishDeletion, Refuse
    <3>4. ASSUME ApiStep(c), ~ SynthesizeVoice(c) PROVE FALSE
      BY <2>1, <3>4 DEF ApiStep, CreateVoice, UploadDataset, UploadBody, CommitDataset,
             SpawnTraining, SpawnFails, DeleteVoice, PollVoice, ApiCommit, ApiCrash,
             SynthesizeText, ApiMove, FinishDeletion, Refuse
    <3> QED BY <1>1, <3>1, <3>2, <3>3, <3>4 DEF Next, Step
  <2>3. created /\ Resolves(volume)
    BY <2>1, <2>2 DEF SynthesizeVoice, FinishDeletion, ApiMove
  <2>4. VolumeOK(volume, acked)
    BY <1>1, <2>3 DEF LifeInv
  <2> QED BY <2>3, <2>4 DEF VolumeOK, Resolves, IsDeleteRequested, Exists, Status
<1>2. CalmInv /\ [Next]_vars => [(crossed = {})' => ServesNoDeleted]_vars
  <2> SUFFICES ASSUME CalmInv, [Next]_vars, crossed' = {} PROVE [ServesNoDeleted]_vars
    OBVIOUS
  <2>1. LifeInv
    BY Remembered DEF CalmInv
  <2> QED BY <1>1, <2>1
<1>3. Spec => [][(crossed = {})' => ServesNoDeleted]_vars
  BY <1>2, LifeHolds, PTL DEF Spec
<1> QED BY <1>3, PTL DEF NotServedAfterDelete

(* The Volume, the web containers, the runs and the faults implement the   *)
(* life of a voice: each step does, and a behaviour that crosses nothing.  *)
THEOREM LifecycleIsKept ==
  Spec => /\ Lifecycle!Init
          /\ [][(crossed = {})' => [Lifecycle!Next]_<<Phase, acked>>]_vars
          /\ [](crossed = {}) => ImplementsLifecycle
<1>1. Init => Lifecycle!Init
  <2> SUFFICES ASSUME Init PROVE Lifecycle!Init
    OBVIOUS
  <2>1. Phase = "none" /\ acked = "none"
    BY LifeInit, PhaseOf DEF Init
  <2> QED BY <2>1 DEF Lifecycle!Init
<1>2. CalmInv /\ CalmInv' /\ [Next]_vars => ((crossed = {})' => [Lifecycle!Next]_<<Phase, acked>>)
  <2> SUFFICES ASSUME CalmInv, CalmInv', [Next]_vars, crossed' = {}
               PROVE  [Lifecycle!Next]_<<Phase, acked>>
    OBVIOUS
  <2>1. LifeInv /\ LifeInv'
    BY Remembered DEF CalmInv
  <2> QED BY <2>1, StepIsAbstract
<1> QED BY <1>1, <1>2, LifeHolds, PTL DEF Spec, ImplementsLifecycle, Lifecycle!Spec
=============================================================================
