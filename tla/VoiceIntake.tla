----------------------------- MODULE VoiceIntake -----------------------------
(***************************************************************************)
(* The Piper voice pipeline of voice-pipeline/intake.py and train_job.py:  *)
(* web containers that take a customer's dataset for one voice, start its  *)
(* training, deploy the result to the serving machine and delete it all.   *)
(* The status of the voice is which marker files exist on two Volumes.     *)
(* A container serves one request at a time and keeps its view of the      *)
(* Volumes from one request to the next; only some handlers reload.        *)
(***************************************************************************)
EXTENDS ModalVolume, Naturals, FiniteSets

CONSTANTS Webs,         \* the web containers
          Runs,         \* the training runs that may be spawned
          MaxRequests,  \* bound on the customer's requests
          MaxCrashes    \* bound on containers killed in a request or a run

ASSUME IntakeAssumption == MaxRequests \in Nat /\ MaxCrashes \in Nat

VARIABLES
  files,     \* the committed files of the voice, of both Volumes
  web,        \* [Webs -> where each container's request is]
  view,       \* [Webs -> its view of the files]
  parts,      \* [Webs -> the request joins uploaded parts]
  train,        \* [Runs -> where each training run is]
  trainer,    \* the view of the training container, if one is up
  serving,    \* the serving machine has the voice
  created, revoked,     \* what the customer was answered
  raced,    \* the DELETE met a request, a run or an older view
  requests, crashes

intakeVars == <<files, web, view, parts, train, trainer, serving, created, revoked, raced, requests, crashes>>

Datasets == {"consent.json", "metadata.csv", "part"}     \* metadata.csv with its clips
Models   == {"training.json", "error.json", "manifest.json", "deployed.json"}
Paths    == Datasets \cup Models
IntakeViews    == [Paths -> {NoFile, "file"}]
Nothing  == [f \in Paths |-> NoFile]

WebPcs == {"idle", "body", "part_body", "join_body", "commit_data", "commit_training", "spawn",
           "rollback_models", "rollback_data", "drop_parts", "put_serving", "commit_deployed",
           "serving_removed", "commit_data_gone", "commit_models_gone"}

IntakeTypeOK ==
  /\ files \in IntakeViews
  /\ web \in [Webs -> WebPcs] /\ view \in [Webs -> IntakeViews] /\ parts \in [Webs -> BOOLEAN]
  /\ train \in [Runs -> {"unused", "queued", "training", "over", "died"}]
  /\ trainer \in SUBSET IntakeViews /\ Cardinality(trainer) <= 1
  /\ {serving, created, revoked, raced} \subseteq BOOLEAN
  /\ requests \in 0 .. MaxRequests /\ crashes \in 0 .. MaxCrashes

IntakeInit ==
  /\ files = Nothing
  /\ web = [c \in Webs |-> "idle"] /\ view = [c \in Webs |-> Nothing]
  /\ parts = [c \in Webs |-> FALSE]
  /\ train = [r \in Runs |-> "unused"] /\ trainer = {}
  /\ serving = FALSE /\ created = FALSE /\ revoked = FALSE /\ raced = FALSE
  /\ requests = 0 /\ crashes = 0

Has(v, f)      == v[f] # NoFile
Put(v, fs)     == [f \in Paths |-> IF f \in fs THEN "file" ELSE v[f]]
Reload(c, fs)  == [f \in Paths |-> IF f \in fs THEN files[f] ELSE view[c][f]]
Training       == {r \in Runs : train[r] \in {"queued", "training"}}

(* status_of(), on a view whose models were reloaded.                      *)
StatusOf(v) == IF Has(v, "deployed.json") THEN "deployed"
               ELSE IF Has(v, "manifest.json") THEN "ready"
               ELSE IF Has(v, "error.json") THEN "rejected"
               ELSE IF Has(v, "training.json") THEN "training"
               ELSE IF Has(v, "consent.json") THEN "created" ELSE "unknown"

(* A request goes on at pc with this view; nothing is committed yet.       *)
Go(c, pc, v) == web' = [web EXCEPT ![c] = pc] /\ view' = [view EXCEPT ![c] = v]
rest == <<train, trainer, serving, created, revoked, raced, requests, crashes>>

Request(c) == web[c] = "idle" /\ requests < MaxRequests /\ requests' = requests + 1

(* For the DELETE to be final: nobody else is at work on the voice, nor     *)
(* sees it otherwise than it is, and no request begins until the answer.   *)
Overtaken(c) == Training # {} \/ view[c] # files \/ \E d \in Webs \ {c} : web[d] # "idle"
Deleting     == \E d \in Webs : web[d] \in {"serving_removed", "commit_models_gone"}

-----------------------------------------------------------------------------
(* POST /voices: the id is fresh, nobody else knows it.                    *)
CreateVoice(c) ==
  /\ Request(c) /\ ~ created
  /\ Go(c, "idle", Put(view[c], {"consent.json"}))
  /\ files' = Put(files, {"consent.json"})
  /\ created' = TRUE
  /\ UNCHANGED <<parts, train, trainer, serving, revoked, raced, crashes>>

(* upload_guard(): on the view as it is, before the body is awaited.       *)
UploadGuard(c) == Has(view[c], "consent.json") /\ ~ Has(view[c], "metadata.csv")

(* PUT .../dataset, PUT .../dataset/parts/n, POST .../dataset/commit.      *)
StartUpload(c) ==
  /\ Request(c) /\ created /\ UploadGuard(c)
  /\ \E pc \in {"body", "part_body", "join_body"} : Go(c, pc, view[c])
  /\ raced' = (raced \/ revoked \/ Deleting)
  /\ UNCHANGED <<files, parts, train, trainer, serving, created, revoked, crashes>>

(* put_part(): reload, write the part, commit.                             *)
PutPart(c) ==
  /\ web[c] = "part_body"
  /\ Go(c, "idle", Put(Reload(c, Datasets), {"part"}))
  /\ files' = Put(files, {"part"})
  /\ UNCHANGED <<parts, rest>>

(* commit_parts(): reload, refuse if parts are missing, join them.         *)
JoinParts(c) ==
  /\ web[c] = "join_body"
  /\ IF Has(files, "part")
       THEN Go(c, "body", Reload(c, Datasets)) /\ parts' = [parts EXCEPT ![c] = TRUE]
       ELSE Go(c, "idle", Reload(c, Datasets)) /\ UNCHANGED parts
  /\ UNCHANGED <<files, rest>>

(* The end of an upload: commit_parts() drops the parts in any case.       *)
EndUpload(c, v) == Go(c, IF parts[c] THEN "drop_parts" ELSE "idle",
                      IF parts[c] THEN Without(v, {"part"}) ELSE v)

(* ingest_zip(): refuse the archive, or write the clips and transcripts.   *)
Ingest(c) ==
  /\ web[c] = "body"
  /\ \/ EndUpload(c, view[c])
     \/ Go(c, "commit_data", Put(view[c], {"metadata.csv"}))
  /\ UNCHANGED <<files, parts, rest>>

CommitData(c) ==
  /\ web[c] = "commit_data"
  /\ files' = Commit(files, view[c], {"metadata.csv"})
  /\ Go(c, "commit_training", Put(view[c], {"training.json"}))
  /\ UNCHANGED <<parts, rest>>

CommitTraining(c) ==
  /\ web[c] = "commit_training"
  /\ files' = Commit(files, view[c], {"training.json"})
  /\ Go(c, "spawn", view[c])
  /\ UNCHANGED <<parts, rest>>

SpawnTraining(c) ==
  /\ web[c] = "spawn"
  /\ \E r \in Runs : train[r] = "unused" /\ train' = [train EXCEPT ![r] = "queued"]
  /\ EndUpload(c, view[c])
  /\ UNCHANGED <<files, parts, trainer, serving, created, revoked, raced, requests, crashes>>

(* The spawn raised: remove training.json, then the dataset.               *)
SpawnFails(c) ==
  /\ web[c] = "spawn"
  /\ Go(c, "rollback_models", Without(view[c], {"training.json"}))
  /\ UNCHANGED <<files, parts, rest>>

RollbackModels_Skipped(c) ==
  /\ web[c] = "rollback_models"
  /\ Go(c, "rollback_data", Without(view[c], {"metadata.csv"}))
  /\ UNCHANGED <<files, parts, rest>>

RollbackModels(c) ==
  /\ web[c] = "rollback_models"
  /\ files' = Commit(files, view[c], {"training.json"})
  /\ Go(c, "rollback_data", Without(view[c], {"metadata.csv"}))
  /\ UNCHANGED <<parts, rest>>

RollbackData(c) ==
  /\ web[c] = "rollback_data"
  /\ files' = Commit(files, view[c], {"metadata.csv"})
  /\ EndUpload(c, view[c])
  /\ UNCHANGED <<parts, rest>>

DropParts(c) ==
  /\ web[c] = "drop_parts"
  /\ files' = Commit(files, view[c], {"part"})
  /\ Go(c, "idle", view[c]) /\ parts' = [parts EXCEPT ![c] = FALSE]
  /\ UNCHANGED rest

-----------------------------------------------------------------------------
(* GET /voices/{id} reloads the models, GET /voices both Volumes.          *)
GetVoice(c) ==
  /\ Request(c) /\ created
  /\ \E fs \in {Models, Paths} : Go(c, "idle", Reload(c, fs))
  /\ UNCHANGED <<files, parts, train, trainer, serving, created, revoked, raced, crashes>>

(* POST .../deploy: status, consent, the archive of the model; then it is  *)
(* sent to the serving machine; then it is marked.                         *)
Deploy(c) ==
  LET v == Reload(c, Models) IN
  /\ Request(c) /\ created
  /\ StatusOf(v) \in {"ready", "deployed"} /\ Has(v, "consent.json") /\ Has(v, "manifest.json")
  /\ Go(c, "put_serving", v)
  /\ raced' = (raced \/ Deleting)
  /\ UNCHANGED <<files, parts, train, trainer, serving, created, revoked, crashes>>

PutServing(c) ==
  /\ web[c] = "put_serving"
  /\ \/ Go(c, "commit_deployed", Put(view[c], {"deployed.json"})) /\ serving' = TRUE
     \/ Go(c, "idle", view[c]) /\ UNCHANGED serving
  /\ UNCHANGED <<files, parts, train, trainer, created, revoked, raced, requests, crashes>>

CommitDeployed(c) ==
  /\ web[c] = "commit_deployed"
  /\ files' = Commit(files, view[c], {"deployed.json"})
  /\ Go(c, "idle", view[c])
  /\ UNCHANGED <<parts, rest>>

(* DELETE: from serving first; then what the view has of the two trees.    *)
DeleteVoice(c) ==
  /\ Request(c) /\ created
  /\ \/ /\ Go(c, "serving_removed", view[c]) /\ serving' = FALSE
        /\ raced' = (raced \/ Overtaken(c))
     \/ Go(c, "idle", view[c]) /\ UNCHANGED <<serving, raced>>
  /\ UNCHANGED <<files, parts, train, trainer, created, revoked, crashes>>

Rmtree(c) ==
  /\ web[c] = "serving_removed"
  /\ Go(c, "commit_models_gone", Without(view[c], Datasets))
  /\ files' = Commit(files, Nothing, Seen(view[c], Datasets))
  /\ raced' = (raced \/ Overtaken(c))
  /\ UNCHANGED <<parts, train, trainer, serving, created, revoked, requests, crashes>>

CommitModelsGone_ManifestStays(c) ==
  /\ web[c] = "commit_models_gone"
  /\ Go(c, "idle", Nothing)
  /\ files' = Commit(files, Nothing, Seen(view[c], Models \ {"manifest.json"}))
  /\ revoked' = TRUE /\ raced' = (raced \/ Overtaken(c))
  /\ UNCHANGED <<parts, train, trainer, serving, created, requests, crashes>>

(* ... and the DELETE is answered.                                         *)
CommitModelsGone(c) ==
  /\ web[c] = "commit_models_gone"
  /\ Go(c, "idle", Without(view[c], Models))
  /\ files' = Commit(files, Nothing, Seen(view[c], Models))
  /\ revoked' = TRUE /\ raced' = (raced \/ Overtaken(c))
  /\ UNCHANGED <<parts, train, trainer, serving, created, requests, crashes>>

-----------------------------------------------------------------------------
(* train_voice(): on the files of a new container, or those an idle one    *)
(* that is still up has.  Without a consent it rejects, without a dataset  *)
(* it raises.                                                              *)
TrainViews == {files} \cup (IF \E r \in Runs : train[r] = "training" THEN {} ELSE trainer)

BeginTraining(r) ==
  /\ train[r] = "queued"
  /\ \E v \in TrainViews :
       /\ trainer' = {v}
       /\ \/ /\ ~ Has(v, "consent.json")
             /\ files' = Put(files, {"error.json"}) /\ train' = [train EXCEPT ![r] = "over"]
          \/ /\ Has(v, "consent.json") /\ UNCHANGED files
             /\ train' = [train EXCEPT ![r] = IF Has(v, "metadata.csv") THEN "training" ELSE "died"]
  /\ UNCHANGED <<web, view, parts, serving, created, revoked, raced, requests, crashes>>

(* The gates, the minutes or the training itself reject the voice, or the  *)
(* model, its samples and its manifest are committed, or one of those      *)
(* steps raises, which only a SystemExit of the training survives.         *)
EndTraining(r) ==
  /\ train[r] = "training"
  /\ \/ /\ train' = [train EXCEPT ![r] = "over"]
        /\ \E f \in {"error.json", "manifest.json"} : files' = Put(files, {f})
     \/ train' = [train EXCEPT ![r] = "died"] /\ UNCHANGED files
  /\ UNCHANGED <<web, view, parts, trainer, serving, created, revoked, raced, requests, crashes>>

(* A container dies in a request or in a run, which nobody starts again.   *)
CrashWeb(c) ==
  /\ web[c] # "idle" /\ crashes < MaxCrashes
  /\ Go(c, "idle", files) /\ parts' = [parts EXCEPT ![c] = FALSE]
  /\ crashes' = crashes + 1
  /\ UNCHANGED <<files, train, trainer, serving, created, revoked, raced, requests>>

CrashRun(r) ==
  /\ train[r] = "training" /\ crashes < MaxCrashes
  /\ train' = [train EXCEPT ![r] = "died"] /\ trainer' = {}
  /\ crashes' = crashes + 1
  /\ UNCHANGED <<files, web, view, parts, serving, created, revoked, raced, requests>>

(* An idle container is scaled down; the next request starts a new one.    *)
ScaleDownIntake ==
  /\ \/ \E c \in Webs : web[c] = "idle" /\ Go(c, "idle", files) /\ UNCHANGED trainer
     \/ trainer' = {} /\ UNCHANGED <<web, view>>
  /\ UNCHANGED <<files, parts, train, serving, created, revoked, raced, requests, crashes>>

WebStep(c) == \/ PutPart(c) \/ JoinParts(c) \/ Ingest(c) \/ CommitData(c) \/ CommitTraining(c)
              \/ SpawnTraining(c) \/ SpawnFails(c) \/ RollbackModels(c) \/ RollbackData(c)
              \/ DropParts(c) \/ PutServing(c) \/ CommitDeployed(c) \/ Rmtree(c) \/ CommitModelsGone(c)

IntakeNext ==
  \/ \E c \in Webs : \/ CreateVoice(c) \/ StartUpload(c) \/ GetVoice(c) \/ Deploy(c) \/ DeleteVoice(c)
                     \/ WebStep(c) \/ CrashWeb(c)
  \/ \E r \in Runs : BeginTraining(r) \/ EndTraining(r) \/ CrashRun(r)
  \/ ScaleDownIntake

(* Handlers run to their end, Modal starts what is spawned, training ends. *)
IntakeFairness == /\ \A c \in Webs : WF_intakeVars(WebStep(c))
            /\ \A r \in Runs : WF_intakeVars(BeginTraining(r) \/ EndTraining(r))

-----------------------------------------------------------------------------
(* DELETE removes the voice from serving and deletes its data and model,   *)
(* and neither comes back, unless another request or a run was in flight,  *)
(* the container's view was older than the files, or an upload was let in  *)
(* on a view from before the DELETE.                                       *)
RevokedIsGone == revoked /\ ~ raced => files = Nothing /\ ~ serving

(* A voice that reads "training" is being trained: a run is in flight or   *)
(* about to be spawned, or is being rolled back; or a run died of an       *)
(* exception it does not record, or with its container, or a web container *)
(* was killed in a request: nothing in the code ends that "training".      *)
TrainingIsOwned ==
  /\ IntakeTypeOK
  /\ StatusOf(files) = "training" =>
       \/ Training # {} \/ crashes > 0 \/ raced
       \/ \E c \in Webs : web[c] \in {"spawn", "rollback_models"}
       \/ \E r \in Runs : train[r] = "died"

(* The customer sees the end of every training that nobody dies in.        *)
TrainingSettles ==
  (StatusOf(files) = "training") ~> (\/ StatusOf(files) # "training" \/ crashes > 0 \/ raced
                                         \/ \E r \in Runs : train[r] = "died")
=============================================================================
