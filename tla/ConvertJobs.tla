----------------------------- MODULE ConvertJobs -----------------------------
(***************************************************************************)
(* The voice conversion jobs of voice-pipeline/convert_job.py: submit()    *)
(* stores the audio and job.json on a Volume and spawns run_conversion(),  *)
(* which rewrites job.json whole as it goes; status() and fetch_result()   *)
(* read, cleanup() removes the directory.  Each function runs in its own   *)
(* containers.  status and fetch_result reload, the others see the Volume  *)
(* as it was when their container started, and a container that is still   *)
(* up may be given the next call.                                          *)
(***************************************************************************)
EXTENDS ModalVolume, Naturals

CONSTANTS ConvJobs,     \* the jobs that may be submitted
          Gpus,         \* the containers of run_conversion
          MaxKills      \* bound on containers killed in a conversion (timeout, memory)

ASSUME ConvertAssumption == MaxKills \in Nat

VARIABLES
  volume,     \* the committed files of all jobs
  run,        \* [ConvJobs -> where each job's run is]
  gpu,        \* [Gpus -> [pc, job]]
  gview,      \* [Gpus -> the view of each container]
  janitor,    \* the cleanup container: what it is doing and its view
  told,       \* [ConvJobs -> the status the client was last told]
  fetched,    \* [ConvJobs -> how far the client is with the result]
  asked,      \* [ConvJobs -> its DELETE: no, answered]
  excused,    \* jobs whose DELETE was overtaken by a run or served from an old view
  kills

convertVars == <<volume, run, gpu, gview, janitor, told, fetched, asked, excused, kills>>

Statuses == {NoFile, "rejected", "queued", "processing", "failed", "done"}
Settled  == {"rejected", "failed", "done"}
InFlight == {"spawn", "spawned", "running"}
Files    == {"job.json", "audio", "result.wav"}
Dir(j)   == {j} \X Files           \* _job_dir
Empty    == [f \in ConvJobs \X Files |-> NoFile]
Views    == [ConvJobs \X Files -> Statuses \cup {"wav"}]
Idle     == [pc |-> "idle", job |-> "none"]
Cold     == [pc |-> "cold", job |-> "none"]

Status(v, j) == v[<<j, "job.json">>]

ConvertTypeOK ==
  /\ volume \in Views
  /\ run \in [ConvJobs -> InFlight \cup {"none", "rejected", "unspawned", "over", "died"}]
  /\ gpu \in [Gpus -> {Idle, Cold} \cup [pc : {"loaded", "converting"}, job : ConvJobs]]
  /\ gview \in [Gpus -> Views]
  /\ janitor.pc \in {"cold", "idle", "rmtree"} /\ janitor.view \in Views
  /\ told \in [ConvJobs -> Statuses]
  /\ fetched \in [ConvJobs -> {"no", "fetch", "served", "gone"}]
  /\ asked \in [ConvJobs -> {"no", "answered"}]
  /\ excused \subseteq ConvJobs /\ kills \in 0 .. MaxKills

ConvertInit ==
  /\ volume = Empty
  /\ run = [j \in ConvJobs |-> "none"]
  /\ gpu = [c \in Gpus |-> Cold]
  /\ gview = [c \in Gpus |-> Empty]
  /\ janitor = [pc |-> "cold", job |-> "none", view |-> Empty]
  /\ told = [j \in ConvJobs |-> NoFile]
  /\ fetched = [j \in ConvJobs |-> "no"]
  /\ asked = [j \in ConvJobs |-> "no"]
  /\ excused = {} /\ kills = 0

-----------------------------------------------------------------------------
(* POST /convert and submit(): the id is fresh, so all up to the commit is *)
(* one step.  _validate() refuses by a record of its own, audio included.  *)
Submit(j) ==
  /\ run[j] = "none"
  /\ \E s \in {"rejected", "queued"} :
       /\ volume' = [volume EXCEPT ![<<j, "audio">>] = "wav", ![<<j, "job.json">>] = s]
       /\ run' = [run EXCEPT ![j] = IF s = "queued" THEN "spawn" ELSE s]
       /\ told' = IF s = "rejected" THEN [told EXCEPT ![j] = s] ELSE told
  /\ UNCHANGED <<gpu, gview, janitor, fetched, asked, excused, kills>>

(* run_conversion.spawn(): a failure reaches the client as a 500 without   *)
(* the id of the job it leaves behind.                                     *)
Spawn(j) ==
  /\ run[j] = "spawn"
  /\ \/ run' = [run EXCEPT ![j] = "spawned"] /\ told' = [told EXCEPT ![j] = "queued"]
     \/ run' = [run EXCEPT ![j] = "unspawned"] /\ UNCHANGED told
  /\ UNCHANGED <<volume, gpu, gview, janitor, fetched, asked, excused, kills>>

(* A call starts on a container: one that is up keeps its view.            *)
StartView(c) == IF gpu[c] = Cold THEN volume ELSE gview[c]

Begin_Again(c, j) ==
  /\ gpu[c] \in {Idle, Cold} /\ run[j] \in {"spawned", "over"}
  /\ gview' = [gview EXCEPT ![c] = StartView(c)]
  /\ IF Status(StartView(c), j) = NoFile
       THEN gpu' = [gpu EXCEPT ![c] = Idle] /\ run' = [run EXCEPT ![j] = "died"]
       ELSE /\ gpu' = [gpu EXCEPT ![c] = [pc |-> "loaded", job |-> j]]
            /\ run' = [run EXCEPT ![j] = "running"]
  /\ UNCHANGED <<volume, janitor, told, fetched, asked, excused, kills>>

(* run_conversion() loads job.json, which raises if the view has none.     *)
Begin(c, j) ==
  /\ gpu[c] \in {Idle, Cold} /\ run[j] = "spawned"
  /\ gview' = [gview EXCEPT ![c] = StartView(c)]
  /\ IF Status(StartView(c), j) = NoFile
       THEN gpu' = [gpu EXCEPT ![c] = Idle] /\ run' = [run EXCEPT ![j] = "died"]
       ELSE /\ gpu' = [gpu EXCEPT ![c] = [pc |-> "loaded", job |-> j]]
            /\ run' = [run EXCEPT ![j] = "running"]
  /\ UNCHANGED <<volume, janitor, told, fetched, asked, excused, kills>>

(* Write these files of the job in the view and commit them.               *)
Write(c, view, dirty) == gview' = [gview EXCEPT ![c] = view] /\ volume' = Commit(volume, view, dirty)

CommitProcessing(c) ==
  LET j == gpu[c].job IN
  /\ gpu[c].pc = "loaded"
  /\ Write(c, [gview[c] EXCEPT ![<<j, "job.json">>] = "processing"], {<<j, "job.json">>})
  /\ gpu' = [gpu EXCEPT ![c].pc = "converting"]
  /\ UNCHANGED <<run, janitor, told, fetched, asked, excused, kills>>

(* inference.py has failed or left a wav, renamed to result.wav; the local *)
(* copy of the record is written back with the outcome.                    *)
Finish_NoRename(c) ==
  LET j == gpu[c].job IN
  /\ gpu[c].pc = "converting"
  /\ \E s \in {"failed", "done"} :
       Write(c, [gview[c] EXCEPT ![<<j, "job.json">>] = s], {<<j, "job.json">>})
  /\ gpu' = [gpu EXCEPT ![c] = Idle]
  /\ run' = [run EXCEPT ![j] = "over"]
  /\ UNCHANGED <<janitor, told, fetched, asked, excused, kills>>

Finish(c) ==
  LET j == gpu[c].job IN
  /\ gpu[c].pc = "converting"
  /\ \/ Write(c, [gview[c] EXCEPT ![<<j, "job.json">>] = "failed"], {<<j, "job.json">>})
     \/ Write(c, [gview[c] EXCEPT ![<<j, "job.json">>] = "done", ![<<j, "result.wav">>] = "wav"],
              {<<j, "job.json">>, <<j, "result.wav">>})
  /\ gpu' = [gpu EXCEPT ![c] = Idle]
  /\ run' = [run EXCEPT ![j] = "over"]
  /\ UNCHANGED <<janitor, told, fetched, asked, excused, kills>>

(* The container dies in a conversion; nothing starts the run again.       *)
Kill(c) ==
  /\ gpu[c].pc \in {"loaded", "converting"} /\ kills < MaxKills
  /\ gpu' = [gpu EXCEPT ![c] = Cold]
  /\ run' = [run EXCEPT ![gpu[c].job] = "died"]
  /\ kills' = kills + 1
  /\ UNCHANGED <<volume, gview, janitor, told, fetched, asked, excused>>

(* An idle container is scaled down.                                       *)
ScaleDown ==
  /\ \/ \E c \in Gpus : gpu[c] = Idle /\ gpu' = [gpu EXCEPT ![c] = Cold] /\ UNCHANGED janitor
     \/ janitor.pc = "idle" /\ janitor' = [janitor EXCEPT !.pc = "cold"] /\ UNCHANGED gpu
  /\ UNCHANGED <<volume, run, gview, told, fetched, asked, excused, kills>>

-----------------------------------------------------------------------------
(* GET /convert/{id}: status() reloads.                                    *)
Poll(j) ==
  /\ told[j] \notin {NoFile} \cup Settled /\ asked[j] = "no"
  /\ told' = [told EXCEPT ![j] = Status(volume, j)]
  /\ UNCHANGED <<volume, run, gpu, gview, janitor, fetched, asked, excused, kills>>

(* GET /convert/{id}/result: status() says done, then fetch_result().      *)
GetResult(j) ==
  /\ told[j] # NoFile /\ fetched[j] = "no" /\ Status(volume, j) = "done"
  /\ fetched' = [fetched EXCEPT ![j] = "fetch"]
  /\ UNCHANGED <<volume, run, gpu, gview, janitor, told, asked, excused, kills>>

FetchResult(j) ==
  /\ fetched[j] = "fetch"
  /\ fetched' = [fetched EXCEPT ![j] = IF volume[<<j, "result.wav">>] = "wav" THEN "served" ELSE "gone"]
  /\ UNCHANGED <<volume, run, gpu, gview, janitor, told, asked, excused, kills>>

(* DELETE /convert/{id}: cleanup() on a container that is up or a new one. *)
Delete(j) ==
  /\ told[j] # NoFile /\ asked[j] = "no" /\ janitor.pc # "rmtree"
  /\ janitor' = [pc |-> "rmtree", job |-> j,
                 view |-> IF janitor.pc = "cold" THEN volume ELSE janitor.view]
  /\ UNCHANGED <<volume, run, gpu, gview, told, fetched, asked, excused, kills>>

Cleanup_KeepsResult ==
  LET j == janitor.job  view == Without(janitor.view, Dir(j)) IN
  /\ janitor.pc = "rmtree"
  /\ volume' = Commit(volume, view, Seen(janitor.view, Dir(j)) \ {<<j, "result.wav">>})
  /\ janitor' = [pc |-> "idle", job |-> "none", view |-> view]
  /\ asked' = [asked EXCEPT ![j] = "answered"]
  /\ excused' = IF run[j] \in InFlight \/ \E f \in Dir(j) : janitor.view[f] # volume[f]
                  THEN excused \cup {j} ELSE excused
  /\ UNCHANGED <<run, gpu, gview, told, fetched, kills>>

Cleanup ==
  LET j == janitor.job  view == Without(janitor.view, Dir(j)) IN
  /\ janitor.pc = "rmtree"
  /\ volume' = Commit(volume, view, Seen(janitor.view, Dir(j)))
  /\ janitor' = [pc |-> "idle", job |-> "none", view |-> view]
  /\ asked' = [asked EXCEPT ![j] = "answered"]
  /\ excused' = IF run[j] \in InFlight \/ \E f \in Dir(j) : janitor.view[f] # volume[f]
                  THEN excused \cup {j} ELSE excused
  /\ UNCHANGED <<run, gpu, gview, told, fetched, kills>>

ConvertNext ==
  \/ \E j \in ConvJobs : \/ Submit(j) \/ Spawn(j) \/ Poll(j) \/ GetResult(j)
                         \/ FetchResult(j) \/ Delete(j)
  \/ \E c \in Gpus : CommitProcessing(c) \/ Finish(c) \/ Kill(c) \/ \E j \in ConvJobs : Begin(c, j)
  \/ Cleanup \/ ScaleDown

(* Modal starts what was spawned and inference.py ends, by itself or by    *)
(* its timeout; the client is not obliged to anything.                     *)
ConvertFairness ==
  /\ \A j \in ConvJobs : WF_convertVars(Spawn(j)) /\ WF_convertVars(\E c \in Gpus : Begin(c, j))
  /\ \A c \in Gpus : WF_convertVars(CommitProcessing(c)) /\ WF_convertVars(Finish(c))

-----------------------------------------------------------------------------
(* A record that says done is never without its result, whatever clean-ups *)
(* and older views did in between: GET .../result of a done job finds it   *)
(* unless somebody deleted the job between status() and fetch_result().    *)
DoneHasResult ==
  /\ ConvertTypeOK
  /\ \A j \in ConvJobs : /\ Status(volume, j) = "done" => volume[<<j, "result.wav">>] = "wav"
                         /\ fetched[j] = "gone" => asked[j] = "answered"

(* cleanup(): nothing of the job lingers after the answer, unless its run  *)
(* was in flight or the container had started before the files were there. *)
CleanedUp == \A j \in ConvJobs \ excused : asked[j] = "answered" => \A f \in Dir(j) : volume[f] = NoFile

(* The docstring's promise, without the exceptions.                        *)
CleanedUpAlways == \A j \in ConvJobs : asked[j] = "answered" => \A f \in Dir(j) : volume[f] = NoFile

(* The client's view of a job is the one JobPromise states: it only moves  *)
(* forward until a DELETE.                                                 *)
Phase(j) == IF asked[j] = "answered" THEN "gone"
            ELSE CASE Status(volume, j) = NoFile       -> "none"
                   [] Status(volume, j) = "processing" -> "running"
                   [] Status(volume, j) = "rejected"   -> "failed"
                   [] OTHER                            -> Status(volume, j)
Promise == INSTANCE JobPromise WITH PromisedJobs <- ConvJobs, MayRetract <- FALSE,
                                    restarts <- 0, phase <- [j \in ConvJobs |-> Phase(j)]
ConvertKeepsPromise == Promise!Spec

(* What was accepted comes to a result or a failure, unless its container  *)
(* died, found no record in an old view, or the job was deleted.           *)
ConvertSettles ==
  \A j \in ConvJobs : (run[j] = "spawn") ~>
     (Status(volume, j) \in Settled \/ run[j] \in {"died", "unspawned"} \/ asked[j] = "answered")
=============================================================================
