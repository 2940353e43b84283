----------------------------- MODULE DubbingJobs -----------------------------
(***************************************************************************)
(* The dubbing job server (dubbing/job_server.py, jobs.py, pipeline.py):   *)
(* a POST records a job and hands it to a pool of threads, each of which   *)
(* takes a job through transcription, translation, speech and retiming;    *)
(* GETs are answered from the Job objects the threads write to, or, after  *)
(* a restart, from the status files the threads leave behind.              *)
(***************************************************************************)
EXTENDS Naturals, Sequences, FiniteSets

CONSTANTS DubJobs,          \* the jobs that may be posted
          MaxWorkers,       \* JobStore's max_workers
          MaxRestarts       \* bound on restarts of the process

ASSUME DubbingAssumption == MaxWorkers \in Nat \ {0} /\ MaxRestarts \in Nat

VARIABLES
  mem,        \* [DubJobs -> the Job object: status and whether it has its result]
  disk,       \* [DubJobs -> status.json]
  out,        \* [DubJobs -> out.wav is there]
  work,       \* [DubJobs -> where the thread that has the job is]
  stage,      \* [DubJobs -> stages of the pipeline gone through]
  queue,      \* jobs submitted to the executor, in order
  charged,    \* [DubJobs -> usage reports the gateway counted]
  got,        \* [DubJobs -> the answer to GET .../result]
  dubRestarts

dubVars == <<mem, disk, out, work, stage, queue, charged, got, dubRestarts>>

Job(s, r) == [status |-> s, result |-> r]
NoJob     == Job("none", FALSE)
Torn      == Job("torn", FALSE)      \* truncated, not written again yet: json.load raises
JobsOf    == [status : {"none", "torn", "queued", "running", "done", "error"}, result : BOOLEAN]
Busy      == {"starting", "piping", "settling", "settled", "failing", "closing"}
Writing   == {"posting", "starting", "closing"}    \* about to rewrite status.json
Stages    == <<"transcribe", "translate", "speak", "fit">>

DubTypeOK ==
  /\ mem \in [DubJobs -> JobsOf] /\ disk \in [DubJobs -> JobsOf]
  /\ out \in [DubJobs -> BOOLEAN]
  /\ work \in [DubJobs -> Busy \cup {"none", "authorizing", "refused", "authorized",
                              "posting", "queued", "over"}]
  /\ stage \in [DubJobs -> 0 .. Len(Stages)]
  /\ queue \in Seq(DubJobs)
  /\ charged \in [DubJobs -> 0 .. 1]
  /\ got \in [DubJobs -> {"none", "served", "gone"}]
  /\ dubRestarts \in 0 .. MaxRestarts

DubInit ==
  /\ mem = [j \in DubJobs |-> NoJob] /\ disk = mem
  /\ out = [j \in DubJobs |-> FALSE]
  /\ work = [j \in DubJobs |-> "none"]
  /\ stage = [j \in DubJobs |-> 0]
  /\ queue = <<>>
  /\ charged = [j \in DubJobs |-> 0]
  /\ got = [j \in DubJobs |-> "none"]
  /\ dubRestarts = 0

GoTo(j, pc)    == work' = [work EXCEPT ![j] = pc]
SetMem(j, job) == mem' = [mem EXCEPT ![j] = job]

(* What get() finds.                                                       *)
Visible(j) == IF mem[j] # NoJob THEN mem[j] ELSE disk[j]

-----------------------------------------------------------------------------
(* POST /dubbing/jobs: past the checks of the body, the gateway is asked.  *)
Ask(j) ==
  /\ work[j] = "none" /\ disk[j] = NoJob /\ GoTo(j, "authorizing")
  /\ UNCHANGED <<mem, disk, out, stage, queue, charged, got, dubRestarts>>

(* authorize(): the key is good, or whatever went wrong refuses the job.   *)
Authorize(j) ==
  /\ work[j] = "authorizing" /\ (GoTo(j, "authorized") \/ GoTo(j, "refused"))
  /\ UNCHANGED <<mem, disk, out, stage, queue, charged, got, dubRestarts>>

(* submit(): the job is in memory, then on disk, then with the executor.   *)
Post(j) ==
  /\ work[j] = "authorized" /\ GoTo(j, "posting") /\ SetMem(j, Job("queued", FALSE))
  /\ UNCHANGED <<disk, out, stage, queue, charged, got, dubRestarts>>

PostWrite(j) ==
  /\ work[j] = "posting" /\ GoTo(j, "queued")
  /\ disk' = [disk EXCEPT ![j] = mem[j]]
  /\ queue' = Append(queue, j)
  /\ UNCHANGED <<mem, out, stage, charged, got, dubRestarts>>

(* A thread is free: _run() takes the oldest job.                          *)
Take ==
  /\ queue # <<>> /\ Cardinality({j \in DubJobs : work[j] \in Busy}) < MaxWorkers
  /\ LET j == Head(queue) IN GoTo(j, "starting") /\ SetMem(j, Job("running", FALSE))
  /\ queue' = Tail(queue)
  /\ UNCHANGED <<disk, out, stage, charged, got, dubRestarts>>

(* The status file follows; a job that came as text skips transcription.   *)
StartWrite(j) ==
  /\ work[j] = "starting" /\ GoTo(j, "piping")
  /\ disk' = [disk EXCEPT ![j] = mem[j]]
  /\ \E skipped \in 0 .. 1 : stage' = [stage EXCEPT ![j] = skipped]
  /\ UNCHANGED <<mem, out, queue, charged, got, dubRestarts>>

(* pipeline.run(): stage after stage; the first that raises ends it.       *)
Stage(j, n, done) ==
  /\ work[j] = "piping" /\ Stages[stage[j] + 1] = n
  /\ \/ done /\ stage' = [stage EXCEPT ![j] = @ + 1]
     \/ GoTo(j, "failing") /\ UNCHANGED <<stage, out>>
  /\ UNCHANGED <<mem, disk, queue, charged, got, dubRestarts>>

(* SttClient: a token of ten minutes, then one request of at most five.    *)
Transcribe(j) == Stage(j, "transcribe", UNCHANGED <<work, out>>)

(* OpenRouterTranslator or the stub, which always raises: one request; an  *)
(* answer without a choice raises as much as a refusal does.               *)
Translate(j) == Stage(j, "translate", UNCHANGED <<work, out>>)

(* PiperGatewayTTS: authorize, then one request; NullTTS never fails.      *)
Speak(j) == Stage(j, "speak", UNCHANGED <<work, out>>)

(* fit_duration(), or a copy: out.wav is written.                          *)
Fit(j) == Stage(j, "fit", GoTo(j, "settling") /\ out' = [out EXCEPT ![j] = TRUE])

SettleStatus_WithResult(j) ==
  /\ work[j] = "settling" /\ GoTo(j, "closing") /\ SetMem(j, Job("done", FALSE))
  /\ UNCHANGED <<disk, out, stage, queue, charged, got, dubRestarts>>

(* The two assignments of the outcome are under the lock, their readers    *)
(* are not.                                                                *)
SettleStatus(j) ==
  /\ work[j] = "settling" /\ mem[j].status # "done" /\ SetMem(j, Job("done", FALSE))
  /\ UNCHANGED <<disk, out, work, stage, queue, charged, got, dubRestarts>>

SettleResult(j) ==
  /\ work[j] = "settling" /\ mem[j].status = "done"
  /\ GoTo(j, "settled") /\ SetMem(j, Job("done", TRUE))
  /\ UNCHANGED <<disk, out, stage, queue, charged, got, dubRestarts>>

(* report_usage(): counted or not, one try.  What urlopen raises while it  *)
(* reads the answer is none of the three errors it catches, and ends up in *)
(* the handler of a failed pipeline.                                       *)
Report(j) ==
  /\ work[j] = "settled"
  /\ \E counted \in 0 .. 1 : charged' = [charged EXCEPT ![j] = counted]
  /\ GoTo(j, "closing") \/ GoTo(j, "failing")
  /\ UNCHANGED <<mem, disk, out, stage, queue, got, dubRestarts>>

Fail_KillsThread(j) ==
  /\ work[j] = "failing" /\ GoTo(j, "over")
  /\ UNCHANGED <<mem, disk, out, stage, queue, charged, got, dubRestarts>>

Fail(j) ==
  /\ work[j] = "failing" /\ GoTo(j, "closing") /\ SetMem(j, [mem[j] EXCEPT !.status = "error"])
  /\ UNCHANGED <<disk, out, stage, queue, charged, got, dubRestarts>>

CloseWrite(j) ==
  /\ work[j] = "closing" /\ GoTo(j, "over")
  /\ disk' = [disk EXCEPT ![j] = mem[j]]
  /\ UNCHANGED <<mem, out, stage, queue, charged, got, dubRestarts>>

(* GET .../result of a job that reads done: the path is in the result.     *)
FetchDubbed(j) ==
  /\ got[j] = "none" /\ Visible(j).status = "done"
  /\ got' = [got EXCEPT ![j] = IF Visible(j).result /\ out[j] THEN "served" ELSE "gone"]
  /\ UNCHANGED <<mem, disk, out, work, stage, queue, charged, dubRestarts>>

(* What a crash may leave in the status file of a job.                     *)
RestartedDisk(j) == IF work[j] \in Writing THEN {disk[j], Torn} ELSE {disk[j]}

(* The process dies and starts again: threads, executor and memory go.     *)
RestartServer ==
  /\ dubRestarts < MaxRestarts
  /\ disk' \in [DubJobs -> JobsOf] /\ \A j \in DubJobs : disk'[j] \in RestartedDisk(j)
  /\ mem' = [j \in DubJobs |-> NoJob]
  /\ work' = [j \in DubJobs |-> IF work[j] = "none" THEN "none" ELSE "over"]
  /\ queue' = <<>>
  /\ dubRestarts' = dubRestarts + 1
  /\ UNCHANGED <<out, stage, charged, got>>

DubStep(j) ==
  Authorize(j) \/ Post(j) \/ PostWrite(j) \/ StartWrite(j) \/ Transcribe(j) \/ Translate(j) \/ Speak(j)
    \/ Fit(j) \/ SettleStatus(j) \/ SettleResult(j) \/ Report(j) \/ Fail(j) \/ CloseWrite(j)

DubNext == Take \/ RestartServer \/ \E j \in DubJobs : Ask(j) \/ DubStep(j) \/ FetchDubbed(j)

(* Threads run; a stage ends, its requests and ffmpeg having timeouts.     *)
DubFairness == WF_dubVars(Take) /\ \A j \in DubJobs : WF_dubVars(DubStep(j))

-----------------------------------------------------------------------------
(* A job that reads done has its result and its file, in memory or after a *)
(* restart, but for the moment between the two assignments; and the usage  *)
(* counted is that of jobs that went through every stage, once each, and   *)
(* read done, unless a restart came first or the report itself raised:     *)
(* then the job reads error, and keeps its result.                         *)
SettledAndServed ==
  /\ DubTypeOK
  /\ \A j \in DubJobs :
       /\ Visible(j).status = "done" => out[j] /\ (Visible(j).result \/ work[j] = "settling")
       /\ charged[j] = 1 => out[j] /\ stage[j] = Len(Stages)
                            /\ \/ Visible(j).status = "done"
                               \/ dubRestarts > 0 /\ work[j] = "over"
                               \/ Visible(j) = Job("error", TRUE)
       /\ Visible(j).result => out[j] /\ stage[j] = Len(Stages)

(* jobs.py: the usage report never fails the job itself.                   *)
ReportNeverFails == [][\A j \in DubJobs : mem[j].status = "done" => mem'[j].status # "error"]_dubVars

(* GET answers as JobPromise states it: forward only, but that a report    *)
(* that raises makes done an error, for good; and a restart shows nothing  *)
(* newer than what was shown before.                                       *)
DubPhase(j) == CASE Visible(j).status = "error" -> "failed"
                 [] Visible(j).status = "torn"  -> "none"
                 [] OTHER                       -> Visible(j).status
Word == INSTANCE JobPromise WITH PromisedJobs <- DubJobs, MayRetract <- TRUE,
                                 restarts <- dubRestarts, phase <- [j \in DubJobs |-> DubPhase(j)]
DubbingKeepsPromise == Word!Spec

(* A job that was posted comes to done or error, unless the process was    *)
(* restarted: no thread takes up what a status file says is running.       *)
DubbingSettles ==
  \A j \in DubJobs : (work[j] = "posting") ~> (Visible(j).status \in {"done", "error"} \/ dubRestarts > 0)
=============================================================================
