----------------------------- MODULE GpuScripts -----------------------------
(***************************************************************************)
(* The training and synthesis scripts that run on rented GPUs: a program   *)
(* is the sequence of its steps that touch files.  It runs in a container  *)
(* with its own view of the shared Volume and may die at any step; the     *)
(* process that launched it may die too, which cancels a call it blocks on *)
(* (.remote) and not one it spawned.  A file is known by its progress: 0   *)
(* absent, Whole complete, in between an extracted part of an archive or   *)
(* a checkpoint of a training that goes on.                                *)
(***************************************************************************)
EXTENDS Naturals, Sequences, FiniteSets, ModalVolume

CONSTANTS Containers, Whole, MaxLaunches, MaxFaults

ASSUME GpuAssumption == Whole \in Nat \ {0} /\ {MaxLaunches, MaxFaults} \subseteq Nat

SkipIf(f)        == [op |-> "skip_if", file |-> f]
Need(f)          == [op |-> "need", file |-> f]
Write(f)         == [op |-> "write", file |-> f]
Mark(f)          == [op |-> "copy", file |-> f, from |-> "image"]
Copy(f, from)    == [op |-> "copy", file |-> f, from |-> from]
\* resume: from its own last checkpoint; swallow: piper.train's exit is only printed
Fit(f, resume, swallow) == [op |-> "fit", file |-> f, resume |-> resume, swallow |-> swallow]
CommitStep       == [op |-> "commit"]
Reload           == [op |-> "reload"]
Deliver(f)       == [op |-> "deliver", file |-> f]

VolumeFiles == {"marker", "corpus", "matcha", "piper", "piper more", "lj small", "lj full",
                "lj small model", "lj full model", "es", "es model", "es result", "es sample"}
\* in the image from the start, or on the container's own disk
LocalFiles == {"image", "local", "local model"}

Script(blocking, committer, steps) == [blocking |-> blocking, committer |-> committer, steps |-> steps]

setup_corpus_volume ==
  Script(TRUE, FALSE, <<SkipIf("marker"), Write("corpus"), Mark("marker"), CommitStep>>)
run_pilot == Script(TRUE, FALSE, <<Fit("local", FALSE, FALSE), Deliver("local")>>)
run_kokoro_pilot == Script(TRUE, FALSE, <<Fit("local", FALSE, FALSE)>>)
run_piper_pilot == Script(TRUE, FALSE, <<Fit("local", FALSE, TRUE)>>)
kokoro_train_and_synthesize ==
  Script(TRUE, FALSE, <<Fit("local", FALSE, FALSE), Need("local"), Deliver("local")>>)
piper_train_and_synthesize ==
  Script(TRUE, FALSE, <<Fit("local", FALSE, TRUE), Copy("local model", "local"), Deliver("local model")>>)
run_full_finetune == Script(TRUE, FALSE, <<Need("corpus"), Fit("matcha", FALSE, FALSE), CommitStep>>)
synthesize_full_ft == Script(TRUE, FALSE, <<Need("matcha"), Deliver("matcha")>>)
synthesize_cpu == Script(TRUE, FALSE, <<Need("matcha"), Deliver("matcha")>>)
run_full_piper_finetune == Script(FALSE, FALSE, <<Need("corpus"), Fit("piper", FALSE, TRUE), CommitStep>>)
continue_piper_finetune ==
  Script(FALSE, FALSE, <<Need("corpus"), Need("piper"), Fit("piper more", FALSE, TRUE), CommitStep>>)
export_piper_full == Script(TRUE, FALSE, <<Copy("local model", "piper"), Deliver("local model")>>)
export_ljspeech == Script(TRUE, FALSE, <<Copy("local model", "image"), Deliver("local model")>>)
lj_run_all ==
  Script(FALSE, FALSE, <<Fit("lj small", FALSE, TRUE), CommitStep, Copy("lj small model", "lj small"),
    CommitStep, Fit("lj full", FALSE, TRUE), CommitStep, Copy("lj full model", "lj full"), CommitStep>>)
train_es_FromScratch ==
  Script(FALSE, TRUE, <<Fit("es", FALSE, TRUE), CommitStep, Copy("es model", "es"), CommitStep,
                        Copy("es result", "es model"), CommitStep>>)
train_es ==
  Script(FALSE, TRUE, <<Fit("es", TRUE, TRUE), CommitStep, Copy("es model", "es"), CommitStep,
                        Copy("es result", "es model"), CommitStep>>)
sample_es == Script(TRUE, FALSE, <<Reload, Copy("es sample", "es"), CommitStep>>)

Scripts == {setup_corpus_volume, run_pilot, run_kokoro_pilot, run_piper_pilot,
            kokoro_train_and_synthesize, piper_train_and_synthesize, run_full_finetune,
            synthesize_full_ft, synthesize_cpu, run_full_piper_finetune, continue_piper_finetune,
            export_piper_full, export_ljspeech, lj_run_all, train_es, sample_es}

VARIABLES
  gpuVolume,  \* [VolumeFiles -> progress], as committed
  gpuRun,     \* [Containers -> what runs there]
  saved,      \* progress of the models whose audio was saved on the operator's disk
  launches, gpuFaults

gpuVars == <<gpuVolume, gpuRun, saved, launches, gpuFaults>>

\* fitting: the training of the current step has begun in this container
NoRun == [script |-> Script(FALSE, FALSE, <<>>), at |-> 0, fitting |-> FALSE, client |-> FALSE,
          view |-> <<>>, dirty |-> {}]
Busy(c) == gpuRun[c] # NoRun

FreshView == [f \in VolumeFiles \cup LocalFiles |->
                CASE f \in VolumeFiles -> gpuVolume[f] [] f = "image" -> Whole [] OTHER -> 0]

GpuInit ==
  /\ gpuVolume = [f \in VolumeFiles |-> 0]
  /\ gpuRun = [c \in Containers |-> NoRun]
  /\ saved = {} /\ launches = 0 /\ gpuFaults = 0

\* one script at a time, as its operator starts them, but for the samples that
\* sample_es takes "while training continues"
Launch(c) ==
  /\ ~ Busy(c) /\ launches < MaxLaunches
  /\ launches' = launches + 1
  /\ \E s \in Scripts :
       /\ \A d \in Containers : Busy(d) => s = sample_es /\ gpuRun[d].script # s
       /\ gpuRun' = [gpuRun EXCEPT ![c] = [NoRun EXCEPT !.script = s, !.at = 1, !.client = TRUE,
                                                        !.view = FreshView]]
  /\ UNCHANGED <<gpuVolume, saved, gpuFaults>>

Now(c) == gpuRun[c].script.steps[gpuRun[c].at]
Advance(c, run) ==
  gpuRun' = [gpuRun EXCEPT ![c] = IF run.at < Len(run.script.steps)
                                  THEN [run EXCEPT !.at = @ + 1, !.fitting = FALSE] ELSE NoRun]
Raise(c) == gpuRun' = [gpuRun EXCEPT ![c] = NoRun]
Doing(c, op) == Busy(c) /\ Now(c).op = op
Put(c, f, progress) ==
  [gpuRun[c] EXCEPT !.view[f] = progress,
                    !.dirty = IF f \in VolumeFiles THEN @ \cup {f} ELSE @]

Check(c) ==
  /\ \/ Doing(c, "skip_if") /\ (IF gpuRun[c].view[Now(c).file] > 0 THEN Raise(c) ELSE Advance(c, gpuRun[c]))
     \/ Doing(c, "need") /\ (IF gpuRun[c].view[Now(c).file] = 0 THEN Raise(c) ELSE Advance(c, gpuRun[c]))
  /\ UNCHANGED <<gpuVolume, saved, launches, gpuFaults>>

\* one more member of the archive
WriteFile(c) ==
  /\ Doing(c, "write")
  /\ LET f == Now(c).file   p == gpuRun[c].view[f] + 1 IN
       IF p < Whole THEN gpuRun' = [gpuRun EXCEPT ![c] = Put(c, f, p)]
       ELSE Advance(c, Put(c, f, Whole))
  /\ UNCHANGED <<gpuVolume, saved, launches, gpuFaults>>

\* an export of the newest checkpoint, or the marker: raises if there is none
CopyFile(c) ==
  /\ Doing(c, "copy")
  /\ IF gpuRun[c].view[Now(c).from] = 0 THEN Raise(c)
     ELSE Advance(c, Put(c, Now(c).file, gpuRun[c].view[Now(c).from]))
  /\ UNCHANGED <<gpuVolume, saved, launches, gpuFaults>>

\* the training starts (from its own checkpoint, or anew), goes on to the next
\* checkpoint, or exits with an error
FitModel(c) ==
  /\ Doing(c, "fit")
  /\ LET f == Now(c).file
         p == IF gpuRun[c].fitting \/ Now(c).resume THEN gpuRun[c].view[f] ELSE 0
     IN \/ p < Whole /\ gpuRun' = [gpuRun EXCEPT ![c] = [Put(c, f, p + 1) EXCEPT !.fitting = TRUE]]
        \/ p = Whole /\ Advance(c, gpuRun[c])
        \/ p < Whole /\ (IF Now(c).swallow THEN Advance(c, gpuRun[c]) ELSE Raise(c))
  /\ UNCHANGED <<gpuVolume, saved, launches, gpuFaults>>

Committed(c) == Commit(gpuVolume, gpuRun[c].view, gpuRun[c].dirty)

CommitFiles(c) ==
  /\ Doing(c, "commit")
  /\ gpuVolume' = Committed(c)
  /\ Advance(c, [gpuRun[c] EXCEPT !.dirty = {}])
  /\ UNCHANGED <<saved, launches, gpuFaults>>

ReloadFiles(c) ==
  /\ Doing(c, "reload")
  /\ Advance(c, [gpuRun[c] EXCEPT !.view = FreshView])
  /\ UNCHANGED <<gpuVolume, saved, launches, gpuFaults>>

\* the function returns its audio; whoever waits for it writes the files
DeliverAudio(c) ==
  /\ Doing(c, "deliver")
  /\ saved' = IF gpuRun[c].client THEN saved \cup {gpuRun[c].view[Now(c).file]} ELSE saved
  /\ Raise(c)
  /\ UNCHANGED <<gpuVolume, launches, gpuFaults>>

\* train_es commits on a thread of its own; Modal may write a Volume back as well
CommitInBackground(c) ==
  /\ Busy(c) /\ gpuRun[c].dirty # {}
  /\ gpuVolume' = Committed(c)
  /\ gpuRun' = [gpuRun EXCEPT ![c].dirty = {}]
  /\ UNCHANGED <<saved, launches, gpuFaults>>

ContainerDies(c) ==
  /\ Busy(c) /\ gpuFaults < MaxFaults
  /\ gpuFaults' = gpuFaults + 1
  /\ Raise(c)
  /\ UNCHANGED <<gpuVolume, saved, launches>>

ClientDies(c) ==
  /\ Busy(c) /\ gpuRun[c].client /\ gpuFaults < MaxFaults
  /\ gpuFaults' = gpuFaults + 1
  /\ IF gpuRun[c].script.blocking THEN Raise(c)
     ELSE gpuRun' = [gpuRun EXCEPT ![c].client = FALSE]
  /\ UNCHANGED <<gpuVolume, saved, launches>>

ScriptStep(c) == \/ Check(c) \/ WriteFile(c) \/ CopyFile(c) \/ FitModel(c) \/ CommitFiles(c)
                 \/ ReloadFiles(c) \/ DeliverAudio(c)
GpuNext == \E c \in Containers : \/ Launch(c) \/ ScriptStep(c) \/ CommitInBackground(c)
                                 \/ ContainerDies(c) \/ ClientDies(c)
GpuFairness == \A c \in Containers : WF_gpuVars(ScriptStep(c))

-----------------------------------------------------------------------------
GpuTypeOK ==
  /\ gpuVolume \in [VolumeFiles -> 0 .. Whole]
  /\ \A c \in Containers : Busy(c) => gpuRun[c].at \in DOMAIN gpuRun[c].script.steps

\* Who finds the marker finds the whole corpus, whenever the container died that
\* extracted it (setup_corpus_volume is "idempotent").
MarkerMeansCorpus == gpuVolume["marker"] > 0 => gpuVolume["corpus"] = Whole

\* A model on the Volume was exported from a checkpoint at least as far as it, and
\* the result file names a model that is there.
ExportsAgree ==
  /\ gpuVolume["es model"] <= gpuVolume["es"] /\ gpuVolume["es sample"] <= gpuVolume["es"]
  /\ gpuVolume["es result"] > 0 => gpuVolume["es model"] > 0
  /\ 0 \notin saved

GpuArtifacts == GpuTypeOK /\ MarkerMeansCorpus /\ ExportsAgree

\* The Spanish run's checkpoint never gets older ("so a crash never loses checkpoints").
CheckpointKept == [][gpuVolume'["es"] >= gpuVolume["es"]]_gpuVars

\* Every run ends, whether or not its client is still there.
RunsEnd == \A c \in Containers : Busy(c) ~> ~ Busy(c)
=============================================================================
