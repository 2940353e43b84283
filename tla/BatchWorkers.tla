----------------------------- MODULE BatchWorkers ----------------------------
(***************************************************************************)
(* The workers that take a file and answer once: worker-stt-prod (POST     *)
(* /v1/stt with a deadline), worker-stt (the same without one) and         *)
(* worker-demucs-fly (POST /v1/isolate, with slots and a model that loads  *)
(* on first use).  Each has one model behind one lock, taken in threads    *)
(* that time out, fail or run long; what succeeds is reported.             *)
(***************************************************************************)
EXTENDS Naturals, FiniteSets

CONSTANTS BatchKinds,     \* the workers a behaviour may be of
          Uploads,        \* the requests
          MaxSeparations, \* MAX_CONNECTIONS of the demucs worker
          MaxReports      \* attempts of report_usage in worker-stt-prod

(* What the handlers differ in: a deadline, slots and a model that loads   *)
(* on first use, and a report that follows the answer and is tried again.  *)
SttProd == [deadline |-> TRUE, slots |-> FALSE, reportsLast |-> TRUE]
Stt     == [deadline |-> FALSE, slots |-> FALSE, reportsLast |-> FALSE]
Demucs  == [deadline |-> FALSE, slots |-> TRUE, reportsLast |-> FALSE]
WorkerOf == [stt_prod |-> SttProd, stt |-> Stt, demucs |-> Demucs]

ASSUME BatchAssumption == /\ BatchKinds \subseteq DOMAIN WorkerOf
                          /\ MaxSeparations \in Nat \ {0} /\ MaxReports \in Nat \ {0}

VARIABLES kind,       \* the worker of this behaviour
          upload,     \* [Uploads -> the coroutine of each request and its thread]
          lock,       \* who holds the model's lock: a request or nobody
          loaded,     \* the model is loaded (demucs: on first use)
          separating  \* _active of the demucs worker

batchVars == <<kind, upload, lock, loaded, separating>>

HasDeadline == WorkerOf[kind].deadline
HasSlot     == WorkerOf[kind].slots
ReportsLast == WorkerOf[kind].reportsLast

nobody == {}
Counted == {"model", "loading", "queued", "running", "settled", "failed"}    \* within a separation
Holds   == {"loading", "running"}

BatchTypeOK ==
  /\ kind \in BatchKinds /\ loaded \in BOOLEAN /\ separating \in 0 .. MaxSeparations
  /\ lock \subseteq Uploads
  /\ upload \in [Uploads -> [pc : Counted \cup {"new", "body", "decode", "admit", "reporting", "respond", "over"},
                             status : {0, 200, 400, 401, 413, 415, 499, 500, 503, 504},
                             late : BOOLEAN, done : BOOLEAN, tries : 0 .. MaxReports, charged : 0 .. MaxReports]]

BatchInit ==
  /\ kind \in BatchKinds /\ loaded = ~ HasSlot /\ separating = 0 /\ lock = nobody
  /\ upload = [r \in Uploads |-> [pc |-> "new", status |-> 0, late |-> FALSE, done |-> FALSE,
                                  tries |-> 0, charged |-> 0]]

Set(r, rec)     == upload' = [upload EXCEPT ![r] = rec]
Onto(r, pc)     == Set(r, [upload[r] EXCEPT !.pc = pc])
Refuse(r, code) == Set(r, [upload[r] EXCEPT !.pc = "over", !.status = code])
State(r, pc)    == upload[r].pc = pc

-----------------------------------------------------------------------------
(* The token; demucs also checks the stem and the file's name first.       *)
Authorize(r) ==
  /\ State(r, "new")
  /\ Onto(r, "body") \/ \E code \in {401} \cup (IF HasSlot THEN {400, 415} ELSE {}) : Refuse(r, code)
  /\ UNCHANGED <<kind, lock, loaded, separating>>

(* The upload, with its cap; the client may hang up in it.                 *)
ReadBody(r) ==
  /\ State(r, "body")
  /\ Onto(r, "decode") \/ \E code \in {400, 413, 499} : Refuse(r, code)
  /\ UNCHANGED <<kind, lock, loaded, separating>>

(* probe_and_decode(), decode(), decode_audio(): format, length, deadline. *)
DecodeAudio(r) ==
  /\ State(r, "decode")
  /\ \/ Onto(r, IF HasSlot THEN "admit" ELSE "queued")
     \/ \E code \in {400, 413} : Refuse(r, code)
     \/ HasDeadline /\ upload[r].late /\ Refuse(r, 504)
  /\ UNCHANGED <<kind, lock, loaded, separating>>

(* REQUEST_TIMEOUT_S have passed since the request came.                   *)
Deadline(r) ==
  /\ HasDeadline /\ ~ upload[r].late /\ upload[r].pc \in {"body", "decode", "queued", "running"}
  /\ Set(r, [upload[r] EXCEPT !.late = TRUE])
  /\ UNCHANGED <<kind, lock, loaded, separating>>

(* isolate(): a slot, under _active_lock.                                  *)
AdmitIsolate(r) ==
  /\ State(r, "admit")
  /\ IF separating >= MaxSeparations THEN Refuse(r, 503) /\ UNCHANGED separating
                                     ELSE Onto(r, "model") /\ separating' = separating + 1
  /\ UNCHANGED <<kind, lock, loaded>>

(* Separator.model: load it under the lock unless another thread has.      *)
WantModel(r) ==
  /\ State(r, "model")
  /\ \/ loaded /\ Onto(r, "queued") /\ UNCHANGED lock
     \/ ~ loaded /\ lock = nobody /\ lock' = {r} /\ Onto(r, "loading")
  /\ UNCHANGED <<kind, loaded, separating>>

HaveModel(r) ==
  /\ State(r, "loading") /\ lock' = nobody
  /\ \/ Onto(r, "queued") /\ loaded' = TRUE
     \/ ~ loaded /\ Onto(r, "failed") /\ UNCHANGED loaded
  /\ UNCHANGED <<kind, separating>>

-----------------------------------------------------------------------------
(* The lock: with the time that is left, or for as long as it takes.       *)
TakeLock(r) ==
  /\ State(r, "queued")
  /\ lock = nobody /\ lock' = {r} /\ Onto(r, "running")
  /\ UNCHANGED <<kind, loaded, separating>>

GiveUp(r) ==
  /\ State(r, "queued") /\ upload[r].late /\ lock # nobody /\ Refuse(r, 504)
  /\ UNCHANGED <<kind, lock, loaded, separating>>

TimeOut_KeepsLock(r) ==
  /\ State(r, "running") /\ upload[r].late
  /\ Refuse(r, 504)
  /\ UNCHANGED <<kind, lock, loaded, separating>>

(* The deadline is looked at between two batches of segments.              *)
TimeOut(r) ==
  /\ State(r, "running") /\ upload[r].late
  /\ lock' = nobody /\ Refuse(r, 504)
  /\ UNCHANGED <<kind, loaded, separating>>

(* transcribe(), separate(): the lock is released either way.              *)
Run(r) ==
  /\ State(r, "running") /\ lock' = nobody
  /\ \E ok \in BOOLEAN :
       Set(r, [upload[r] EXCEPT !.done = ok, !.pc = IF ok THEN "settled" ELSE "failed"])
  /\ UNCHANGED <<kind, loaded, separating>>

FailSeparation_KeepsSlot(r) ==
  /\ State(r, "failed") /\ Refuse(r, 500)
  /\ UNCHANGED <<kind, lock, loaded, separating>>

(* The finally of isolate(), and what FastAPI makes of an exception.       *)
FailSeparation(r) ==
  /\ State(r, "failed") /\ Refuse(r, 500)
  /\ separating' = IF HasSlot THEN separating - 1 ELSE separating
  /\ UNCHANGED <<kind, lock, loaded>>

(* worker-stt and demucs hand the report to a thread, then answer; demucs  *)
(* still has to encode the audio.  worker-stt-prod answers, and reports    *)
(* when the answer is sent; if the client is gone, never.                  *)
Settle(r) ==
  /\ State(r, "settled")
  /\ Onto(r, IF ReportsLast THEN "respond" ELSE "reporting")
  /\ separating' = IF HasSlot THEN separating - 1 ELSE separating
  /\ UNCHANGED <<kind, lock, loaded>>

Respond(r) ==
  /\ State(r, "respond")
  /\ \/ Set(r, [upload[r] EXCEPT !.status = 200, !.pc = IF ReportsLast THEN "reporting" ELSE "over"])
     \/ \E code \in {499} \cup (IF HasSlot THEN {500} ELSE {}) : Refuse(r, code)
  /\ UNCHANGED <<kind, lock, loaded, separating>>

(* report_usage(): the gateway counts it and its answer arrives, or not.   *)
Tries == IF ReportsLast THEN MaxReports ELSE 1
AfterReport(r) == IF ReportsLast THEN "over" ELSE "respond"

Report(r) ==
  /\ State(r, "reporting")
  /\ \E counted, answered \in BOOLEAN :
       Set(r, [upload[r] EXCEPT !.tries = @ + 1, !.charged = IF counted THEN @ + 1 ELSE @,
                 !.pc = IF (answered /\ counted) \/ upload[r].tries + 1 = Tries THEN AfterReport(r) ELSE @])
  /\ UNCHANGED <<kind, lock, loaded, separating>>

UploadStep(r) ==
  \/ Authorize(r) \/ ReadBody(r) \/ DecodeAudio(r) \/ AdmitIsolate(r) \/ WantModel(r) \/ HaveModel(r)
  \/ TakeLock(r) \/ GiveUp(r) \/ TimeOut(r) \/ Run(r) \/ FailSeparation(r) \/ Settle(r) \/ Respond(r) \/ Report(r)

BatchNext == \E r \in Uploads : UploadStep(r) \/ Deadline(r)

-----------------------------------------------------------------------------
(* The lock is held by exactly the request that is in the model, and the   *)
(* slots of the demucs worker are those of the separations under way:      *)
(* nothing that fails, times out or is refused keeps either.               *)
LockAndSlots ==
  /\ BatchTypeOK
  /\ lock = {r \in Uploads : upload[r].pc \in Holds} /\ Cardinality(lock) <= 1
  /\ HasSlot => separating = Cardinality({r \in Uploads : upload[r].pc \in Counted})

(* Only work that was done is charged, and more than once only by a retry  *)
(* whose predecessor was counted without the worker hearing of it; a       *)
(* worker that charges before it answers may charge for what it then does  *)
(* not deliver, worker-stt-prod may not.                                   *)
ChargedIsDone ==
  \A r \in Uploads : upload[r].charged > 0 =>
    /\ upload[r].done
    /\ upload[r].charged > 1 => ReportsLast
    /\ ReportsLast => upload[r].status = 200

(* Where it must come to rest (<>[]): every upload is answered, whatever   *)
(* the others do with the lock.                                            *)
UploadsEnd == \A r \in Uploads : upload[r].pc \in {"new", "over"}
=============================================================================
