---------------------------- MODULE RunpodAdapter ----------------------------
(***************************************************************************)
(* One client on gateway/runpod-adapter.js: every "synthesize" starts a    *)
(* job at RunPod and polls its stream in a loop of its own; "stop" and the *)
(* loops share two variables, cancelled and jobId.  The jobs are RunPod's. *)
(***************************************************************************)
EXTENDS Integers, Sequences

CONSTANTS MaxAsks, MaxChunks, MaxCancels  \* bounds on requests, on the audio of one, on cancels

ASSUME RunpodAssumption == {MaxAsks, MaxChunks, MaxCancels} \subseteq Nat

Asks == 1 .. MaxAsks

VARIABLES
  cancelled, jobId,  \* of the connection; jobId 0: null
  job,      \* [Asks -> the job that was started for each: status and outputs made]
  loop,     \* [Asks -> [pc, polled, seen]]: what the handler of each awaits
  sent,     \* [Asks -> the <<job, output>> its handler sent, in order]
  replied,  \* [Asks -> the last message of its handler]
  cancels,  \* cancels so far
  stopped,  \* the requests that were being served when a stop was read
  crossed   \* a request came while the handler of another was still at work

runpodVars == <<cancelled, jobId, job, loop, sent, replied, cancels, stopped, crossed>>

AtWork(r) == loop[r].pc \notin {"none", "over"}

RunpodInit ==
  /\ cancelled = FALSE /\ jobId = 0
  /\ job = [r \in Asks |-> [status |-> "none", outputs |-> 0]]
  /\ loop = [r \in Asks |-> [pc |-> "none", polled |-> 0, seen |-> 0]]
  /\ sent = [r \in Asks |-> <<>>] /\ replied = [r \in Asks |-> "none"]
  /\ cancels = 0 /\ stopped = {} /\ crossed = FALSE

HandlerOver(r, message) ==
  /\ loop' = [loop EXCEPT ![r].pc = "over"]
  /\ replied' = [replied EXCEPT ![r] = message]

\* the head of while (!cancelled): the next poll is of the job that is jobId then
LoopHead(r, id) ==
  IF cancelled THEN loop' = [loop EXCEPT ![r].pc = "over"]
  ELSE loop' = [loop EXCEPT ![r].pc = "stream", ![r].polled = id]

Synthesize(r) ==
  /\ loop[r].pc = "none" /\ \A q \in 1 .. r - 1 : loop[q].pc # "none"
  /\ cancelled' = FALSE
  /\ loop' = [loop EXCEPT ![r].pc = "run"]
  /\ crossed' = (crossed \/ \E q \in Asks : AtWork(q))
  /\ UNCHANGED <<jobId, job, sent, replied, cancels, stopped>>

Started(r) ==
  /\ loop[r].pc = "run"
  /\ jobId' = r /\ job' = [job EXCEPT ![r].status = "IN_PROGRESS"]
  /\ LoopHead(r, r)
  /\ UNCHANGED <<cancelled, sent, replied, cancels, stopped, crossed>>

\* a fetch that fails, or answers with an error, ends the handler
FetchRaises(r) ==
  /\ loop[r].pc \in {"run", "stream"} /\ HandlerOver(r, "error")
  /\ UNCHANGED <<cancelled, jobId, job, sent, cancels, stopped, crossed>>

NewOutputs(r) == [i \in 1 .. job[loop[r].polled].outputs - loop[r].seen |-> <<loop[r].polled, loop[r].seen + i>>]

\* the outputs are sent whether or not a stop was read meanwhile, then the status is looked at
Streamed(r) ==
  LET status == job[loop[r].polled].status
  IN /\ loop[r].pc = "stream"
     /\ sent' = [sent EXCEPT ![r] = @ \o NewOutputs(r)]
     /\ IF status = "IN_PROGRESS"
        THEN /\ loop' = [loop EXCEPT ![r].pc = "sleep", ![r].seen = @ + Len(NewOutputs(r))]
             /\ UNCHANGED replied
        ELSE HandlerOver(r, IF cancelled THEN "cancelled" ELSE IF status = "COMPLETED" THEN "done" ELSE "error")
     /\ UNCHANGED <<cancelled, jobId, job, cancels, stopped, crossed>>

Woken(r) ==
  /\ loop[r].pc = "sleep" /\ LoopHead(r, jobId)
  /\ UNCHANGED <<cancelled, jobId, job, sent, replied, cancels, stopped, crossed>>

\* "stop" cancels the job that is jobId; whether RunPod hears of it is open
CancelRunpod ==
  /\ cancels < MaxCancels
  /\ cancels' = cancels + 1 /\ cancelled' = TRUE
  /\ stopped' = stopped \cup {r \in Asks : AtWork(r)}
  /\ \/ UNCHANGED job
     \/ /\ jobId # 0 /\ job[jobId].status = "IN_PROGRESS"
        /\ job' = [job EXCEPT ![jobId].status = "CANCELLED"]
  /\ UNCHANGED <<jobId, loop, sent, replied, crossed>>

\* worker/handler.py under RunPod
MakeOutput(r) ==
  /\ job[r].status = "IN_PROGRESS" /\ job[r].outputs < MaxChunks
  /\ job' = [job EXCEPT ![r].outputs = @ + 1]
  /\ UNCHANGED <<cancelled, jobId, loop, sent, replied, cancels, stopped, crossed>>

EndJob(r) ==
  /\ job[r].status = "IN_PROGRESS"
  /\ \/ job' = [job EXCEPT ![r].status = "FAILED"]
     \/ job[r].outputs = MaxChunks /\ job' = [job EXCEPT ![r].status = "COMPLETED"]
  /\ UNCHANGED <<cancelled, jobId, loop, sent, replied, cancels, stopped, crossed>>

HandlerStep(r) == Started(r) \/ FetchRaises(r) \/ Streamed(r) \/ Woken(r)
RunpodNext == CancelRunpod \/ \E r \in Asks : Synthesize(r) \/ HandlerStep(r) \/ MakeOutput(r) \/ EndJob(r)
RunpodSpec == RunpodInit /\ [][RunpodNext]_runpodVars

-----------------------------------------------------------------------------
\* A client that asks when the last request is over hears of each its own audio, once
\* and in order, and "done" only after all of it and if it was not stopped.
RunpodFaithful ==
  ~ crossed => \A r \in Asks :
    /\ sent[r] = [i \in 1 .. Len(sent[r]) |-> <<r, i>>]
    /\ replied[r] = "done" => Len(sent[r]) = MaxChunks /\ r \notin stopped
    /\ replied[r] = "cancelled" => r \in stopped

\* Where it must come to rest when nothing more is asked (<>[]): a request nobody stopped
\* was answered.  (One that was stopped may end without a word.)
RunpodAnswers == \A r \in Asks : loop[r].pc # "none" => loop[r].pc = "over" /\ (replied[r] # "none" \/ r \in stopped)
=============================================================================
