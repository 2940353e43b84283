# realtime-tts: specifications, model checking and proofs

TLA+ modules for the parts of this repository whose correctness depends on the
order in which things happen: voice cloning around a Modal Volume, metering
between the gateway and the workers, the voice cache of a Piper worker, the
sessions of the workers that speak and listen, the job services that work in the
background, the turn engine of the phone-call application, and the scripts whose
files the others rely on; and for the pure computations in between, chunking,
companding, retiming, gates, tokens.  Each module is translated from the code;
TLC checks it on small instances and TLAPS proves the main results for all
values of the constants.  `PROJECT.json` maps every definition to the lines it
stands for, and lists the runs, the hazards and the theorems.

    tlasany M.tla                 parse a module
    tlc -config X.cfg M           one run (module and configuration: see "Runs")
    tlapm OrpheusCloneProofs.tla  check the proofs of a module

## 1. The system

| Component | Where | State it keeps | Operations | What is hard | What makes it correct |
|---|---|---|---|---|---|
| Orpheus voice cloning | `voice-pipeline/orpheus_clone_prod/` | per voice: `manifest.json`, `upload.zip`, clips, `merged/`, a delete marker, on a Modal Volume; GPU containers cache a checkpoint | create, upload, commit (spawns a run), poll, delete, synthesize; the training run | each container sees a snapshot of the Volume; last commit of a file wins; a delete may arrive at any point of a run; containers are killed | nothing served without a checkpoint; a deleted voice is never served and never comes back; one run at a time; a deletion completes |
| API keys, metering | `gateway/keys.js` | `keys.json`: four counters, the free allowance, `exhausted`, `billing`, `revoked` | issue, revoke, switch billing, check access, record usage, drain | gates and charges are far apart; the meter is chosen when usage is recorded | every unit served is in exactly one meter once; the flag agrees with the allowance |
| Gateway: admission, relay | `gateway/server.js` | relayed sockets, checkout sessions, a count of encoders | `/tts` relay, `/v1/text-to-speech`, `/*/authorize`, usage report, drain, Stripe webhook | three surfaces on one key; reports arrive late or twice; client, worker and encoder may each end at any point; webhooks come again | no request is metered by two of them; places of encoders come back; a file that was cut does not look whole; a raw key is shown once |
| Session tokens | `gateway/keys.js`, six workers | none | mint; verify, in seven copies | copies that drift apart; expiry at the boundary; tokens that are cut, swapped or signed by another secret | what the gateway mints is accepted everywhere till it expires, and nothing put together from parts of two; the workers accept exactly that, the gateway also a token with further parts behind it (finding 5) |
| Gateway: proxies, adapters | `gateway/runpod-adapter.js`, `voiceApiProxy.js`, `orpheusApiProxy.js`, `audioEncode.js` | the RunPod job and the stop flag of a socket | start a job, poll it, cancel it; forward one request | a stop beside a poll; a request beside the loop of the one before | every request gets its own audio, once, and an answer |
| Synthesis sessions | `worker-piper-fly/`, `worker-modal-piper/`, `worker-modal-readaloud/`, `worker-modal/`, `worker/` | connection slots, an inbox and a stop flag per socket | authenticate, speak, stop, HTTP stream, report | a stop overtakes what it stops or is overtaken; every exit must release its slot | slots are counted; only what was spoken is billed; who leaves is let go |
| Workers: what they report | `worker-modal-readaloud/`, `worker-stt-prod/` | requests on open sockets | usage report and its retries | reports lost or repeated | what is served is reported |
| Piper worker: voice cache | `worker-piper-fly/` | disk cache of voices, loaded engines, bucket | look up, fetch, evict, load; publish and delete voices | single-flight fetches against PUT, DELETE and evictions | cached and loaded voices are the published ones; the disk is bounded |
| Real-time recogniser | `worker-stt-realtime/server.py` | connection slots, audio buffered while the model loads; the incremental session | connect, configure, audio, end; push, finalize | slot accounting on failure, buffered audio, speculative finals | slots come back; no audio billed undecoded; a guess is settled before anything else is said |
| File speech workers | `worker-stt-prod/`, `worker-stt/`, `worker-demucs-fly/` | one model behind one lock, slots, deadlines; the growing buffer of a socket | transcribe or isolate a file; stream utterances; report | threads outlive the request that timed out; every path must let go of lock and slot; reports are retried | lock and slot always come back; only work done is charged; no word of an utterance is lost |
| Voice intake | `voice-pipeline/intake.py`, `train_job.py`, `gates.py` | marker files on Volumes, uploads in parts, the serving machine | upload, parts, commit, train, deploy, delete | containers on older views; guards evaluated before a body is streamed; a killed run | a deleted voice is gone; "training" means that somebody trains, or that a run died |
| Conversion jobs | `voice-pipeline/convert_job.py` | `job.json` on a Volume | submit, spawn, run, poll, fetch, clean up | only the readers reload; the record is rewritten whole | done means there is a result; a removed job stays removed |
| Dubbing jobs | `dubbing/` | jobs in memory, mirrored in `status.json` | submit, run in a thread, poll, fetch | restart between any two steps, torn files, the report after the result | a job's answers only move forward; what reads done is served |
| Voice drafts | `voice-pipeline/voice_design_dev.py`, `xtts_clone.py`, `fish_speech_dev.py` | a counter file per token and hour, voices by hash, recordings in memory and on a Volume | preview, clone, speak, delete, add a reference | two containers on one counter or one voice; commits nobody asked for | the limit holds; deleted voices stay deleted; no recording with another's text |
| Call engine: turns | `call-loop-poc/server.js`, `twilioAdapter.js` | one `CallSession` per call: turns, history, queue, timers, send chain | Deepgram events, model stream, sentences of audio, drain, timers, tools | dozens of callbacks that each start, end or supersede a turn | no utterance is lost, no turn is stuck with the floor, no call silent for good where the flow sets a limit |
| Call engine: helpers | `call-loop-poc/*.js` | `demoGuard` counters, the Piper socket pool and the chain of a call's sentences | admission, pruning; lend, park, evict, barge-in | limits under concurrency; every way a request can end beside a barge-in and a hang-up | limits hold in every window; the pool counts what is open; a sentence is heard once and never blocks the next for ever |
| Python client | `sdk/python/` | connections, the registered stream | synthesize, stream, stop, from several threads | which stream `stop()` finds; generators that are dropped | a connection lives as long as its call |
| Research cycle | `harness/` | `tts_core_tried.json`, reports, a budget | train and evaluate candidates in order, report, remember | a kill between a training that costs money and its record | nothing is paid for twice; the cap holds |
| GPU training scripts | `training-data/`, `voices/es_pilot/`, `orpheus_clone_pilot/` | checkpoints, corpora and models on a Volume | sixteen programs of steps that write and commit | death of container or client at any step; views of one Volume | what the next script relies on is there; checkpoints never get older |
| House voices | `voices/` | a Volume, `catalog.json`, the production server | export, retry, merge, publish | an answer to an earlier attempt; warm containers; upstream's wrong phonemizers | what the catalogue offers exists and speaks its language |
| Evaluation and other scripts | `eval/`, `harness/run.py`, `benchmarks/`, `research/`, `worker-cf-edge*/` | none over time | | | not modelled |

How they interact: a client talks to the gateway (HTTP or WebSocket) or, with a
session token from it, to a worker directly.  The relay meters a frame before it
forwards it; a worker that was called with a session token reports what it
delivered to `/admin/usage/report`; an invoicing job drains the counters.  The
voice pipelines are web apps that `spawn` GPU functions and share only a Volume
with them, whose views are synchronised by `reload` and `commit`.  The Piper
pipeline publishes a finished voice into the worker's bucket.  The dubbing server
is a client of the recogniser and of the gateway.  The call engine is one Node
process per machine that sits between a phone carrier, Deepgram, a language model
and the speech services.

## 2. Modules

| Module | Models | State and actions, in terms of the code |
|---|---|---|
| `OrpheusVolume` | `storage.py`, the Volume, `resolve_voice_dir` | A voice is a record of its files; `Commit(volume, view, dirty)` is `Volume.commit()`, last write per file. |
| `OrpheusClone` | `api.py`, `main.py`, `train_job.py`, `serve.py` | Every web container, run and GPU container is a process with a place (`apc`, `jpc`) and a view; one action per handler, cut at reloads, commits, `.spawn()`, `.remote()` and the awaited request body. |
| `VoiceLifecycle` | what the owner of a voice is promised | Abstract; `OrpheusClone` implements it (`ImplementsLifecycle`). |
| `ApiKeys` | `keys.js` | A key is a record, a function of `keys.js` an operator on it. |
| `UsageBilling` | `server.js` admission and metering, the workers' reports | `work` follows each request from admission to its last report; `invoiced` is what the drain handed out. |
| `SessionTokens` | `createSessionToken`, the verifiers of gateway and workers | A token is its parts; each verifier is an operator with the checks and the order of its copy. |
| `VoiceCache` | `voice_storage.py`, `get_engine`, `/admin/voices` | One action per storage call, file operation and critical section of the pool's threads and of the one PUT or DELETE the event loop is in. |
| `CallTurns` | `CallSession` in `call-loop-poc/server.js`, the paced queue of `twilioAdapter.js` | `call` is the session; its methods are functions of it, and an action is one callback run to completion. |
| `TtsSessions` | the sockets and HTTP streams of five speech workers | `worker` says which; `sock` and `stream` hold where the reader, the main task and the response are; one action per message and per await. |
| `SpeechChunks`, `Companding` | `chunk_text_meta`, `split_clause`; `audiofmt.py` and two decoders | Operators and recursive functions of words and 16-bit samples. |
| `SttRealtime`, `SttSession` | `worker-stt-realtime/server.py`: connections; `Session` | `conn` is one handler, cut at its awaits; `ses` is the session object, `push` and `finalize` its actions over any words and voice activity. |
| `BatchWorkers`, `SttStream` | `worker-stt-prod`, `worker-stt`, `worker-demucs-fly`; the socket of `worker-stt` | `upload` is one request with its thread, `lock` and `separating` the model's; `heard`, `start` are the audio and where `buf` begins. |
| `SdkClient` | `sdk/python/.../client.py` | `call` is one generator, `registered` the socket `stop()` would close. |
| `PiperPool` | `piperTts.js`, `_speakPiper` and `_bargeIn` of `call-loop-poc/server.js` | `lease` and `idle` are the sockets that are lent and parked, `sentence` where each request is; one action per callback. |
| `DemoGuard` | `demoGuard.js`, the connection handler of `server.js` | The maps of `createDemoGuard` and a clock; the list of an address is the set of its sessions, whose times are in `began`. |
| `RunpodAdapter` | `gateway/runpod-adapter.js` | `cancelled` and `jobId` of one socket, and where the handler of each request is; RunPod's jobs are external. |
| `GatewayHttp` | `proxyCompressedTts`, the Stripe endpoints of `gateway/server.js` | `enc` is request, encoder process and response; `checkout` is `checkoutSessions`. |
| `ModalVolume` | a Modal Volume as a function from paths to contents | `Commit`, `Seen`, `Without`; used by the next three. |
| `ConvertJobs` | `convert_job.py` | Files, runs, the GPU containers and the clean-up container with their views, and what the client was told. |
| `VoiceIntake` | `intake.py`, the frame of `train_job.py` | The marker files are the status; each web container is in at most one handler, on its own view. |
| `XttsVoices`, `FishReferences`, `DesignJobs` | `xtts_clone.py`, `fish_speech_dev.py`, `voice_design_dev.py` | GPU containers with what each wrote and nobody committed yet; the counter file between read and store. |
| `DubbingJobs` | `dubbing/jobs.py`, `job_server.py`, `pipeline.py`, `audit.py` | `mem` is the Job object, `disk` its `status.json`, `work` where its thread is, `queue` the executor's. |
| `JobPromise` | what whoever polls a job is promised | Abstract; `ConvertJobs`, `DubbingJobs` and `DesignJobs` implement it (`JobsKeepPromise`). |
| `TrainingSet`, `Retiming`, `OrpheusTokens` | `train_voice`'s loop, `gates.py`, `retime.py`, the token layout of the Orpheus pilot | Operators on bounded inputs; a recursive function or a fold for each loop of the code. |
| `ResearchCycle`, `GpuScripts`, `HouseVoices` | `run_cycle.py`, `recipes/tts_core.py`; sixteen GPU scripts; `voices/` | One action per step that costs money, writes or may die; `GpuScripts` holds each script as the sequence of its reads, writes and commits. |
| `MCBilling` | - | Instances for TLC: a symmetry set. `OrpheusClone`, `VoiceCache` and `CallTurns` are instantiated by their configurations directly. |
| `MCJobs`, `MCSpeech`, `MCOffline` | - | Compositions: a behaviour is one service of a family, the others are not called; the properties of a family are its conjunctions. For the algorithms of `MCOffline` one step computes one function of one input, for the inputs of `AlgInit`. |
| `OrpheusCloneProofs`, `UsageBillingProofs`, `VoiceCacheProofs`, `CallTurnsProofs`, `JobsProofs`, `SpeechProofs`, `OfflineProofs` | - | Theorems (section 5). `JobsProofs` is about `MCJobs` and the services it composes, `SpeechProofs` about `MCSpeech` and its components, `OfflineProofs` about `MCOffline` and its. |
| `FoldFacts` | - | Lemmas for the above: induction over numbers and finite sets, sums, folds of sequences. |

Definitions named `X_Y` are mutants: the `X` that a plausible bug would leave.
`PROJECT.json` pairs each checked property with one that breaks it.

### Modelling decisions

Several properties except a race that the code has and that would break them.
Each such race is recorded by a variable or field of its own (`crossed`, `doubled`,
`switched`, `dropped`, `deaf`, `died`, `excused`, `raced`, `overlapped`, `lost`) that the action sets at which it happens, so that the
exception is as narrow as the code makes it, and a property that fails for any
other reason still fails.

*Orpheus.*  One voice is modelled: voices share nothing but the Volume, whose
operations are per file.  A run reads what its container's reload brings in; a
reload that fails leaves the old view (the code swallows it), and Modal's remark
that a reload "may implicitly commit" is a choice of the model.  Audio, weights
and error texts are abstracted.  The service accepts requests that cross what it
has under way, and the history `crossed` records each kind at the state in which it
first happens: two requests on one voice that overlap in two web containers
("overlap", `Overlap`), an upload while a run is in flight or after a DELETE ("late",
`Late`), a commit before a failed run's post-commit check ("early", `Early`).  All
are legal requests that the code does not refuse, and section 4 says what they
break.  `Races` prunes the runs of TLC to the kinds it lists; the theorems do without
it and say what holds until the first crossing.  A second DELETE that saw
the run in flight may leave an empty marker behind (`Erased` ignores it).

A *fault* is a kill, or a call that raises where nobody catches it: the reload at
`main.py:81`, the commit at `main.py:116`, the record of a failure
(`train_job.py:139-141`, dropped by `except Exception: pass`), a commit of a
handler.  Each may leave the voice in training with nobody to settle it.
`api.py:208-212` says so of a training container that is killed or crashes; of the
other three no line of the code says it.  The liveness properties name exactly that
state (`Stranded`); after a fault that left somebody to go on they still hold.  Not
modelled: a write of `manifest.json` that raises elsewhere (a "ready" that cannot be
written ends as "failed" beside a warm engine); and what a raising commit leaves in
the container's view, which the next reload is assumed to replace.

*Billing.*  Amounts are whole numbers of characters or seconds, and
`CharsPerSecond` the whole conversion rate; rounding is left out.  Nothing is kept
from overtaking a request.  Of each request the model remembers `doubled`, the
attempts of its report that were sent while an earlier one was on its way or already
recorded (`worker-stt-prod/app.py:126` retries after a timeout; the gateway cannot
tell the second from the first), and `switched`, that billing was set while it or its
report was under way; a revoked key says so itself.  The properties are about every
request and name these: at most one charge more than `doubled`, nothing of an
unbilled key invoiced but what was `switched`, nothing unrecorded but lost reports
and revoked keys.
`keys.json` is read and rewritten synchronously in one turn of the event loop,
so it is one variable; a crash in the middle of `save()` is not modelled, nor is
key generation.  What the relay does over RunPod, and the keys a checkout issues,
are modelled apart from the meters (`RunpodAdapter`, `GatewayHttp`).

*Voice cache.*  A file's content is the publication it came from, 0 for none.
One machine; requests of customers only (a voice needs `owner.json`); `rmtree`
is atomic, and so is an engine load, under `_voices_lock`.  Fetches that fail,
HEADs that are taken for "not there" and puts that raise are bounded by
`MaxFailures`.

*Call turns.*  The flow is the acyclic `ask -> check -> lookup -> goodbye`: two
steps that wait for the caller, one that runs by itself, one that ends the call.
A superseded turn's stream changes nothing (every later check compares
`activeTurn`), so it is dropped, and only its tool call, which nobody cancels,
stays in `running`.  The model stops once the line is gone.  `StartOfTurn` and the first
`Update` are one action.  Not modelled: the gateway's speech socket as second
backend, calendar filler lines and sound effects, rejected extractions, forced
transitions, digits, voicemail, transfer, payment, detours, the shopper.
The limit on silence (`endCallAfterSilenceSec`) may be set or not, and steps in
`Reminding` have reminders.  Where there is no limit and no reminder is left,
`WatchSilence` arms nothing, as `server.js:2801` does, which leaves the call to other
handling (2790-2792): `SilenceWatched` and `CallEnds` name that state (`Unwatched`,
`LeftAlone`).  A reply in mode "wait" that the caller's next words overtake is cleared
with its text, as the docstring at 2741-2746 has it; such utterances are in
`dropped`, and `NotLost` and `Answered` say that there are no others.
`_generateTurn` may also throw before its `try` (the lookup of a knowledge-base node,
`server.js:3203`): the turn then keeps the floor for good.  That is outside the model,
whose flow has no such node.
`MovedOn` marks a real hole that the code itself calls a known gap
(`server.js:5253-5256`): after a spoken turn that moved the flow to a step that
waits for the caller, `_maybeRetireTurn` returns without replaying the queue,
and also without starting the silence clock.  The properties about silence and
answers hold everywhere else, and name it instead of hiding it.

*Synthesis sessions.*  Audio is a count of sentences; what differs between the
workers (a reader task or none, slots or none, billing or none) are definitions
on `worker`, so that one set of actions serves all.  A message the reader cannot take
(JSON that is not an object, a binary frame) ends its task without a word to the
inbox, as only `WebSocketDisconnect` is caught (`worker-piper-fly/server.py:397-414`,
`worker-modal-piper/app.py:176-194`): the main loop finishes what is queued and then
waits at `inbox.get()` for ever, its slot in hand (`deaf`).  `SlotsCounted` counts the
slot as held, and `SessionsEnd` excepts that socket.  The body of an HTTP request
comes if its client sends it: fairness (`StreamGoesOn`) makes only that wait end whose
client has left.  A stop that is read before
the request it is meant for does nothing, as in the code, where `cancel` is
cleared when a request is taken from the inbox.

*Recognisers.*  Words and voice activity are inputs, in units of audio.  In
`SttRealtime` a slot whose `accept()` raised is gone for good: `SlotsHeld` counts
it as held.  In `SttStream` a last rest of at most `FlushMin` is never
transcribed, and `WordsHeard` is about what `buf` let go of.  Threads in
`BatchWorkers` cannot be cancelled: one that timed out keeps the lock till it
ends.

*Conversion jobs.*  `excused` holds the jobs whose DELETE met a run in flight or
was served by a container whose view was older than the files: `run_conversion`
and `cleanup` do not reload.  Both leave or bring back files, against the
docstring of `cleanup` (`CleanedUpAlways` is that promise without the exception,
and is false).  A training run of the intake *dies* without a word when
`train_job.py:259-275` raises anything but `SystemExit` (training, export, the first
synthesis), or with its container: the voice then reads "training" and nobody trains.
`TrainingIsOwned` and the liveness of the intake name it.  Similarly `raced` in `VoiceIntake`, `overlapped` in `XttsVoices`,
and `crossed` in `DesignJobs`, where two containers store their counts across
each other.

*Dubbing.*  A restart may come between any two steps and may leave a status file
that was being rewritten torn; no thread takes up what a file says is running.
The usage report may raise what `report_usage` does not catch, which turns a job
that was read done into a failed one, once, its result still on disk: `JobPromise`
has that step (`Retract`) for services that say so (`MayRetract`), which only dubbing
does.  That it never happens is the claim finding 4 refutes.

*Piper pool.*  A sentence is whole: what is heard of it is a set of sentences, so
that the audio of another would show.  Which call's parked socket is evicted is
left open (the code takes the oldest).  `aborted` is the signal of a sentence: one
that fires while its socket connects is not looked at again, as in the code.

*RunPod, encoders, checkouts.*  A fetch may fail at any point.  `crossed` is set
when a client asks while the handler of its last request is at work: the two
loops then share `cancelled` and `jobId`, and `RunpodFaithful` excepts what they
send.  An encoder exits with 0 only if it read its input to the end; a kill may
reach it too late.  A webhook may be delivered again, which issues another key;
keys survive a restart of the gateway and checkouts do not.

*Admission.*  Addresses on the allowlist pass every limit and count for none, and
are left out.

*Research cycle.*  `lost` holds candidates whose training failed or whose cycle
was killed before the memory was written: these may be paid for again.

*SDK.*  The client registers one stream at a time.  With the newest over, an
older one that still runs cannot be stopped: `ConnectionsHeld` is about the
newest.

## 3. Runs

| Run | Module, configuration | What it shows |
|---|---|---|
| `orpheus_cloning` | `OrpheusClone`, `OrpheusCloning.cfg` | Two web containers, kills and calls that raise anywhere, no crossings: nothing is served with an old or broken checkpoint or after a DELETE; one run at a time; the whole implements `VoiceLifecycle`; training settles and accepted deletions complete, unless a fault left the voice in training with nobody to settle it. |
| `billing` | `MCBilling`, `Billing.cfg` | All surfaces at once, reports lost, late or repeated, billing switched and keys revoked under running requests: recorded once but for repeated reports, invoiced to nobody it should not be, never dropped silently, and nothing recorded is lost in a drain. |
| `voice_cache` | `VoiceCache`, `VoiceCache.cfg` | Fetches, evictions, publications, deletions and one failing storage call in any order. |
| `call_turns` | `CallTurns`, `CallTurns.cfg` | Who has the floor, where each utterance is, that a clock watches the silence while the flow has one; every utterance is taken up or given up for a later one, and the session closes in the end or is left to itself by a flow without a limit. |
| `pipelines` | `MCJobs`, `Jobs.cfg` | `DoneHasResult`, `CleanedUp`: conversions beside clean-ups, warm containers and kills. `SettledAndServed`: dubbing across a restart. `RevokedIsGone`, `TrainingIsOwned`: intake. `DraftsHold`: rate limit, cloned voices, references. `JobsKeepPromise`: three services implement `JobPromise`. `EverythingSettles`: what was accepted is settled. |
| `speech` | `MCSpeech`, `Speech.cfg` | `SlotsAndLocks`: connections, slots and locks come back, in five services and the client; the pool, the encoders and the admission count what is open and keep their limits, in every window of time. `ReportedIsDone`: only and all of what was done is reported. `SessionAnswers`: the events of a session make sense in sequence and no word is lost; a sentence is heard once; RunPod's chunks are whole and in order; a file that ends cleanly is one; a raw key is shown once. `AllLetGo`: sessions, sentences, requests, encoders and visits come to rest and nobody is held for ever. |
| `offline` | `MCOffline`, `Offline.cfg` | `AudioIsKept`: text, samples, tokens and clips survive their conversions. `DecisionsHold`: clip selection, gates, token verifiers. `CycleAccounts`, `ArtifactsHold`, `CheckpointKept`, `OfflineEnds`: the cycle, the scripts and the exports under deaths and lost calls. |
| `orpheus_early_retry` | `OrpheusClone`, `OrpheusEarlyRetry.cfg` | *Violation.* Finding 1. |
| `voice_cache_stale` | `VoiceCache`, `VoiceCacheStale.cfg` | *Violation.* Finding 2. |
| `call_bargein` | `CallTurns`, `CallBargeIn.cfg` | *Violation.* Finding 3. |
| `dubbing_report` | `MCJobs`, `DubbingReport.cfg` | *Violation.* Finding 4. |
| `token_mirror` | `MCOffline`, `TokenMirror.cfg` | *Violation.* Finding 5. |

A composed run starts in one service of its family and stays there, so its states
are the sum of the services' and not their product; what the services share in
the code, they share through their clients, whose behaviour is arbitrary here.

### Bounds

* Orpheus: two runs, because every hazard of a run is with itself, with a web
  container or with the run before it; two web containers, so that a request finds
  another at work on the voice (one in the violation run); two faults, so that what
  one leaves behind is met by another.  A voice
  is created once, which is the code's fresh id.
* Billing: one key, since keys never meet; two requests, so that one may be
  admitted while another is unsettled; sizes 1 and 2 with an allowance of 3, so
  that it is met exactly and exceeded; a rate of 2 characters to a second, so
  that the two units are told apart; two of the worker's three attempts, so that one is
  repeated.
* Voice cache: two threads, two voices and both caches of one entry, so that
  each fetch evicts the other voice; two publications, so that one can be stale;
  one failure.
* Call: two utterances, one to be queued, held or lost while another arrives;
  one sentence to a turn in the passing run and two in the violation; one tool,
  one nudge and one reminder, so that each cap is met and passed; a step
  with reminders and one without, the limit on silence set or not; replies at once,
  held, or after a wait.  The step `lookup`, which runs by itself, is not entered in
  the run (`Moves`); the theorems cover it.
* Pipelines: two conversions and one GPU container, so that the second finds it
  warm, on the first one's view; one kill.  Two dubbing jobs for one worker
  thread, so that one waits in the executor; one restart, after which all that
  was is a file.  Two intake containers and two runs, four requests, one crash:
  an upload, its training and a deletion meet a request on an older view.  Two
  previews with a limit of one, an hour that changes; two cloned voices of which
  one is unusable, on two GPU containers; two references, each of which can be
  replaced.
* Speech: one socket and one HTTP stream for one slot, so that each can be
  refused for the other; two messages of up to two sentences, so that a stop can
  fall before, between and after; two connections for one recogniser slot, three
  messages and a buffer of one; a session of fourteen units with thresholds of
  four, three units speculation and hints, so that each rule fires; two uploads
  for one model, the three attempts of a report; eight units of audio in
  `SttStream` in pieces of one or two; four calls of the client, two synchronous
  and one over HTTP, one stop.
* Edge (also in `speech`): two calls, two sentences and two sockets in the pool,
  so that the cap, an eviction and a queue behind a sentence occur; two requests
  of two chunks and one stop at RunPod; two requests for one encoder; two
  checkouts, three deliveries, entries that live an hour on a clock of three; two
  addresses and four visits, at most two open for one and three in all, one an
  hour and two a day, a day of three hours on a clock of five.
* Offline: texts of up to five words (of one or three characters, limits scaled
  down to nine) and seven phonemes; every fifth of the 65536 samples in both
  laws; three frames on a codebook of two; clips with up to two pauses at the
  thresholds of `retime.py` and around them; metadata of four lines; tokens of
  two keys, whole, cut, crossed and under another secret, at, before and after
  their expiry.  Three cycles over four candidates whose estimates do
  not fit the budget together; two containers, three launches of sixteen
  scripts, one death; three house voices, one of them mislabelled upstream, two
  attempts.

`CHECK_DEADLOCK FALSE` appears for `CallTurns` (a call whose line is gone stops)
and for `MCJobs`, `MCSpeech` and `MCOffline`, whose behaviours end when every job,
call or input is dealt with and the bounds are used up.

### Fairness

`OrpheusClone!Fairness`: a handler that started goes on and a spawned run is
scheduled (weak fairness per process); a customer who waits for a deletion keeps
polling, "the next API read" of `api.py` (strong fairness of `PollVoice`, because
other requests keep a container busy now and then).  It is fairness of the service
(`serviceVars`): the history moves with it.  No fairness for
faults, uploads or commits.

`CallTurns!Fairness`: requests to the model, to tools and to the speech service
end (they have timeouts), timers fire and the paced queue plays; a caller whose
words were understood stops speaking at some point.  The caller need not say
anything, nor hang up.

The job services: Modal starts what was spawned and its functions end, by
themselves or by their timeouts; the dubbing server's threads run, as each stage
is a request or an `ffmpeg` with a timeout; a web handler that started goes on.
No fairness for clients, kills, restarts or the clock.

The speech workers: an event loop runs every task that can go on; a synthesis,
a load of the model, a transcription and a separation end.  Nothing is assumed of
clients: neither a message nor the body of a request need come.  `MCSpeech` guards
each of these with the service of the behaviour, since the others are not run.
For the edge: the timers of the pool fire; requests to RunPod, to a worker and to
ElevenLabs end, and so do RunPod's jobs; an encoder's input ends or is cut and the
encoder exits, as the client reads or leaves; the length of a session is capped
(`server.js:1738`).  `AllLetGo` says where all of it comes to rest (`<>[]`),
since only so many requests come to a behaviour.
Offline: whoever started a cycle, a script or an export lets it run.

The billing and cache modules have no liveness property: reports are best
effort, and a storage call may fail for ever.

## 4. Findings

Each is a run that reaches a state the repository says cannot happen.

1. *Early retry* (`main.py:138`).  A failed run commits "failed" before its
   post-commit check.  The check of the first run consumes the marker of a DELETE
   that was meant for the second, which brings the voice back, and it is served.
2. *Stale fetch* (`voice_storage.py:115`).  A PUT "forces a re-fetch", but a
   fetch in progress lists the old download afterwards.
3. *Barge-in* (`call-loop-poc/server.js:5952`).  The drain callback after a
   barge-in replays a queued utterance while the caller is still speaking.
4. *Usage report of a dubbing job* (`dubbing/audit.py:63`).  It "never fails the
   job itself", but an answer that breaks off raises none of the three errors it
   catches, and the handler of a failed pipeline sets the finished job to error.
5. *Tokens with further parts* (`gateway/keys.js:336`).  The gateway splits a token at
   the dots and looks at the first two parts, the workers demand exactly two, although
   `worker-stt/app.py:69` "mirrors gateway/keys.js verifySessionToken exactly".  The
   signature covers the first part and has to be right in both.

Known from exploring the models with other constants or without an exception,
without a run of their own:

* Orpheus: the upload handler awaits the body after its reload and then writes
  back the manifest it read before (`api.py:148`): a final "ready" or "failed"
  that a run committed meanwhile becomes "training" again without a run, and a
  DELETE accepted then never completes; a late upload may also poison a warm
  engine.  Two web containers that commit one voice at the same time both spawn
  a run, and a DELETE in one may be undone by the other's late commit.  A run whose
  first reload, last commit or record of its failure raises leaves the voice in
  training for good, as the killed run of `api.py:208-212` does;
* billing: reports are retried without an identity, so one whose answer is late
  is charged twice (`doubled`, `worker-stt-prod/app.py:126`);
  a socket opened before the allowance ran out goes on for as many requests as it
  likes (`worker-modal-readaloud/app.py:369`); usage admitted on the allowance is
  invoiced if billing is switched on before its report arrives (`switched`); usage of
  a key that was revoked meanwhile is dropped, and an open worker socket goes on with
  a revoked or exhausted key, as it looks at its token once; one-shot requests that overlap
  overspend the allowance together;
* in the call engine: the result of a tool starts a turn without looking at who
  has the floor (`server.js:5016`), so it may overtake a newer turn nobody has heard yet and may open a
  turn after the call began to close; a reply that waits on the response timer is
  dropped with its text when the caller goes on (`dropped`), as its docstring wants;
  a flow that sets no limit on silence, which is the default, leaves a caller who says
  nothing in a call nobody ends; words that were queued may be answered after a later utterance; a
  reminder may start while the caller is speaking;
* the job services: what the exceptions of section 2 stand for.  A conversion
  submitted to a warm container is not in its view and dies; a clean-up on an
  older view or beside a run leaves or brings back recordings; an intake request
  let in on an old view brings files back after a DELETE; two containers may
  admit more previews than the limit; a recording the XTTS service refused can
  still be spoken with; a training of the intake that raises anything but `SystemExit`
  leaves its voice in "training" for good, with neither `error.json` nor a manifest
  (`train_job.py:259-284`);
* speech: the real-time recogniser loses a slot for good when `accept()` raises
  (`server.py:250`), and the Piper sockets one when a client sends what their reader
  cannot take; the end of an utterance that is shorter than half a second (8000
  samples at 16 kHz) is never transcribed by `worker-stt`'s socket; `stop()` of the Python
  client cannot reach a stream older than one that has ended;
* around the calls: a barge-in while a Piper socket connects is not seen
  (`piperTts.js:180` listens to a signal that has fired), so the sentence is asked
  for, not heard, and the next waits for it up to its timeout, although
  `piperTts.js:137` says that a `stop` is sent; a call that closes while a socket
  is prewarmed or lent leaves it parked until its timer fires; a `stop` sent while
  `/run` is awaited cancels the job before and leaves the new one running
  (`runpod-adapter.js:43`), the client hears nothing more of it; a new request
  takes back that stop for a loop that has not looked, which then polls the new
  job too and doubles its audio; a Stripe event that is delivered again issues a
  second key, and a restart of the gateway loses the raw key of a purchase for good;
  the gateway's `done` and `cancelled` carry no turn (`server.js:5902` of the call
  engine).

## 5. Proofs

All proofs are checked by TLAPS to the last leaf (Z3, Zenon, LS4), for every
value of the constants that satisfies the named assumptions of the modules.

| Theorem | Says | Argument |
|---|---|---|
| `OrpheusCloneProofs!TypeCorrect` | `TypeOK` is invariant | Views are closed under the store's writes and under `Commit` (lemmas on `OrpheusVolume`); then one step per action. |
| `OrpheusCloneProofs!SingleRun` | for any web containers, runs and faults, `OneRunAtATime` until two requests overlapped (`"overlap" \notin crossed`) | `RunInv`: while a run owns the voice, or a container is about to spawn one, no view that could pass the gate of commit exists, on the Volume or uncommitted; a run that is over holds nothing but a deletion. `OneRunAtATime` alone is not inductive, as nothing in it links the run to the status that keeps the gate shut. Late uploads and early retries are covered; what an overlap does is in section 4. |
| `OrpheusCloneProofs!ServedCheckpoint`, `WarmUpIsSeen`, `DeletedIsNotServed`, `LifecycleIsKept` | for any web containers, runs, faults and requests, up to the first crossing (`crossed = {}`): `EngineIsCurrent`, `NoPoisonedEngine`; no step serves a voice whose DELETE was answered; every step is one of `VoiceLifecycle` or a stutter. Of a behaviour that crosses nothing, `NotServedAfterDelete` and `ImplementsLifecycle` follow | `LifeInv`: one run is active at most; what a container read before it writes is in step with the Volume (`Sync`) but for the files it has not committed and for the marker a deletion writes; an engine that is up was made of the checkpoint that is there. It says so of each container while it may be at work beside readers and deleters in others (`BesideChange`, `BesideRemoval`, `BesideMarker`), and of a run that ended without a record. For the refinement, each action maps to one of the life of a voice or to a stutter. Behind a crossing these are false: section 4. |
| `UsageBillingProofs!TypeCorrect` | `TypeOK` is invariant | Strengthened by `Attempted`: attempts, reports in flight, recorded and lost balance, which is what bounds the last three. |
| `UsageBillingProofs!FlagCorrect`, `PartsCorrect` | `FlagAgrees`, `SubsetBounds` | `KeyStep`: whatever the system does to a record is one of a handful of operations of `keys.js`, each of which keeps the conjunct. |
| `UsageBillingProofs!RelayNeverOverspends` | with the relay alone, no key without billing spends more than its allowance | `NothingOwed`: no report is ever in flight then, so the only charge is the frame that was afforded in the same step. |
| `UsageBillingProofs!NeverTwice` | `ChargedOnce`: one charge and at most one for each attempt that was `doubled`, which only `worker-stt-prod` sends | `WorkSteps`: a step makes of a request nothing, an admission, a step of its worker, or a switch of billing under it; `Once`: what was recorded of a request and what is on its way are at most one more than `doubled`. |
| `UsageBillingProofs!ServedIsRecorded` | `NothingSlips`: a request that was served in full is recorded, unless its every report was lost or its key revoked | `Balanced`: each attempt was recorded, lost, is on its way, or came to a key that is gone; and `KeysInUse`: whoever may ask has a key that was issued. |
| `UsageBillingProofs!LedgerAddsUp` | `LedgerMatches`: what was recorded for the requests of a key adds up to its record and its invoices, whatever interleaves | `LedgerSteps`: a step records nothing, or the charge of one request on its own key (`ChargeOf`), or moves counters to the invoices. The sum over the requests then changes by that charge, as the sum lemmas of `FoldFacts` have it; a key that is not issued yet has nothing (`Blank`). |
| `UsageBillingProofs!FreeStaysFree` | `FreeNotInvoiced`: nothing admitted on the allowance is invoiced but what billing was `switched` under | `PaidFits`: the key of a request that is pending still bills as when it was admitted, or the request is marked, so that what is recorded for it goes to the meter it was admitted on; the rest are the sums of the row above. |
| `VoiceCacheProofs!TypeCorrect` | `TypeOK`, which bounds both caches | Strengthened by `Distinct`: an order lists a voice once, without which dropping the oldest does not bound it. |
| `VoiceCacheProofs!OneFetch` | `SingleFlight` | Inductive once the types are. |
| `VoiceCacheProofs!DiskAccounted` | `DiskIsListed` | `DiskInv`: says of each fetch and each removal in progress which directory it answers for. |
| `VoiceCacheProofs!CachesCoherent` | `CacheCoherent` | `Current`, a conjunction: what is in the tmp directory of a fetch (`FetchInv`), on the disk (`DiskCurrent`) and loaded (`EngineCurrent`) is what the bucket holds, as long as no PUT or DELETE replaces it or left doubt. |
| `VoiceCacheProofs!TrueAnswers` | `AnswersAreTrue` | `CalmInv`, on top of the three above: the bucket has all of a voice or nothing (`BucketWhole`), a fetch has brought what is not on its list any more (`FetchReady`), and a request nothing has disturbed yet finds the voice as the bucket has it, wherever it is (`Calm`). |
| `CallTurnsProofs!FloorNeverIdle`, `SilenceIsWatched`, `FloorIsKept` | `FloorIsUsed`, `SilenceWatched`, the action property `FloorKept` | `Inv`, whose core is `Waiting`: the sentences of the current turn that were not sent are the last `pendingTts` of the send order, so that the turn's own counter and the order agree on what is to come; and `Watched`: the clock runs, or the flow set no limit and has no reminder left (`Unwatched`). `RetireGood`: `_maybeRetireTurn` gives up a floor only when both are empty. |
| `CallTurnsProofs!NothingSaidIsLost` | `NotLost`, in every response mode: what is missing was given up with its waiting reply (`dropped`) | `Inv`, and that history, queue, scheduled reply and `dropped` hold each utterance once (`Words`), which every step keeps. |
| `JobsProofs!ResultsAreThere`, `CleanedForGood` | `DoneHasResult`, `CleanedUp` | `ConvertInv`. `ResultInv` adds that until a job is deleted, neither the Volume nor the clean-up's view has its result without its record: otherwise a clean-up on an older view could commit the removal of the result and not that of the record. `OwnerInv`: a run is of one container, a clean-up of a job nobody deleted before. `CleanInv`: an unexcused clean-up left no run in flight to write again. |
| `JobsProofs!ConvertIsPromised` | the conversion service implements `JobPromise` | `PhaseInv`: as long as nobody deleted the job, its record is the one of the step its run is in. Then `StepKeepsPromise` maps each step to one of the promise or a stutter. |
| `JobsProofs!DoneIsServed` | `SettledAndServed`, whatever the usage report raises | `DubInv`: `InMemory`, `OnDisk` and `Counted` say what each place of a job's thread implies for memory, file and report; `QueueInv`: the executor holds jobs no thread has taken, each once, without which a second thread could take a job back to running. |
| `JobsProofs!DubbingIsPromised` | dubbing jobs implement `JobPromise` with `Retract` (a job read done may become failed, once), restarts included | `Behind`: a status file is behind the Job object, so that what is read after a restart was answered before, or nothing. |
| `JobsProofs!PromisesAreKept` | `JobsKeepPromise`: only dubbing may go back on done | The two above and the same of previews (`DesignInv`); `EachServes`: a behaviour of `MCJobs` is, to each service, one of its own or one in which nobody calls it. |
| `JobsProofs!DeletedForGood`, `TrainingHasARun` | `RevokedIsGone`, `TrainingIsOwned` | `IntakeInv`: as long as nothing crosses a DELETE, it is alone at work (`DeleteAlone`), and afterwards nobody can be (`GoneStays`); `Owned`: a voice that reads training has a run, a request about to spawn one, or a run that died, of an exception nobody records or with its container. |
| `JobsProofs!DraftsAreHeld` | `DraftsHold` | One invariant to each service. `DesignInv`: the stored status by the place of its run; the counter of an hour bounds what it admitted. `XttsInv`: for a voice nothing overlapped, nobody clones what is being deleted, a deletion sees all there is, and nothing of an erased voice waits for a commit. `FishInv`: memory and Volume pair a recording with its own text. |
| `SpeechProofs!VisitorsCounted` | `GuardCounts` | Inductive with the types: an admission adds one session to the set the counters are the size of, a close removes it. |
| `SpeechProofs!KeysShownOnce` | `ShownOnce` | `PayInv`: an entry holds the key issued last for its purchase, no other entry has that key (`KeysApart`), and its raw key is there as long as it was not shown. |
| `SpeechProofs!EncodersBounded` | `EncodersCounted` | `EncInv`: an encoder that runs belongs to a request that gave nothing back yet, and only one whose client left gives back early. `EncoderStep`: whatever becomes of a request takes a place, gives it back, or neither. |
| `SpeechProofs!AudioInOrder` | `RunpodFaithful` | `RunpodInv`: as long as no request came too early, one handler is at work at most (`OneAtWork`); it polls its own job, has sent what it has seen, and the stop flag is up if and only if it was stopped. |
| `SpeechProofs!ReportsAreTrue` | `ReportedIsDone` | An invariant to each service. `TtsInv`: a request that was stopped with a sentence to come keeps its cancel event set until it is answered. `SttInv`: what was received is decoded, buffered or dropped and counted as such, unless an error ended it. `BatchInv`: each place of an upload says what was done, tried and answered. `ChargeInv`: one report of a socket, when it is over. |
| `SpeechProofs!WhatIsTakenIsGivenBack` | `SlotsAndLocks` | The same, `SdkInv`, `EncInv`, and: `PoolInv`, in which the leases are those of sentences that connect or were asked and of prewarming, and parked sockets are counted as pairs of line and place; `WindowInv`, in which the list of an address has every session of the last day, and a window a new session falls into held none that is older than it is long. |
| `SpeechProofs!AnswersAreKept` | `SessionAnswers` | `SesInv`: speech and its start come and go together, an open guess is of the words heard so far, and the last segment ended before this one began. `WordInv`: a run of speech has lost less than `MinSpeech` units, or less than twice that and has ended (`AllSettled`); a cut loses what lies between (`LosesBetween`), and the rest of a run behind it is a run of the new buffer, seen if it is long enough (`RestIsRun`). `CleanInv`: an encoder exits with 0 only behind a source that ended. With `PoolInv`, `RunpodInv` and `PayInv`. |
| `OfflineProofs!CycleIsAccounted` | `CycleAccounts`, whatever trainings fail and whenever a cycle is killed | `CycleInv`: the queue is what the order of the variants leaves (`Ordered`, `Queued`), what a cycle spent is the sum of its results (`Spent`, a sum over a sequence), each paid training is known, or unrecorded, or lost to a failure or a kill (`Paid`, `Known`). |
| `OfflineProofs!CheckpointIsKept` | the action property `CheckpointKept`: the Spanish checkpoint never gets older | `GpuInv`: `sample_es` is the only script that runs beside another (`Alone`), so that whoever writes sees the Volume as it is but for its own changes (`Writer`), and `sample_es` an older one of which it writes nothing but the sample (`Sampler`); `Ready`: what the steps before a step of a script have seen to. Nothing in the property itself says which views a commit may come from. |
| `OfflineProofs!ArtifactsAreKept` | `ArtifactsHold` | `GpuInv`, and `HouseInv` of the house voices: whatever is on the Volume, in the warm container or in production is whole or missing (`VoicesOK`); the entries an export has passed are in the container, which nothing else commits meanwhile (`Passed`); the call that is waited for is the one that runs, and an answered one is committed (`CallsOK`), which is what lets a repeated call be merged. |
| `OfflineProofs!DecisionsAreRight` | `DecisionsHold`: clip selection, gates, token verifiers, for all limits, secrets and lifetimes: a worker takes exactly the live tokens minted with its secret, the gateway those and tokens with further parts behind one (finding 5) | The lemmas hold for any lines, any sorted pitches, any measurements and any token, not only for the inputs of the run. `SelectedFrom` says what the loop over the lines has used, seen and counted after each of them, by induction along the fold (`LoopRuns`, `TraceInduction`). A split that leaves no spread is where the pitches change (`SplitBetween`), and some split is the best of all (`LeastFraction`), so the ratio the gate compares is defined. Nothing put together from parts of two tokens passes but a token (`EveryTokenVerified`). |

Premises: of the constants, only `RelayNeverOverspends` fixes one (`Surfaces`, as its
property is false of the workers' surfaces); all other assumptions are those the modules
name.  The theorems on the Orpheus service speak of what was `crossed` so far, a state
of the behaviour and not a restriction of it: before the first crossing all that is
said holds, of any number of containers and faults, and section 4 says what does not
behind one.  The property of a composed module is proved of its own `Spec`: for every
service a behaviour may be of.

Only model-checked: all liveness properties (fairness and ENABLED are out of the
prover's reach), and `AudioIsKept`, the computations of `MCOffline` over text and
samples.  They sort sets into sequences, select from sequences and sum over tables
of bits (`SetToSortSeq`, `SelectSeq`, `MapThenSumSet`), which the prover does not
expand.  Other data needs induction, which the library's theorems offer only with an
operator as a parameter; `FoldFacts` does without, as a set of numbers or of subsets
of a finite set that is not empty has a least element.

`TypeOK` of the Orpheus service, the meters and the cache, `SubsetBounds` and
`AllowanceHeld` are proved and so not checked by runs any more.

## 6. Plan

Done, in this order: Orpheus cloning; keys and metering; the voice cache; the
turn engine; the job services against `JobPromise`; synthesis sessions,
recognisers and file workers; scripts, exports and algorithms; the edge (Piper
pool, RunPod adapter, encoders, checkouts, admission); proofs of every safety
property of the first four, of the job services, of the speech family, and of
cycle, scripts, exports and the decisions over clips, gates and tokens.

Left, the most consequential first:

1. Proofs: what chunking, companding, retiming and token layout compute
   (`AudioIsKept`).
2. `CallTurns`: the gateway's speech socket as a second backend with its
   failover, transfer, voicemail, digits.
3. `generateWithFallback`: providers of the call engine's model, in order.
4. The composition of `TtsSessions` with `VoiceCache` (`get_engine`).

Not modelled, and why: a crash inside `keys.js`'s `save()` (one write of a file,
whose halves the model does not see); synthesis, recognition, training and
translation themselves (functions of audio and of external services); the HTTP
proxies (one request forwarded, no state); `telnyxAdapter.js` (`twilioAdapter.js`
for another carrier); the JavaScript client; `worker-cf-edge*`; evaluation,
benchmarks and reports (no behaviour over time).
