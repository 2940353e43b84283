------------------------------- MODULE MCSpeech -------------------------------
(* The speech workers, and what stands between them and callers: the Python *)
(* client, the gateway, the call engine's pool and admission.  A behaviour  *)
(* is of one of them, on a small instance.                                  *)
EXTENDS TtsSessions, SttRealtime, SttSession, BatchWorkers, SttStream, SdkClient,
        PiperPool, RunpodAdapter, GatewayHttp, DemoGuard

VARIABLE service

Init ==
  /\ service \in {"tts", "stt", "session", "batch", "stream", "sdk",
                 "pool", "runpod", "encoder", "checkout", "guard"}
  /\ TtsInit /\ SttInit /\ SesInit /\ BatchInit /\ StreamInit /\ SdkInit
  /\ PoolInit /\ RunpodInit /\ GatewayInit /\ GuardInit
  /\ service # "tts" => worker = CHOOSE w \in Workers : TRUE
  /\ service # "session" => endpoint = CHOOSE e \in Endpoints : TRUE
  /\ service # "stream" => pause = CHOOSE p \in Pauses : TRUE
  /\ service # "batch" => kind = CHOOSE k \in BatchKinds : TRUE

edge   == <<poolVars, runpodVars, gatewayVars, guardVars>>
others == <<streamVars, sdkVars, edge>>
speech == <<ttsVars, sttVars, sesVars, batchVars, streamVars, sdkVars>>
Tts     == service = "tts" /\ TtsNext /\ UNCHANGED <<service, sttVars, sesVars, batchVars, others>>
SttConn == service = "stt" /\ SttNext /\ UNCHANGED <<service, ttsVars, sesVars, batchVars, others>>
Ses     == service = "session" /\ SesNext /\ UNCHANGED <<service, ttsVars, sttVars, batchVars, others>>
Batch   == service = "batch" /\ BatchNext /\ UNCHANGED <<service, ttsVars, sttVars, sesVars, others>>
Hearing == service = "stream" /\ StreamNext
           /\ UNCHANGED <<service, ttsVars, sttVars, sesVars, batchVars, sdkVars, edge>>
Sdk     == service = "sdk" /\ SdkNext
           /\ UNCHANGED <<service, ttsVars, sttVars, sesVars, batchVars, streamVars, edge>>
Pool    == service = "pool" /\ PoolNext /\ UNCHANGED <<service, speech, runpodVars, gatewayVars, guardVars>>
Runpod  == service = "runpod" /\ RunpodNext /\ UNCHANGED <<service, speech, poolVars, gatewayVars, guardVars>>
Encode  == service = "encoder" /\ EncNext
           /\ UNCHANGED <<service, speech, poolVars, runpodVars, payVars, guardVars>>
Pay     == service = "checkout" /\ PayNext
           /\ UNCHANGED <<service, speech, poolVars, runpodVars, encVars, guardVars>>
Guard   == service = "guard" /\ GuardNext /\ UNCHANGED <<service, speech, poolVars, runpodVars, gatewayVars>>
Next    == Tts \/ SttConn \/ Ses \/ Batch \/ Hearing \/ Sdk \/ Pool \/ Runpod \/ Encode \/ Pay \/ Guard

(* The event loops run every task that can go on; a synthesis, the thread  *)
(* that loads a model, a transcription and a separation end.               *)
Fairness ==
  /\ \A c \in Socks : /\ WF_ttsVars(service = "tts" /\ Read(c))
                      /\ WF_ttsVars(service = "tts" /\ MainStep(c))
  /\ \A r \in Streams : WF_ttsVars(service = "tts" /\ StreamGoesOn(r))
  /\ WF_sttVars(service = "stt" /\ LoadModel)
  /\ \A c \in Conns : WF_sttVars(service = "stt" /\ ConnStep(c))
  /\ \A r \in Uploads : WF_batchVars(service = "batch" /\ UploadStep(r))

(* Timers fire, requests to RunPod, to a worker and to ElevenLabs end, an  *)
(* encoder exits when its input ends or it is killed, a session's length   *)
(* is capped.                                                              *)
EdgeFairness ==
  /\ WF_poolVars(service = "pool" /\ (\/ \E s \in Sentences : SentenceStep(s)
                                       \/ \E l \in Lines : Prewarmed(l) \/ DropAny(l)))
  /\ WF_runpodVars(service = "runpod" /\ \E r \in Asks : HandlerStep(r))
  /\ WF_runpodVars(service = "runpod" /\ \E r \in Asks : EndJob(r))
  /\ WF_encVars(service = "encoder" /\ \E r \in Encodes : EncodeStep(r))
  /\ WF_guardVars(service = "guard" /\ \E v \in Visits : VisitCloses(v))

vars == <<service, ttsVars, sttVars, sesVars, batchVars, others>>
Spec == Init /\ [][Next]_vars /\ Fairness /\ EdgeFairness

(* Every worker gives back what a request took of it: connections, slots, *)
(* the lock of the model; and so does the client.  The call engine's pool, *)
(* the gateway's encoders and the admission of visitors count what is open *)
(* and stay under their limits, in every window of time.                   *)
SlotsAndLocks == /\ SlotsCounted /\ SlotsHeld /\ LockAndSlots /\ SdkTypeOK /\ ConnectionsHeld
                 /\ PoolCounts /\ EncodersCounted /\ GuardCounts /\ WindowsHold

(* Every worker reports what it did, and nothing else.                     *)
ReportedIsDone == BilledIsSpoken /\ AudioAccounted /\ ChargedIsDone /\ StreamCharged

(* What a client is told makes sense in sequence, and is all there was: a  *)
(* recognition session's words, a call's sentences, the chunks of a RunPod *)
(* job, an encoded file, the key of a purchase.                            *)
SessionAnswers == /\ GuessesSettled /\ SegmentsInOrder /\ StreamTypeOK /\ WordsHeard
                  /\ SpokenOnce /\ RunpodFaithful /\ CleanIsWhole /\ ShownOnce

(* No connection, stream, upload, sentence, request or visit is held for   *)
(* ever.  (Only so many come to a behaviour, so that it comes to rest.)    *)
AllLetGo == <>[](/\ SessionsEnd /\ SttEnds /\ UploadsEnd
                 /\ SentencesEnd /\ RunpodAnswers /\ EncodesEnd /\ VisitsEnd)
=============================================================================
