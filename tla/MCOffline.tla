------------------------------ MODULE MCOffline ------------------------------
(* What runs without callers waiting, and the computations of the rest, on  *)
(* small instances: a behaviour is of one of them.                          *)
EXTENDS SpeechChunks, OrpheusTokens, TrainingSet, Retiming, SessionTokens,
        ResearchCycle, GpuScripts, HouseVoices

-----------------------------------------------------------------------------
(* The pure computations of the system on bounded inputs: one step computes *)
(* the result of the input a behaviour starts with.                         *)
Codec == INSTANCE Companding

VARIABLES task, input, result
algVars == <<task, input, result>>

CONSTANTS Laws,       \* which companding laws
          MaxPieces,  \* words of a text
          MaxSounds,  \* phonemes of a sentence
          MaxLines,   \* lines of a metadata.csv
          Stride      \* of the samples that are encoded; 1: all of them

Sounds == {"x", " ", ","}
WordSet == [len : {1, 3}, mark : {"", ",", "."}]
Samples == {x \in -32768 .. 32767 : x % Stride = 0}
Frames == [c0 : 0 .. Codebook - 1, c1 : [1 .. 2 -> 0 .. Codebook - 1],
           c2 : [1 .. 4 -> 0 .. Codebook - 1]]
Copies(n, x) == [i \in 1 .. n |-> x]
Pitches(i, j, k, n) == Copies(i, 8) \o Copies(j, 11) \o Copies(k, 15) \o Copies(n, 18)
PitchSet == {Pitches(i, j, k, n) :
               i \in {0, 2, 3, 4, 17}, j \in {0, 3}, k \in {0, 1, 5}, n \in {0, 2, 3, 14, 17}}
Clips == {[length |-> s[1] + a + s[2] + b + s[3],
           pauses |-> IF a = 0 THEN <<>>
                      ELSE IF b = 0 THEN <<<<s[1], s[1] + a>>>>
                      ELSE <<<<s[1], s[1] + a>>, <<s[1] + a + s[2], s[1] + a + s[2] + b>>>>] :
            s \in {<<0, 900, 400>>, <<500, 0, 0>>, <<700, 300, 0>>},
            a \in {0, 150, 400}, b \in {0, 150, 200}}
LineSet == [text : {NoText, "x", "y"}, flaw : {"", "clipped", Mismatch}, dur : {2, 3}]
Tokens == {CreateSessionToken(id, uid, 0) : id \in {"k1", "k2"}, uid \in {NoUser, "u"}}
Clocks == {0, Ttl \div Milli, Ttl \div Milli + 1}

AlgInit ==
  /\ result = <<>>   \* nothing computed yet
  /\ \/ task = "chunk_text" /\ input \in SeqOf(WordSet, MaxPieces)
     \/ task = "split_clause" /\ input \in SeqOf(Sounds, MaxSounds)
     \/ task = "companding" /\ input \in Laws \X Samples
     \/ task = "tokens"
        /\ input \in {<<8>>} \X (SeqOf(Frames, 1) \cup {<<f, g, f>> : f, g \in Frames}) \X {0, 8, 13}
     \/ task = "retime" /\ input \in Clips \X {400, 700, 1000, 1280, 1300, 1500, 2000}
     \/ task = "split" /\ input \in PitchSet
     \/ task = "gates"
        /\ input \in [snr : {0, 11, 12, 20}, band : {-36, -35, 0}, off : {0, 9, 29},
                      cv : {0, 27, 39}, apart : BOOLEAN,
                      split : {{}} \cup {{d} : d \in [gap : {449, 450, 600}, minor : {14, 15},
                                                     lo : {23, 24}, hi : {28, 29}]}]
     \/ task = "clips" /\ input \in SeqOf(LineSet, MaxLines)
     \/ task = "token"
        /\ input \in UNION {{<<a, s>> : a \in Arriving(t, u), s \in Clocks} : t, u \in Tokens}

Compute(t, r) == task = t /\ result = <<>> /\ result' = <<r>> /\ UNCHANGED <<task, input>>

ComputeChunks == Compute("chunk_text", ChunkText(input))
ComputeClause == Compute("split_clause", SplitClause(input))
ComputeSample == Compute("companding", Codec!Heard(input[1], input[2]))
ComputeTokens == Compute("tokens", Decoded(Example(input[1], input[2])))
ComputeFit == Compute("retime", FitDuration(input[1], input[2]))
ComputeSplit == Compute("split", SplitDetails(input))
ComputeGates == Compute("gates", Evaluate(input))
ComputeClips == Compute("clips", TrainVoice(input))
ComputeToken == Compute("token", Verdicts(input[1], input[2]))
AlgNext == \/ ComputeChunks \/ ComputeClause \/ ComputeSample \/ ComputeTokens \/ ComputeFit
           \/ ComputeSplit \/ ComputeGates \/ ComputeClips \/ ComputeToken

Computed(t) == task = t /\ result # <<>>

\* Every word of a text and every phoneme of a sentence is spoken once, in order,
\* in chunks of the promised sizes (chunk_text_meta, split_clause).
TextIsSpoken == /\ Computed("chunk_text") => ChunksSay(input, result[1])
                /\ Computed("split_clause") => ClauseSaid(input, result[1])

\* A sample of telephone audio survives encoding and decoding (audiofmt.py and the
\* decoders of both recognisers).
SamplesSurvive == Computed("companding") => Codec!Survives(input[1], input[2])

\* The speech a voice was trained on is the speech its tokens decode to
\* (finetune_pilot.py, decode_validate.py).
TokensAgree == Computed("tokens") => TrainedIsDecoded(input[1], input[2], input[3])

\* Fitting a dubbed clip to its source never makes it worse (retime.py).
FitHolds == Computed("retime") => FitNeverWorse(input[1], input[2], result[1])

\* The clips a voice is trained on (train_job.py).
ClipsHold == Computed("clips") => ClipsAccounted(input, result[1])

\* Every worker takes the minted tokens that are not expired and no other; the gateway
\* takes those, and what has more parts behind one (keys.js and six copies of it).
TokensVerify == Computed("token") => SameClaims(Tokens, input[1], input[2], result[1])

\* What the copies' comments say: each mirrors the gateway's check exactly.
TokensMirrored == Computed("token") => Mirrored(result[1])

\* The gates reject two speakers and never reward worse data (gates.py).
GatesHold == /\ Computed("split") => SplitServes(input, result[1])
             /\ Computed("gates") => GateKeeps(input, result[1])

-----------------------------------------------------------------------------
VARIABLE shop

MCVariants == <<"a", "b", "c", "d">>
MCEstimate == [a |-> 2, b |-> 3, c |-> 1, d |-> 2]
MCGroups == {<<"a", "b">>, <<"c">>}

Init ==
  /\ CycleInit /\ GpuInit /\ HouseInit
  /\ \/ shop = "algorithms" /\ AlgInit
     \/ shop \in {"research", "gpu", "house"} /\ task = "none" /\ input = <<>> /\ result = <<>>

Algorithms == AlgNext /\ UNCHANGED <<shop, cycleVars, gpuVars, houseVars>>
Research == shop = "research" /\ CycleNext /\ UNCHANGED <<shop, algVars, gpuVars, houseVars>>
Gpu      == shop = "gpu" /\ GpuNext /\ UNCHANGED <<shop, algVars, cycleVars, houseVars>>
House    == shop = "house" /\ HouseNext /\ UNCHANGED <<shop, algVars, cycleVars, gpuVars>>
Next     == Algorithms \/ Research \/ Gpu \/ House

Spec == /\ Init /\ [][Next]_<<shop, algVars, cycleVars, gpuVars, houseVars>>
        /\ CycleFairness /\ GpuFairness /\ HouseFairness

\* What is said, encoded or stretched for a listener is what was to be said.
AudioIsKept == TextIsSpoken /\ SamplesSurvive /\ TokensAgree /\ FitHolds

\* What decides decides right: over the clips a voice is trained on, at the gates, and
\* in the seven functions that accept a caller's token.
DecisionsHold == ClipsHold /\ GatesHold /\ TokensVerify

\* What scripts leave behind is what the next one may rely on.
ArtifactsHold == GpuArtifacts /\ HouseHolds

\* A cycle, a run, an export ends, whatever failed in it.
OfflineEnds == CycleEnds /\ RunsEnd /\ ExportsSettle
=============================================================================
