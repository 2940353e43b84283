----------------------------- MODULE DesignJobs -----------------------------
(***************************************************************************)
(* The voice previews of voice-pipeline/voice_design_dev.py: POST /designs *)
(* counts the submission in a file per token and hour, stores status.json  *)
(* and spawns generate(), which rewrites status.json on a GPU container    *)
(* and leaves audio.wav beside it.  Counter and jobs live on one Volume;   *)
(* every handler reloads before it reads.  One token.                      *)
(***************************************************************************)
EXTENDS Naturals, FiniteSets

CONSTANTS Designs,      \* the submissions that may be made
          DesignWebs,   \* web containers
          Limit,        \* RATE_LIMIT_PER_HOUR
          MaxHours, MaxDeaths  \* bounds on hours and on killed GPU containers

ASSUME DesignAssumption == Limit \in Nat \ {0} /\ {MaxHours, MaxDeaths} \subseteq Nat

VARIABLES
  design,     \* [Designs -> status.json and audio.wav, as committed]
  rate,       \* the token's counter file, as committed
  submission, \* [Designs -> where each submission is]
  counting,   \* [DesignWebs -> the count a handler read and is about to store]
  hour,       \* the wall clock's
  admitted,   \* [Designs -> the hour it was counted in, 0: not counted]
  crossed,      \* a handler stored a count read before another one stored its own
  deaths

designVars == <<design, rate, submission, counting, hour, admitted, crossed, deaths>>

NoDesign == [status |-> "none", audio |-> FALSE]
NotCounting == [design |-> "none", read |-> [hour |-> 0, count |-> 0], hour |-> 0, count |-> 0]

DesignTypeOK ==
  /\ design \in [Designs -> [status : {"none", "queued", "running", "ready", "failed"}, audio : BOOLEAN]]
  /\ rate \in [hour : Nat, count : Nat]
  /\ submission \in [Designs -> {"new", "counting", "body", "refused", "invalid", "spawn", "unspawned",
                                 "spawned", "generating", "written", "over", "died"}]
  /\ hour \in 1 .. MaxHours + 1 /\ admitted \in [Designs -> 0 .. MaxHours + 1]
  /\ crossed \in BOOLEAN /\ deaths \in 0 .. MaxDeaths

DesignInit ==
  /\ design = [d \in Designs |-> NoDesign]
  /\ rate = [hour |-> 0, count |-> 0]
  /\ submission = [d \in Designs |-> "new"]
  /\ counting = [w \in DesignWebs |-> NotCounting]
  /\ hour = 1 /\ admitted = [d \in Designs |-> 0] /\ crossed = FALSE /\ deaths = 0

NextHour ==
  /\ hour <= MaxHours
  /\ hour' = hour + 1
  /\ UNCHANGED <<design, rate, submission, counting, admitted, crossed, deaths>>

\* check_rate_limit up to the comparison; no await, so a container does one at a time
CheckRateLimit(w, d) ==
  LET count == 1 + IF rate.hour = hour THEN rate.count ELSE 0
  IN /\ submission[d] = "new" /\ counting[w] = NotCounting
     /\ IF count > Limit
        THEN submission' = [submission EXCEPT ![d] = "refused"] /\ UNCHANGED counting
        ELSE /\ submission' = [submission EXCEPT ![d] = "counting"]
             /\ counting' = [counting EXCEPT ![w] = [design |-> d, read |-> rate,
                                                     hour |-> hour, count |-> count]]
     /\ UNCHANGED <<design, rate, hour, admitted, crossed, deaths>>

StoreCount(w) ==
  /\ counting[w] # NotCounting
  /\ rate' = [hour |-> counting[w].hour, count |-> counting[w].count]
  /\ crossed' = (crossed \/ rate # counting[w].read)
  /\ admitted' = [admitted EXCEPT ![counting[w].design] = counting[w].hour]
  /\ submission' = [submission EXCEPT ![counting[w].design] = "body"]
  /\ counting' = [counting EXCEPT ![w] = NotCounting]
  /\ UNCHANGED <<design, hour, deaths>>

\* the body is read after it was counted
CreateDesign(d) ==
  /\ submission[d] = "body"
  /\ \/ submission' = [submission EXCEPT ![d] = "invalid"] /\ UNCHANGED design
     \/ /\ submission' = [submission EXCEPT ![d] = "spawn"]
        /\ design' = [design EXCEPT ![d].status = "queued"]
  /\ UNCHANGED <<rate, counting, hour, admitted, crossed, deaths>>

SpawnDesign(d) ==
  /\ submission[d] = "spawn"
  /\ \/ submission' = [submission EXCEPT ![d] = "spawned"] /\ UNCHANGED design
     \/ /\ submission' = [submission EXCEPT ![d] = "unspawned"]
        /\ design' = [design EXCEPT ![d] = NoDesign]
  /\ UNCHANGED <<rate, counting, hour, admitted, crossed, deaths>>

Generation(d, from, to, status) ==
  /\ submission[d] = from
  /\ submission' = [submission EXCEPT ![d] = to]
  /\ design' = [design EXCEPT ![d] = status]
  /\ UNCHANGED <<rate, counting, hour, admitted, crossed, deaths>>

Generate(d) == Generation(d, "spawned", "generating", [design[d] EXCEPT !.status = "running"])

\* sf.write in the container; it may reach the Volume on its own
WriteAudio(d) == \E committed \in BOOLEAN :
  Generation(d, "generating", "written", [design[d] EXCEPT !.audio = committed])

Ready(d) == Generation(d, "written", "over", [status |-> "ready", audio |-> TRUE])

FailDesign(d) == \E from \in {"generating", "written"}, audio \in BOOLEAN :
  /\ audio => from = "written"
  /\ Generation(d, from, "over", [status |-> "failed", audio |-> design[d].audio \/ audio])

\* the container is killed or runs into its ten minutes
DieGenerating(d) ==
  /\ submission[d] \in {"spawned", "generating", "written"} /\ deaths < MaxDeaths
  /\ submission' = [submission EXCEPT ![d] = "died"]
  /\ deaths' = deaths + 1
  /\ UNCHANGED <<design, rate, counting, hour, admitted, crossed>>

GenerateStep(d) == Generate(d) \/ WriteAudio(d) \/ Ready(d) \/ FailDesign(d)
DesignNext == \/ NextHour \/ \E w \in DesignWebs : StoreCount(w) \/ \E d \in Designs : CheckRateLimit(w, d)
              \/ \E d \in Designs : CreateDesign(d) \/ SpawnDesign(d) \/ GenerateStep(d) \/ DieGenerating(d)
DesignFairness == \A d \in Designs : WF_designVars(GenerateStep(d))

-----------------------------------------------------------------------------
\* Whoever is told a preview is ready gets its audio: GET .../audio answers 404
\* "audio missing" to nobody.
ReadyHasAudio == \A d \in Designs : design[d].status = "ready" => design[d].audio

\* The limit bounds what an hour admits unless two containers stored their counts
\* across each other (the comment before check_rate_limit), also over a change of
\* the hour and though what is refused for its body was counted.
RateHolds ==
  ~ crossed => \A h \in 1 .. MaxHours + 1 : Cardinality({d \in Designs : admitted[d] = h}) <= Limit

\* A preview that was spawned is ready or failed in the end, unless its container died.
DesignsSettle ==
  \A d \in Designs : submission[d] = "spawned" ~>
    submission[d] = "died" \/ design[d].status \in {"ready", "failed"}

\* To whoever polls, these jobs are those of JobPromise.
DesignPhase(d) == IF submission[d] = "unspawned" THEN "gone"
                  ELSE IF design[d].status = "ready" THEN "done" ELSE design[d].status
DesignPromise == INSTANCE JobPromise WITH
  PromisedJobs <- Designs, MayRetract <- FALSE, restarts <- 0, phase <- [d \in Designs |-> DesignPhase(d)]

DesignKeepsPromise == DesignPromise!Spec
=============================================================================
