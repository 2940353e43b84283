---------------------------- MODULE ResearchCycle ----------------------------
(***************************************************************************)
(* The research harness: run_cycle trains and evaluates the candidates of  *)
(* a recipe in its order until the budget is used up, writes one report    *)
(* and remembers in tts_core_tried.json what was trained, so that no later *)
(* cycle pays for it again.  The process may be killed at any step; a      *)
(* training it waited for then runs on in its GPU container.               *)
(***************************************************************************)
EXTENDS Naturals, Sequences, SequencesExt, FiniteSets

CONSTANTS Variants,    \* KNOWN_SIZE_VARIANTS: the candidates, in their order
          Estimate,    \* [candidates -> estimated cost]
          Budget,      \* the cap of a cycle
          Overrun,     \* bound on what a training costs more than estimated
          MaxCycles, MaxKills

Candidates == {Variants[i] : i \in DOMAIN Variants}
ASSUME CycleAssumption ==
  /\ Variants \in Seq(Candidates) /\ IsInjective(Variants)
  /\ Estimate \in [Candidates -> Nat] /\ {Budget, Overrun, MaxCycles, MaxKills} \subseteq Nat

VARIABLES
  tried,     \* the keys of tts_core_tried.json
  reported,  \* the candidates some report names as trained
  day,       \* each cycle is of its own day: the report's file name is the date
  cycle,     \* the running cycle
  runs,      \* [candidates -> trainings that were started]
  lost,      \* candidates whose training failed, or whose cycle was killed
  kills

cycleVars == <<tried, reported, day, cycle, runs, lost, kills>>

\* results: what the report will say, in order: candidate, status and cost
NoCycle == [pc |-> "none", queue |-> <<>>, spent |-> 0, results |-> <<>>, unrecorded |-> <<>>]
Result(c, status, cost) == [candidate |-> c, status |-> status, cost |-> cost]

CycleInit ==
  /\ tried = {} /\ reported = {} /\ day = 0 /\ cycle = NoCycle
  /\ runs = [c \in Candidates |-> 0] /\ lost = {} /\ kills = 0

\* the candidates no file names yet, in the recipe's order
AddUntried(q, c) == IF c \in tried THEN q ELSE Append(q, c)
Untried == FoldLeft(AddUntried, <<>>, Variants)

DiscoverCandidates ==
  /\ cycle.pc = "none" /\ day < MaxCycles
  /\ day' = day + 1
  /\ cycle' = [NoCycle EXCEPT !.pc = "next", !.queue = Untried]
  /\ UNCHANGED <<tried, reported, runs, lost, kills>>

Affordable == cycle.spent + Estimate[Head(cycle.queue)] <= Budget

StopAtBudget_SkipsOne ==
  /\ cycle.pc = "next" /\ cycle.queue # <<>> /\ ~ Affordable
  /\ cycle' = [cycle EXCEPT !.queue = Tail(@),
                 !.results = Append(@, Result(Head(cycle.queue), "skipped", 0))]
  /\ UNCHANGED <<tried, reported, day, runs, lost, kills>>

\* the cycle ends here: a cheaper candidate further down is not looked at
StopAtBudget ==
  /\ cycle.pc = "next" /\ cycle.queue # <<>> /\ ~ Affordable
  /\ cycle' = [cycle EXCEPT !.pc = "report", !.queue = <<>>,
                 !.results = @ \o [i \in DOMAIN cycle.queue |->
                                     Result(cycle.queue[i], "skipped", Estimate[cycle.queue[i]])]]
  /\ UNCHANGED <<tried, reported, day, runs, lost, kills>>

Train ==
  /\ cycle.pc = "next" /\ cycle.queue # <<>> /\ Affordable
  /\ cycle' = [cycle EXCEPT !.pc = "training"]
  /\ runs' = [runs EXCEPT ![Head(cycle.queue)] = @ + 1]
  /\ UNCHANGED <<tried, reported, day, lost, kills>>

\* recipe.train raised: the job failed, or did not end within its eight hours
TrainingFails ==
  /\ cycle.pc = "training"
  /\ LET c == Head(cycle.queue) IN
       /\ cycle' = [cycle EXCEPT !.pc = "next", !.queue = Tail(@), !.spent = @ + Estimate[c],
                                 !.results = Append(@, Result(c, "failed", Estimate[c]))]
       /\ lost' = lost \cup {c}
  /\ UNCHANGED <<tried, reported, day, runs, kills>>

\* the elapsed time is the cost, whatever was estimated; the job returns its
\* directory even where piper.train exited with an error
TrainingEnds ==
  /\ cycle.pc = "training"
  /\ \E cost \in 0 .. Estimate[Head(cycle.queue)] + Overrun :
       cycle' = [cycle EXCEPT !.pc = "evaluate", !.spent = @ + cost,
                   !.results = Append(@, Result(Head(cycle.queue), "training", cost))]
  /\ UNCHANGED <<tried, reported, day, runs, lost, kills>>

\* with metrics or with the error evaluate() raised: the candidate is trained
EvaluateModel ==
  /\ cycle.pc = "evaluate"
  /\ cycle' = [cycle EXCEPT !.pc = "next", !.queue = Tail(@),
                            !.results[Len(cycle.results)].status = "trained"]
  /\ UNCHANGED <<tried, reported, day, runs, lost, kills>>

CandidatesDone ==
  /\ cycle.pc = "next" /\ cycle.queue = <<>>
  /\ cycle' = [cycle EXCEPT !.pc = "report"]
  /\ UNCHANGED <<tried, reported, day, runs, lost, kills>>

TrainedIn(results) == {r.candidate : r \in {r \in ToSet(results) : r.status = "trained"}}

WriteReport ==
  /\ cycle.pc = "report"
  /\ reported' = reported \cup TrainedIn(cycle.results)
  /\ cycle' = [cycle EXCEPT !.pc = "record", !.unrecorded = cycle.results]
  /\ UNCHANGED <<tried, day, runs, lost, kills>>

\* one result: if it was trained, the file is read, extended and replaced in one piece
RecordTried ==
  /\ cycle.pc = "record" /\ cycle.unrecorded # <<>>
  /\ tried' = tried \cup TrainedIn(<<Head(cycle.unrecorded)>>)
  /\ cycle' = [cycle EXCEPT !.unrecorded = Tail(@)]
  /\ UNCHANGED <<reported, day, runs, lost, kills>>

CycleOver ==
  /\ cycle.pc = "record" /\ cycle.unrecorded = <<>>
  /\ cycle' = NoCycle
  /\ UNCHANGED <<tried, reported, day, runs, lost, kills>>

\* the process dies; what was trained and not recorded will be trained again
Kill ==
  /\ cycle.pc # "none" /\ kills < MaxKills
  /\ kills' = kills + 1
  /\ lost' = lost \cup {c \in Candidates : runs[c] > 0 /\ c \notin tried}
  /\ cycle' = NoCycle
  /\ UNCHANGED <<tried, reported, day, runs>>

CycleStep == \/ StopAtBudget \/ Train \/ TrainingFails \/ TrainingEnds \/ EvaluateModel
             \/ CandidatesDone \/ WriteReport \/ RecordTried \/ CycleOver
CycleNext == DiscoverCandidates \/ CycleStep \/ Kill
CycleFairness == WF_cycleVars(CycleStep)

-----------------------------------------------------------------------------
CycleTypeOK ==
  /\ tried \subseteq Candidates /\ reported \subseteq Candidates /\ lost \subseteq Candidates
  /\ cycle.pc \in {"none", "next", "training", "evaluate", "report", "record"}

\* No candidate is paid for twice, unless its training failed or a cycle was killed
\* before it was recorded: what is trained is remembered even if it could not be
\* evaluated (record_tried's docstring).
PaidOnce == \A c \in Candidates : runs[c] > 1 => c \in lost

\* What is remembered has been reported, and money spent is accounted for: the sum
\* over the results of the cycle.
SpentOf(rs) == SumFunction([i \in DOMAIN rs |-> IF rs[i].status = "skipped" THEN 0 ELSE rs[i].cost])
Accounted == tried \subseteq reported /\ cycle.spent = SpentOf(cycle.results)

\* The recipe's order is respected: nothing is trained behind a candidate that was
\* skipped, and without the overruns the cap holds ("a hard budget cap").
OrderAndCap ==
  /\ \A i, j \in DOMAIN cycle.results :
       i < j /\ cycle.results[i].status = "skipped" => cycle.results[j].status = "skipped"
  /\ cycle.spent <= Budget + Overrun

CycleAccounts == CycleTypeOK /\ PaidOnce /\ Accounted /\ OrderAndCap

\* A cycle that is started ends with its report, or is killed.
CycleEnds == \A k \in 0 .. MaxKills : (cycle.pc # "none" /\ kills = k) ~> (cycle.pc = "none" \/ kills > k)
=============================================================================
