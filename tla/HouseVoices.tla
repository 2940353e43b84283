----------------------------- MODULE HouseVoices -----------------------------
(***************************************************************************)
(* The house voices: export_voices.py and export_v2.py write them to a     *)
(* Volume from containers that stay warm between calls, export_v2.py       *)
(* merges what the calls return into catalog.json, and publish_voice.py    *)
(* puts voices of the Volume on the production server.  Some upstream      *)
(* configurations name the wrong phonemizer; both exports correct it.      *)
(***************************************************************************)
EXTENDS Naturals, Sequences, SequencesExt, FiniteSets

CONSTANTS Voices,        \* voice ids
          Mislabelled,   \* those whose shipped espeak.voice is wrong
          TierB,         \* those that descend from the research-only base
          Groups,        \* entries of one source model, in chunks: sequences of voices
          MaxAttempts,   \* calls of a group: three
          MaxHouseRuns   \* bound on how often the exports are started

ASSUME HouseAssumption == /\ Mislabelled \subseteq Voices /\ TierB \subseteq Voices
                          /\ Groups \subseteq Seq(Voices)
                          /\ MaxAttempts \in Nat \ {0} /\ MaxHouseRuns \in Nat

VARIABLES
  houseVolume,  \* [Voices -> what is committed]
  houseMount,   \* [Voices -> what the warm container wrote since its last commit]
  exporting,    \* the call the container works on
  calls,        \* [Groups -> where main's call of it is]
  catalog,      \* the voices of catalog.json, with the phonemizer it names
  production,   \* [Voices -> what the server has]
  houseRuns

houseVars == <<houseVolume, houseMount, exporting, calls, catalog, production, houseRuns>>

Files == {"model.onnx", "model.onnx.json", "owner.json"}
NoVoice == [files |-> {}, espeak |-> "none"]
Idle == [group |-> <<>>, at |-> 0]
NoCall == [at |-> "none", attempt |-> 0]

Expected(v) == "of its locale"
Shipped(v) == IF v \in Mislabelled THEN "of another" ELSE Expected(v)

Overridden(v) == IF Shipped(v) # Expected(v) THEN Expected(v) ELSE Shipped(v)
Exported(v) == [files |-> Files, espeak |-> Overridden(v)]

HouseInit ==
  /\ houseVolume = [v \in Voices |-> NoVoice] /\ houseMount = houseVolume
  /\ exporting = Idle /\ calls = [g \in Groups |-> NoCall]
  /\ catalog = [v \in Voices |-> "none"] /\ production = houseVolume /\ houseRuns = 0

CommitHouse == [v \in Voices |-> IF houseMount[v] # NoVoice THEN houseMount[v] ELSE houseVolume[v]]

\* _export_one: all files are written from a work directory and committed; the
\* samples come after that, and where they fail the voice stays on the Volume
ExportOne ==
  /\ exporting = Idle /\ houseRuns < MaxHouseRuns
  /\ \E v \in Voices :
       houseVolume' = [CommitHouse EXCEPT ![v] = [files |-> Files, espeak |-> Overridden(v)]]
  /\ houseRuns' = houseRuns + 1
  /\ houseMount' = [v \in Voices |-> NoVoice]
  /\ UNCHANGED <<exporting, calls, catalog, production>>

Main ==
  /\ houseRuns < MaxHouseRuns /\ \A g \in Groups : calls[g] = NoCall
  /\ \E todo \in SUBSET Groups : calls' = [g \in Groups |-> IF g \in todo THEN [at |-> "call", attempt |-> 1] ELSE NoCall]
  /\ houseRuns' = houseRuns + 1
  /\ UNCHANGED <<houseVolume, houseMount, exporting, catalog, production>>

Call(g) ==
  /\ calls[g].at = "call" /\ exporting = Idle
  /\ exporting' = [group |-> g, at |-> 1]
  /\ calls' = [calls EXCEPT ![g].at = "running"]
  /\ UNCHANGED <<houseVolume, houseMount, catalog, production, houseRuns>>

\* one entry: model, corrected configuration and owner.json; then the samples
ExportEntry ==
  /\ exporting.at \in DOMAIN exporting.group
  /\ houseMount' = [houseMount EXCEPT ![exporting.group[exporting.at]] = Exported(exporting.group[exporting.at])]
  /\ exporting' = [exporting EXCEPT !.at = @ + 1]
  /\ UNCHANGED <<houseVolume, calls, catalog, production, houseRuns>>

Answered(how) == [calls EXCEPT ![exporting.group].at = IF @ = "running" THEN how ELSE @]

\* any exception fails the entries of the whole group; nothing is committed, and
\* what was written stays in the container for its next commit
ExportFails ==
  /\ exporting # Idle /\ exporting.at <= Len(exporting.group)
  /\ exporting' = Idle /\ calls' = Answered("failed")
  /\ \E written \in BOOLEAN :  \* before or after the files of the entry
       houseMount' = IF written THEN [houseMount EXCEPT ![exporting.group[exporting.at]] =
                                        Exported(exporting.group[exporting.at])] ELSE houseMount
  /\ UNCHANGED <<houseVolume, catalog, production, houseRuns>>

ExportDone_NoCommit ==
  /\ exporting # Idle /\ exporting.at > Len(exporting.group)
  /\ exporting' = Idle /\ calls' = Answered("done")
  /\ UNCHANGED <<houseVolume, houseMount, catalog, production, houseRuns>>

ExportDone ==
  /\ exporting # Idle /\ exporting.at > Len(exporting.group)
  /\ houseVolume' = CommitHouse /\ houseMount' = [v \in Voices |-> NoVoice]
  /\ exporting' = Idle /\ calls' = Answered("done")
  /\ UNCHANGED <<catalog, production, houseRuns>>

CallLost_Retries(g) ==
  /\ calls[g].at = "running"
  /\ calls' = [calls EXCEPT ![g].at = "call"]
  /\ UNCHANGED <<houseVolume, houseMount, exporting, catalog, production, houseRuns>>

\* the answer does not arrive: the call is made again while the first may go on
CallLost(g) ==
  /\ calls[g].at = "running"
  /\ calls' = [calls EXCEPT ![g] = IF @.attempt < MaxAttempts
                                   THEN [at |-> "call", attempt |-> @.attempt + 1]
                                   ELSE [@ EXCEPT !.at = "failed"]]
  /\ UNCHANGED <<houseVolume, houseMount, exporting, catalog, production, houseRuns>>

\* the catalogue names the phonemizer of the source, not the corrected one
MergeResult(g) ==
  /\ calls[g].at \in {"done", "failed"}
  /\ catalog' = IF calls[g].at = "failed" THEN catalog
                ELSE [v \in Voices |-> IF v \in ToSet(g) THEN Shipped(v) ELSE catalog[v]]
  /\ calls' = [calls EXCEPT ![g] = NoCall]
  /\ UNCHANGED <<houseVolume, houseMount, exporting, production, houseRuns>>

\* the tier is the catalogue's: a voice it does not know passes
Allowed(v, allowTierB) == catalog[v] # "none" /\ v \in TierB => allowTierB

Publish(v) ==
  /\ \E allowTierB \in BOOLEAN : Allowed(v, allowTierB)
  /\ houseVolume[v].files = Files
  /\ production' = [production EXCEPT ![v] = houseVolume[v]]
  /\ UNCHANGED <<houseVolume, houseMount, exporting, calls, catalog, houseRuns>>

HouseStep == ExportEntry \/ ExportDone \/ \E g \in Groups : Call(g) \/ MergeResult(g)
HouseNext == \/ ExportOne \/ Main \/ HouseStep \/ ExportFails
             \/ (\E g \in Groups : CallLost(g)) \/ \E v \in Voices : Publish(v)
HouseFairness == WF_houseVars(HouseStep)

-----------------------------------------------------------------------------
HouseTypeOK == /\ \A v \in Voices : {houseVolume[v].files, production[v].files} \subseteq {{}, Files}
               /\ \A g \in Groups : calls[g].attempt <= MaxAttempts

\* What the catalogue offers is on the Volume, whatever failed, was repeated or is
\* still running when its answer was merged.
CatalogIsOnVolume == \A v \in Voices : catalog[v] # "none" => houseVolume[v].files = Files

\* No voice speaks with another language's phonemes, on the Volume or in production,
\* whichever script exported it (the upstream bug both correct).
SpeaksItsLanguage == \A v \in Voices : \A x \in {houseVolume[v], houseMount[v], production[v]} :
                       x # NoVoice => x.espeak = Expected(v)

HouseHolds == HouseTypeOK /\ CatalogIsOnVolume /\ SpeaksItsLanguage

\* Every call of the export is answered or given up.
ExportsSettle == (\E g \in Groups : calls[g] # NoCall) ~> (\A g \in Groups : calls[g] = NoCall)
=============================================================================
