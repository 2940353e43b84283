-------------------------------- MODULE MCJobs --------------------------------
(* The services that work in the background for those who poll them, and   *)
(* the development services that keep voices on a Volume, on small         *)
(* instances: a behaviour is one of each, the others are not called.       *)
EXTENDS ConvertJobs, DubbingJobs, VoiceIntake, DesignJobs, XttsVoices, FishReferences

VARIABLE service

Init == /\ service \in {"convert", "dubbing", "intake", "design", "xtts", "fish"}
        /\ ConvertInit /\ DubInit /\ IntakeInit /\ DesignInit /\ XttsInit /\ FishInit

drafts  == <<designVars, xttsVars, fishVars>>
Convert == service = "convert" /\ ConvertNext /\ UNCHANGED <<service, dubVars, intakeVars, drafts>>
Dub     == service = "dubbing" /\ DubNext /\ UNCHANGED <<service, convertVars, intakeVars, drafts>>
Intake  == service = "intake" /\ IntakeNext /\ UNCHANGED <<service, convertVars, dubVars, drafts>>
Design  == service = "design" /\ DesignNext
           /\ UNCHANGED <<service, convertVars, dubVars, intakeVars, xttsVars, fishVars>>
Xtts    == service = "xtts" /\ XttsNext
           /\ UNCHANGED <<service, convertVars, dubVars, intakeVars, designVars, fishVars>>
Fish    == service = "fish" /\ FishNext
           /\ UNCHANGED <<service, convertVars, dubVars, intakeVars, designVars, xttsVars>>
Next    == Convert \/ Dub \/ Intake \/ Design \/ Xtts \/ Fish

vars == <<service, convertVars, dubVars, intakeVars, drafts>>
Spec == Init /\ [][Next]_vars /\ ConvertFairness /\ DubFairness /\ IntakeFairness /\ DesignFairness

(* Each service keeps the promise JobPromise states to those who poll it.  *)
JobsKeepPromise == ConvertKeepsPromise /\ DubbingKeepsPromise /\ DesignKeepsPromise

(* Each service settles what it accepts.                                   *)
EverythingSettles == ConvertSettles /\ DubbingSettles /\ TrainingSettles /\ DesignsSettle

(* What the development services say of their previews and voices holds.   *)
DraftsHold == /\ DesignTypeOK /\ XttsTypeOK /\ FishTypeOK
              /\ ReadyHasAudio /\ RateHolds /\ MetaMeansVoice /\ ErasedIsGone /\ SpokenAsGiven
=============================================================================
