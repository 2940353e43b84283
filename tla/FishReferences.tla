--------------------------- MODULE FishReferences ---------------------------
(***************************************************************************)
(* The reference voices of voice-pipeline/fish_speech_dev.py: a GPU        *)
(* container keeps the recordings it was given, each with its text, in     *)
(* memory and writes the recordings to a Volume that nobody commits or     *)
(* reloads: Modal writes it back, and a container sees what was there when *)
(* it started.  The texts are kept in memory only.                         *)
(***************************************************************************)
EXTENDS Naturals

CONSTANTS References, FishGpus, MaxAdds

ASSUME FishAssumption == MaxAdds \in Nat

VARIABLES
  refVolume,   \* [References -> the version committed, 0: none]
  fish,        \* [FishGpus -> [cache, view, dirty]]
  spoken,      \* the last synthesis: reference, recording and text; version 0: none
  adds         \* versions given so far

fishVars == <<refVolume, fish, spoken, adds>>

NoPair == [audio |-> 0, text |-> 0]
FreshFish == [cache |-> [r \in References |-> NoPair], view |-> refVolume, dirty |-> {}]

FishTypeOK ==
  /\ refVolume \in [References -> 0 .. MaxAdds]
  /\ \A c \in FishGpus : /\ fish[c].cache \in [References -> [audio : 0 .. MaxAdds, text : 0 .. MaxAdds]]
                         /\ fish[c].dirty \subseteq References
  /\ adds \in 0 .. MaxAdds

FishInit ==
  /\ refVolume = [r \in References |-> 0]
  /\ fish = [c \in FishGpus |-> FreshFish]
  /\ spoken = NoPair /\ adds = 0

\* what is no audio raises before anything is written
CacheReference(c, r) ==
  /\ adds < MaxAdds
  /\ adds' = adds + 1
  /\ \/ fish' = [fish EXCEPT ![c] =
          [cache |-> [@.cache EXCEPT ![r] = [audio |-> adds + 1, text |-> adds + 1]],
           view  |-> [@.view EXCEPT ![r] = adds + 1], dirty |-> @.dirty \cup {r}]]
     \/ UNCHANGED fish
  /\ UNCHANGED <<refVolume, spoken>>

\* from memory, else from the mount, where meta.txt is never found; 503 if neither has it
SynthesizeCached(c, r) ==
  LET pair == IF fish[c].cache[r] # NoPair THEN fish[c].cache[r]
              ELSE [audio |-> fish[c].view[r], text |-> 0]
  IN /\ pair # NoPair
     /\ fish' = [fish EXCEPT ![c].cache[r] = pair]
     /\ spoken' = pair
     /\ UNCHANGED <<refVolume, adds>>

CommitReferences(c) ==
  /\ fish[c].dirty # {}
  /\ refVolume' = [r \in References |-> IF r \in fish[c].dirty THEN fish[c].view[r] ELSE refVolume[r]]
  /\ fish' = [fish EXCEPT ![c].dirty = {}]
  /\ UNCHANGED <<spoken, adds>>

\* idle for five minutes, or killed: what was not written back is lost
RestartFish(c) ==
  /\ fish' = [fish EXCEPT ![c] = FreshFish]
  /\ UNCHANGED <<refVolume, spoken, adds>>

FishNext == \E c \in FishGpus : \/ CommitReferences(c) \/ RestartFish(c)
                                \/ \E r \in References : CacheReference(c, r) \/ SynthesizeCached(c, r)

-----------------------------------------------------------------------------
\* No recording is spoken with the text of another, on whichever container and after
\* however many replacements and restarts; and a container speaks with the recording
\* it was given last.
SpokenAsGiven ==
  /\ spoken.text \in {0, spoken.audio}
  /\ \A c \in FishGpus, r \in References :
       fish[c].cache[r] # NoPair => /\ fish[c].cache[r].audio = fish[c].view[r]
                                     /\ fish[c].cache[r].text \in {0, fish[c].view[r]}
=============================================================================
