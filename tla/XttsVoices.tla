----------------------------- MODULE XttsVoices -----------------------------
(***************************************************************************)
(* The voices of voice-pipeline/xtts_clone.py: clone() stores a reference  *)
(* recording on a Volume, judges it, and writes meta.json only when the    *)
(* voice has spoken; the id is a hash of the recording, so that the same   *)
(* upload is the same voice.  Calls go to any GPU container that is free,  *)
(* one at a time to each.                                                  *)
(***************************************************************************)
EXTENDS ModalVolume, Naturals

CONSTANTS XttsIds,      \* the recordings that are uploaded, by their hash
          Usable,       \* those of a length clone() accepts
          XttsGpus, MaxXttsCalls

ASSUME XttsAssumption == Usable \subseteq XttsIds /\ MaxXttsCalls \in Nat

VARIABLES
  xtts,       \* the committed files
  xttsGpu,    \* [XttsGpus -> what the container does, its view, what it did not commit]
  erased,     \* voices whose DELETE was answered "deleted", and not uploaded since
  overlapped, \* voices deleted while a container held a clone of them, done or not
  xttsCalls

xttsVars == <<xtts, xttsGpu, erased, overlapped, xttsCalls>>

XttsDir(v) == {v} \X {"reference.wav", "meta.json"}
XttsFiles  == XttsIds \X {"reference.wav", "meta.json"}
NoXtts     == [f \in XttsFiles |-> NoFile]
Waiting(view, dirty) == [pc |-> "idle", voice |-> "none", view |-> view, dirty |-> dirty]

XttsTypeOK ==
  /\ xtts \in [XttsFiles -> {NoFile, "there"}]
  /\ \A c \in XttsGpus : /\ xttsGpu[c].pc \in {"idle", "validate", "warm", "rmtree"}
                         /\ xttsGpu[c].dirty \subseteq XttsFiles
  /\ erased \subseteq XttsIds /\ overlapped \subseteq XttsIds /\ xttsCalls \in 0 .. MaxXttsCalls

XttsInit ==
  /\ xtts = NoXtts
  /\ xttsGpu = [c \in XttsGpus |-> Waiting(NoXtts, {})]
  /\ erased = {} /\ overlapped = {} /\ xttsCalls = 0

Become(c, state) == xttsGpu' = [xttsGpu EXCEPT ![c] = state]
\* reload(): what the container wrote and did not commit stays as it wrote it
Reloaded(c) == Commit(xtts, xttsGpu[c].view, xttsGpu[c].dirty)
Called(c) == /\ xttsGpu[c].pc = "idle" /\ xttsCalls < MaxXttsCalls
             /\ xttsCalls' = xttsCalls + 1
Cloning(v) == \E c \in XttsGpus : xttsGpu[c].pc \in {"validate", "warm"} /\ xttsGpu[c].voice = v

\* POST /voices, unless meta.json is there: clone() begins with the file
CreateXtts(c, v) ==
  /\ Called(c) /\ xtts[<<v, "meta.json">>] = NoFile
  /\ Become(c, [pc |-> "validate", voice |-> v,
                view |-> [xttsGpu[c].view EXCEPT ![<<v, "reference.wav">>] = "there"],
                dirty |-> xttsGpu[c].dirty \cup {<<v, "reference.wav">>}])
  /\ erased' = erased \ {v}
  /\ overlapped' = IF \E d \in XttsGpus : xttsGpu[d].pc = "rmtree" /\ xttsGpu[d].voice = v
                   THEN overlapped \cup {v} ELSE overlapped
  /\ UNCHANGED xtts

\* too short, too long or no audio: the call raises and leaves the file
ValidateXtts(c) ==
  /\ xttsGpu[c].pc = "validate"
  /\ Become(c, IF xttsGpu[c].voice \in Usable THEN [xttsGpu[c] EXCEPT !.pc = "warm"]
               ELSE Waiting(xttsGpu[c].view, xttsGpu[c].dirty))
  /\ UNCHANGED <<xtts, erased, overlapped, xttsCalls>>

\* the phrase that warms it up fails, or the voice is ready and committed
FinishXtts(c) ==
  LET v    == xttsGpu[c].voice
      view == [xttsGpu[c].view EXCEPT ![<<v, "meta.json">>] = "there"]
  IN /\ xttsGpu[c].pc = "warm"
     /\ \/ Become(c, Waiting(xttsGpu[c].view, xttsGpu[c].dirty)) /\ UNCHANGED xtts
        \/ /\ xtts' = Commit(xtts, view, xttsGpu[c].dirty \cup {<<v, "meta.json">>})
           /\ Become(c, Waiting(view, {}))
     /\ UNCHANGED <<erased, overlapped, xttsCalls>>

\* DELETE: reload, then rmtree and commit if there is a directory
DeleteXtts(c, v) ==
  /\ Called(c)
  /\ IF Seen(Reloaded(c), XttsDir(v)) = {} THEN Become(c, Waiting(Reloaded(c), xttsGpu[c].dirty))
     ELSE Become(c, [pc |-> "rmtree", voice |-> v, view |-> Reloaded(c), dirty |-> xttsGpu[c].dirty])
  /\ overlapped' = IF Cloning(v) THEN overlapped \cup {v} ELSE overlapped
  /\ UNCHANGED <<xtts, erased>>

RemoveXtts_MetaOnly(c) ==
  LET v    == xttsGpu[c].voice
      view == [xttsGpu[c].view EXCEPT ![<<v, "meta.json">>] = NoFile]
  IN /\ xttsGpu[c].pc = "rmtree"
     /\ xtts' = Commit(xtts, view, xttsGpu[c].dirty \cup {<<v, "meta.json">>})
     /\ Become(c, Waiting(view, {}))
     /\ erased' = erased \cup {v}
     /\ UNCHANGED <<overlapped, xttsCalls>>

RemoveXtts(c) ==
  LET v    == xttsGpu[c].voice
      gone == Seen(xttsGpu[c].view, XttsDir(v))
      view == Without(xttsGpu[c].view, XttsDir(v))
  IN /\ xttsGpu[c].pc = "rmtree"
     /\ xtts' = Commit(xtts, view, xttsGpu[c].dirty \cup gone)
     /\ Become(c, Waiting(view, {}))
     /\ erased' = IF Cloning(v) THEN erased ELSE erased \cup {v}
     /\ overlapped' = IF \E d \in XttsGpus \ {c} : xttsGpu[d].dirty \cap XttsDir(v) # {}
                      THEN overlapped \cup {v} ELSE overlapped
     /\ UNCHANGED xttsCalls

\* synthesize() and get_meta() reload and read
ReadXtts(c) ==
  /\ Called(c) /\ Become(c, Waiting(Reloaded(c), xttsGpu[c].dirty))
  /\ UNCHANGED <<xtts, erased, overlapped>>

\* Modal writes a Volume back now and then, and ends a container that is idle
CommitXtts(c) ==
  /\ xttsGpu[c].dirty # {}
  /\ xtts' = Reloaded(c)
  /\ Become(c, [xttsGpu[c] EXCEPT !.dirty = {}])
  /\ UNCHANGED <<erased, overlapped, xttsCalls>>

RecycleXtts(c) ==
  /\ xttsGpu[c].pc = "idle" /\ xttsGpu[c].dirty = {} /\ xttsGpu[c].view # xtts
  /\ Become(c, Waiting(xtts, {}))
  /\ UNCHANGED <<xtts, erased, overlapped, xttsCalls>>

XttsNext == \E c \in XttsGpus :
  \/ ValidateXtts(c) \/ FinishXtts(c) \/ RemoveXtts(c) \/ ReadXtts(c) \/ CommitXtts(c) \/ RecycleXtts(c)
  \/ \E v \in XttsIds : CreateXtts(c, v) \/ DeleteXtts(c, v)

-----------------------------------------------------------------------------
\* A voice that says "ready" can speak: its recording is on the Volume and was found
\* usable, unless a DELETE overlapped its clone.  (That a recording that was refused
\* cannot be spoken with is false: clone() leaves it in place.)
MetaMeansVoice ==
  \A v \in XttsIds \ overlapped :
    xtts[<<v, "meta.json">>] # NoFile => xtts[<<v, "reference.wav">>] # NoFile /\ v \in Usable

\* Of a voice whose deletion was confirmed nothing is left or comes back with a later
\* commit of another container, unless one still held a clone of it.
ErasedIsGone == \A v \in erased \ overlapped : Seen(xtts, XttsDir(v)) = {}
=============================================================================
