---------------------------- MODULE OrpheusVolume ----------------------------
(***************************************************************************)
(* The files of one custom voice on a Modal Volume, and what a container   *)
(* may do to them (voice-pipeline/orpheus_clone_prod/storage.py).          *)
(*                                                                         *)
(* A Volume is not a shared live filesystem: a container works on a        *)
(* snapshot (its view), its writes (the dirty files) reach the others at   *)
(* its commit, theirs reach it at its reload, and two commits of one file  *)
(* resolve to the last one.  That part is Modal's; it is modelled from     *)
(* what api.py, main.py and train_job.py say of it and rely on.            *)
(***************************************************************************)
CONSTANT Jobs       \* the training runs that may ever be spawned

Statuses == {"absent", "awaiting_dataset", "training", "warming", "ready", "failed"}

(* Definitions named X_Y are mutants: the X a plausible bug would leave.   *)
CommittableStatuses_Ready    == {"awaiting_dataset", "failed", "ready"}
CommittableStatuses_Training == {"awaiting_dataset", "failed", "training"}

(* api.py: statuses a voice may be committed from, and those a job owns.   *)
CommittableStatuses == {"awaiting_dataset", "failed"}
InFlightStatuses    == {"training", "warming"}

NoJob == "no job"

ASSUME JobsAssumption == NoJob \notin Jobs

-----------------------------------------------------------------------------
(* One voice's directory: manifest.json (status and dataset_uploaded), the *)
(* customer's upload.zip, the clips the job extracts from it, the merged   *)
(* checkpoint (named by the run that saved it), and the delete marker.     *)
Files == {"manifest", "upload", "clips", "merged", "marker"}

Manifest(s, u) == [status |-> s, uploaded |-> u]
Manifests      == [status : Statuses, uploaded : BOOLEAN]

Trees == [manifest : Manifests, upload : BOOLEAN, clips : BOOLEAN,
          merged : Jobs \cup {NoJob}, marker : BOOLEAN]

NoVoice == [manifest |-> Manifest("absent", FALSE), upload |-> FALSE, clips |-> FALSE,
            merged |-> NoJob, marker |-> FALSE]

-----------------------------------------------------------------------------
(* What the store reads.                                                   *)
Exists(t)            == t.manifest.status # "absent"
Status(t)            == t.manifest.status
InFlight(t)          == Status(t) \in InFlightStatuses
IsDeleteRequested(t) == t.marker

Resolves_IgnoresMarker(t) == Status(t) \in {"ready", "warming"}

(* serve.resolve_voice_dir: the one authority on what may be served.       *)
Resolves(t) == Status(t) \in {"ready", "warming"} /\ ~ IsDeleteRequested(t)

PendingDelete_ReadyOnly(t) == Status(t) = "ready" /\ IsDeleteRequested(t)

(* api.complete_pending_delete: a deletion is owed and no run is in flight.*)
PendingDelete(t) == ~ InFlight(t) /\ IsDeleteRequested(t)

-----------------------------------------------------------------------------

(* What the store writes, in a view.                                       *)
WriteStatus(t, s)     == [t EXCEPT !.manifest.status = s]
MarkUploaded(t)       == [t EXCEPT !.manifest.uploaded = TRUE]
RequestDelete(t)      == [t EXCEPT !.marker = TRUE]
SaveCheckpoint(t, j)  == [t EXCEPT !.merged = j]

(* delete() is an rmtree of the view: it names the files the view has, so  *)
(* a file another container committed since is left where it is.           *)
FilesOf(t) == {f \in Files : t[f] # NoVoice[f]}

-----------------------------------------------------------------------------
(* Volume.commit(): the dirty files of a view replace the committed ones.  *)
Commit(volume, view, dirty) ==
  [manifest |-> IF "manifest" \in dirty THEN view.manifest ELSE volume.manifest,
   upload   |-> IF "upload"   \in dirty THEN view.upload   ELSE volume.upload,
   clips    |-> IF "clips"    \in dirty THEN view.clips    ELSE volume.clips,
   merged   |-> IF "merged"   \in dirty THEN view.merged   ELSE volume.merged,
   marker   |-> IF "marker"   \in dirty THEN view.marker   ELSE volume.marker]
=============================================================================
