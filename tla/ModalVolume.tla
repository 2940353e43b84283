----------------------------- MODULE ModalVolume -----------------------------
(***************************************************************************)
(* A Modal Volume as a function from paths to contents.  A container works *)
(* on a view: the committed files as they were when it started or last     *)
(* reloaded.  Modal's, modelled from the reload() and commit() calls of    *)
(* voice-pipeline/intake.py and convert_job.py and what they say of them.  *)
(***************************************************************************)
NoFile == "no file"

(* commit(): the files a container wrote or removed replace the committed  *)
(* ones; of two commits of one file the last one stays.                    *)
Commit(volume, view, dirty) ==
  [f \in DOMAIN volume |-> IF f \in dirty THEN view[f] ELSE volume[f]]

(* rmtree(): the files of a directory that the view has.                   *)
Seen(view, dir) == {f \in dir : view[f] # NoFile}
Without(view, dir) == [f \in DOMAIN view |-> IF f \in dir THEN NoFile ELSE view[f]]
=============================================================================
