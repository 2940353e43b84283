------------------------------ MODULE VoiceCache ------------------------------
(***************************************************************************)
(* The published voices of one Piper worker machine: the objects in the    *)
(* bucket, the machine's LRU disk cache of them (voice_storage.py) and the *)
(* engines loaded from it (server.py get_engine), used by the threads of   *)
(* the synthesis pool while the pipeline publishes and deletes voices.     *)
(*                                                                         *)
(* A voice is three objects.  Its content is abstracted to the publication *)
(* each object comes from, 0 for an object that is not there.  Threads are *)
(* cut at the storage calls, the file operations and the two locks; what   *)
(* one lock protects is one step.                                          *)
(***************************************************************************)
EXTENDS Naturals, FiniteSets, Sequences, SequencesExt

CONSTANTS Voices,
          Threads,           \* the pool's threads, one request each
          MaxCached,         \* MAX_CACHED_VOICE_FILES
          MaxEngines,        \* MAX_VOICES
          MaxPublications,   \* bound on the publications of one behaviour
          MaxFailures        \* bound on the storage calls that raise

ASSUME CacheAssumption ==
  /\ MaxCached \in Nat \ {0} /\ MaxEngines \in Nat \ {0}
  /\ MaxPublications \in Nat /\ MaxFailures \in Nat
  /\ "no voice" \notin Voices

VARIABLES
  bucket,      \* [Voices -> the content of its objects]
  disk,        \* [Voices -> the content of its local directory]
  lru,         \* VoiceStorage._lru, the oldest first
  fetching,    \* VoiceStorage._fetching
  engines,     \* [Voices -> the content its loaded engine was read from]
  engineOrder, \* server._voices, the oldest first
  thread,      \* [Threads -> the request in get_engine]
  admin,       \* the PUT or DELETE that the event loop is in
  published,   \* publications so far
  failures,    \* storage calls that raised so far
  (* Ghost: the last PUT or DELETE of the voice overtook a fetch of it, or *)
  (* raised half-way.                                                      *)
  doubt

vars == <<bucket, disk, lru, fetching, engines, engineOrder, thread, admin,
          published, failures, doubt>>

-----------------------------------------------------------------------------
Files == {"model.onnx", "model.onnx.json", "owner.json"}

(* VOICE_FILES of voice_storage.py is a tuple: get() and delete() go       *)
(* through it in this order.                                               *)
FirstOf(files) ==
  IF "model.onnx" \in files THEN "model.onnx"
  ELSE IF "model.onnx.json" \in files THEN "model.onnx.json" ELSE "owner.json"

Publications == 0 .. MaxPublications
Contents     == [Files -> Publications]
Nothing      == [f \in Files |-> 0]

IsDir(v) == disk[v] # Nothing

(* An OrderedDict: its keys, pop, and insertion with move_to_end.          *)
Members(order)     == ToSet(order)
Position(order, v) == CHOOSE i \in DOMAIN order : order[i] = v
Without(order, v)  == IF v \in Members(order) THEN RemoveAt(order, Position(order, v)) ELSE order
Touched(order, v)  == Append(Without(order, v), v)

(* while len(order) > max: popitem(last=False).                            *)

Kept(order, max) ==
  IF Len(order) > max THEN SubSeq(order, Len(order) - max + 1, Len(order)) ELSE order

Cached(v) == v \in Members(lru) /\ IsDir(v)

Flying   == {"download", "replace", "rename", "failed", "not_found", "renamed"}
Answered == {"idle", "served", "unknown", "error"}

(* meta: the publication of the owner.json that admitted the request;      *)
(* calm, a ghost: nothing touched the voice since the request came.        *)
Requests == [pc: Flying \cup Answered \cup {"wait", "reread", "meta", "engine"},
             voice: Voices \cup {"no voice"}, tmp: Contents, todo: SUBSET Files,
             meta: Publications, engine: Contents, calm: BOOLEAN]

NoRequest == [pc |-> "idle", voice |-> "no voice", tmp |-> Nothing, todo |-> {},
              meta |-> 0, engine |-> Nothing, calm |-> TRUE]

Operations == [pc: {"idle", "put", "delete", "pop", "rmtree", "evict"},
               voice: Voices \cup {"no voice"}, todo: SUBSET Files]

NoOperation == [pc |-> "idle", voice |-> "no voice", todo |-> {}]

TypeOK ==
  /\ bucket      \in [Voices -> Contents]
  /\ disk        \in [Voices -> Contents]
  /\ lru         \in Seq(Voices) /\ Len(lru) <= MaxCached
  /\ fetching    \subseteq Voices
  /\ engines     \in [Voices -> Contents]
  /\ engineOrder \in Seq(Voices) /\ Len(engineOrder) <= MaxEngines
  /\ thread      \in [Threads -> Requests]
  /\ admin       \in Operations
  /\ published   \in Publications
  /\ failures    \in 0 .. MaxFailures
  /\ doubt       \in [Voices -> BOOLEAN]

Init ==
  /\ bucket      = [v \in Voices |-> Nothing]
  /\ disk        = [v \in Voices |-> Nothing]
  /\ lru         = <<>>
  /\ fetching    = {}
  /\ engines     = [v \in Voices |-> Nothing]
  /\ engineOrder = <<>>
  /\ thread      = [t \in Threads |-> NoRequest]
  /\ admin       = NoOperation
  /\ published   = 0
  /\ failures    = 0
  /\ doubt       = [v \in Voices |-> FALSE]

(* Every thread that is busy with a voice of V, from now on not calm.      *)
Disturbed(threads, V) ==
  [t \in Threads |-> [threads[t] EXCEPT !.calm = @ /\ threads[t].voice \notin V]]

-----------------------------------------------------------------------------
(* VoiceStorage.get and server.get_engine, in a thread of the pool.        *)

Lookup_NoWait(t, v, request) ==
  /\ thread' = [thread EXCEPT ![t] =
       [request EXCEPT !.pc = IF Cached(v) THEN "meta" ELSE "download", !.todo = Files]]
  /\ lru' = IF Cached(v) THEN Touched(lru, v) ELSE lru
  /\ fetching' = IF Cached(v) THEN fetching ELSE fetching \cup {v}
  /\ UNCHANGED <<bucket, disk, engines, engineOrder, admin, published, failures, doubt>>

(* Under the lock: a hit, a fetch to wait for, or one to make.             *)
Lookup(t, v, request) ==
  /\ thread' = [thread EXCEPT ![t] =
       [request EXCEPT !.pc = IF Cached(v) THEN "meta"
                              ELSE IF v \in fetching THEN "wait" ELSE "download",
                     !.todo = IF Cached(v) THEN {} ELSE Files]]
  /\ lru' = IF Cached(v) THEN Touched(lru, v) ELSE lru
  /\ fetching' = IF Cached(v) THEN fetching ELSE fetching \cup {v}
  /\ UNCHANGED <<bucket, disk, engines, engineOrder, admin, published, failures, doubt>>

Get(t, v) ==
  /\ thread[t].pc \in Answered
  /\ Lookup(t, v, [NoRequest EXCEPT !.voice = v, !.calm = admin.voice # v])

(* Notified: look again, unless yet another fetch has started.             *)
Wake(t) ==
  /\ thread[t].pc = "wait"
  /\ Cached(thread[t].voice) \/ thread[t].voice \notin fetching
  /\ Lookup(t, thread[t].voice, thread[t])

(* One download_file.  A model that is not there is an unknown voice, any  *)
(* other missing file an error.                                            *)
Download(t) ==
  LET f == FirstOf(thread[t].todo)
      p == bucket[thread[t].voice][f]
  IN  /\ thread[t].pc = "download"
      /\ thread' = [thread EXCEPT
           ![t].tmp[f] = p,
           ![t].todo   = @ \ {f},
           ![t].pc     = CASE p = 0 /\ f = "model.onnx" -> "not_found"
                           [] p = 0 /\ f # "model.onnx" -> "failed"
                           [] p # 0                     ->
                                IF thread[t].todo = {f} THEN "replace" ELSE @]
      /\ UNCHANGED <<bucket, disk, lru, fetching, engines, engineOrder, admin,
                     published, failures, doubt>>

DownloadFails(t) ==
  /\ thread[t].pc = "download"
  /\ failures < MaxFailures /\ failures' = failures + 1
  /\ thread' = [thread EXCEPT ![t].pc = "failed"]
  /\ UNCHANGED <<bucket, disk, lru, fetching, engines, engineOrder, admin, published, doubt>>

(* shutil.rmtree(local_dir), then os.rename(tmp_dir, local_dir), which     *)
(* raises if the directory is back.                                        *)
RemoveOld(t) ==
  /\ thread[t].pc = "replace"
  /\ disk'   = [disk EXCEPT ![thread[t].voice] = Nothing]
  /\ thread' = [thread EXCEPT ![t].pc = "rename"]
  /\ UNCHANGED <<bucket, lru, fetching, engines, engineOrder, admin, published, failures, doubt>>

Rename(t) ==
  LET v == thread[t].voice IN
  /\ thread[t].pc = "rename"
  /\ disk'   = IF IsDir(v) THEN disk ELSE [disk EXCEPT ![v] = thread[t].tmp]
  /\ thread' = [thread EXCEPT ![t].pc = IF IsDir(v) THEN "failed" ELSE "renamed"]
  /\ UNCHANGED <<bucket, lru, fetching, engines, engineOrder, admin, published, failures, doubt>>

(* finally: the fetch is over, the voice is the most recent of the cache   *)
(* if its directory is there, and the oldest ones make room.               *)
Settle(t) ==
  LET v == thread[t].voice IN
  /\ thread[t].pc \in {"failed", "not_found", "renamed"}
  /\ fetching' = fetching \ {v}
  /\ LET listed == thread[t].pc # "not_found" /\ IsDir(v)
         order  == IF listed THEN Touched(lru, v) ELSE lru
         gone   == IF listed THEN Members(order) \ Members(Kept(order, MaxCached)) ELSE {}
     IN  /\ lru'  = IF listed THEN Kept(order, MaxCached) ELSE lru
         /\ disk' = [w \in Voices |-> IF w \in gone THEN Nothing ELSE disk[w]]
         /\ thread' = Disturbed([thread EXCEPT
                         ![t].tmp = Nothing, ![t].todo = {},
                         ![t].pc  = CASE @ = "renamed"   -> "reread"
                                      [] @ = "not_found" -> "unknown"
                                      [] @ = "failed"    -> "error"], gone)
  /\ UNCHANGED <<bucket, engines, engineOrder, admin, published, failures, doubt>>

(* The answer of get() is read again, without the lock.                    *)
Reread(t) ==
  /\ thread[t].pc = "reread"
  /\ thread' = [thread EXCEPT ![t].pc = IF Cached(thread[t].voice) THEN "meta" ELSE "unknown"]
  /\ UNCHANGED <<bucket, disk, lru, fetching, engines, engineOrder, admin,
                 published, failures, doubt>>

(* owner.json of the directory; a customer needs one.                      *)
ReadMeta(t) ==
  LET v == thread[t].voice IN
  /\ thread[t].pc = "meta"
  /\ thread' = [thread EXCEPT ![t].meta = disk[v]["owner.json"],
                              ![t].pc   = IF IsDir(v) THEN "engine" ELSE "unknown"]
  /\ UNCHANGED <<bucket, disk, lru, fetching, engines, engineOrder, admin,
                 published, failures, doubt>>

(* Under _voices_lock: the loaded engine, or one loaded from the directory,*)
(* which fails if the directory has gone.                                  *)
LoadEngine(t) ==
  LET v      == thread[t].voice
      loaded == v \in Members(engineOrder)
      engine == IF loaded THEN engines[v] ELSE disk[v]
  IN  /\ thread[t].pc = "engine"
      /\ IF ~ loaded /\ ~ IsDir(v)
           THEN /\ thread' = [thread EXCEPT ![t].pc = "error"]
                /\ UNCHANGED <<engines, engineOrder>>
           ELSE /\ thread' = [thread EXCEPT ![t].pc = "served", ![t].engine = engine]
                /\ engineOrder' = Kept(Touched(engineOrder, v), MaxEngines)
                /\ engines' = [w \in Voices |->
                     IF w \notin Members(engineOrder') THEN Nothing
                     ELSE IF w = v THEN engine ELSE engines[w]]
      /\ UNCHANGED <<bucket, disk, lru, fetching, admin, published, failures, doubt>>

-----------------------------------------------------------------------------
(* PUT and DELETE /admin/voices/{vid}.  Both block the event loop, so one  *)
(* of them runs at a time; the pool's threads go on.                       *)

AdminMove(pc, v, todo) == admin' = [pc |-> pc, voice |-> v, todo |-> todo]

AdminPut(v) ==
  /\ admin.pc = "idle"
  /\ published < MaxPublications /\ published' = published + 1
  /\ AdminMove("put", v, Files)
  /\ thread' = Disturbed(thread, {v})
  /\ UNCHANGED <<bucket, disk, lru, fetching, engines, engineOrder, failures, doubt>>

AdminDelete(v) ==
  /\ admin.pc = "idle"
  /\ AdminMove("delete", v, Files)
  /\ thread' = Disturbed(thread, {v})
  /\ UNCHANGED <<bucket, disk, lru, fetching, engines, engineOrder, published, failures, doubt>>

(* One put_object; server.py's VOICE_FILES is a set, so in any order.      *)
PutObject(f) ==
  /\ admin.pc = "put" /\ f \in admin.todo
  /\ bucket' = [bucket EXCEPT ![admin.voice][f] = published]
  /\ AdminMove(IF admin.todo = {f} THEN "pop" ELSE "put", admin.voice, admin.todo \ {f})
  /\ UNCHANGED <<disk, lru, fetching, engines, engineOrder, thread, published, failures, doubt>>

(* head_object and delete_object.                                          *)
DeleteObject ==
  LET f == FirstOf(admin.todo) IN
  /\ admin.pc = "delete"
  /\ bucket' = [bucket EXCEPT ![admin.voice][f] = 0]
  /\ AdminMove(IF admin.todo = {f} THEN "pop" ELSE "delete", admin.voice, admin.todo \ {f})
  /\ UNCHANGED <<disk, lru, fetching, engines, engineOrder, thread, published, failures, doubt>>

(* Any ClientError of head_object, a throttled call too, counts as an       *)
(* object that is not there: it stays, and the next one is looked for.     *)
HeadFails ==
  LET f == FirstOf(admin.todo) IN
  /\ admin.pc = "delete"
  /\ failures < MaxFailures /\ failures' = failures + 1
  /\ AdminMove(IF admin.todo = {f} THEN "pop" ELSE "delete", admin.voice, admin.todo \ {f})
  /\ UNCHANGED <<bucket, disk, lru, fetching, engines, engineOrder, thread, published, doubt>>

(* The call raised: the handler answers 500 and leaves the cache alone.    *)
AdminFails ==
  /\ admin.pc \in {"put", "delete"}
  /\ failures < MaxFailures /\ failures' = failures + 1
  /\ admin' = NoOperation
  /\ doubt' = [doubt EXCEPT ![admin.voice] = TRUE]
  /\ UNCHANGED <<bucket, disk, lru, fetching, engines, engineOrder, thread, published>>

PopCached_FilesStay ==
  LET v == admin.voice IN
  /\ admin.pc = "pop"
  /\ AdminMove("evict", v, {})
  /\ lru'   = Without(lru, v)
  /\ doubt' = [doubt EXCEPT ![v] = v \in fetching]
  /\ UNCHANGED <<bucket, disk, fetching, engines, engineOrder, thread, published, failures>>

PopCached_PutOnly ==
  LET v == admin.voice IN
  /\ admin.pc = "pop"
  /\ AdminMove(IF v \in Members(lru) /\ bucket[v] # Nothing THEN "rmtree" ELSE "evict", v, {})
  /\ lru'   = IF bucket[v] # Nothing THEN Without(lru, v) ELSE lru
  /\ doubt' = [doubt EXCEPT ![v] = v \in fetching]
  /\ UNCHANGED <<bucket, disk, fetching, engines, engineOrder, thread, published, failures>>

(* Out of the cache under the lock, off the disk after it.                 *)
PopCached ==
  LET v == admin.voice IN
  /\ admin.pc = "pop"
  /\ AdminMove(IF v \in Members(lru) THEN "rmtree" ELSE "evict", v, {})
  /\ lru'   = Without(lru, v)
  /\ doubt' = [doubt EXCEPT ![v] = v \in fetching]
  /\ UNCHANGED <<bucket, disk, fetching, engines, engineOrder, thread, published, failures>>

RemoveCached ==
  /\ admin.pc = "rmtree"
  /\ AdminMove("evict", admin.voice, {})
  /\ disk' = [disk EXCEPT ![admin.voice] = Nothing]
  /\ UNCHANGED <<bucket, lru, fetching, engines, engineOrder, thread, published, failures, doubt>>

Evict_Skipped ==
  /\ admin.pc = "evict"
  /\ admin' = NoOperation
  /\ UNCHANGED <<bucket, disk, lru, fetching, engines, engineOrder, thread, published,
                 failures, doubt>>

(* server._evict: the loaded engine.                                       *)
Evict ==
  /\ admin.pc = "evict"
  /\ admin' = NoOperation
  /\ engineOrder' = Without(engineOrder, admin.voice)
  /\ engines' = [engines EXCEPT ![admin.voice] = Nothing]
  /\ UNCHANGED <<bucket, disk, lru, fetching, thread, published, failures, doubt>>

-----------------------------------------------------------------------------
Next ==
  \/ \E t \in Threads : \/ \E v \in Voices : Get(t, v)
                        \/ Wake(t) \/ Download(t) \/ DownloadFails(t)
                        \/ RemoveOld(t) \/ Rename(t) \/ Settle(t)
                        \/ Reread(t) \/ ReadMeta(t) \/ LoadEngine(t)
  \/ \E v \in Voices : AdminPut(v) \/ AdminDelete(v)
  \/ \E f \in Files : PutObject(f)
  \/ DeleteObject \/ HeadFails \/ AdminFails \/ PopCached \/ RemoveCached \/ Evict

Spec == Init /\ [][Next]_vars

-----------------------------------------------------------------------------
(* A voice is marked as being fetched exactly while one thread fetches it: *)
(* two would replace each other's directory, none would leave every later  *)
(* request of the voice waiting.                                           *)
Fetches(t, v) == thread[t].voice = v /\ thread[t].pc \in Flying
SingleFlight ==
  /\ \A v \in Voices : v \in fetching <=> \E t \in Threads : Fetches(t, v)
  /\ \A t, u \in Threads : \A v \in Voices : Fetches(t, v) /\ Fetches(u, v) => t = u

(* The disk is bounded by the cache: a directory is either listed, about   *)
(* to be listed by its fetch, or about to be removed by a PUT or DELETE.   *)
DiskIsListed ==
  \A v \in Voices : IsDir(v) =>
    \/ v \in Members(lru) \cup fetching
    \/ admin.pc = "rmtree" /\ admin.voice = v

(* Once a PUT or DELETE has answered, what is cached and what is loaded is *)
(* what the bucket holds, all three files of it, unless a fetch was in     *)
(* progress when the cache entry went or a storage call raised.            *)
Settled(v) == admin.voice # v /\ ~ doubt[v]
CacheCoherent ==
  \A v \in Voices : Settled(v) =>
    /\ Cached(v) => disk[v] = bucket[v]
    /\ v \in Members(engineOrder) => engines[v] = bucket[v]

(* A request that nothing interferes with is answered from the published   *)
(* voice, its owner.json and its engine of one publication, or told that   *)
(* the voice is unknown because it is.                                     *)
AnswersAreTrue ==
  \A t \in Threads :
    LET v == thread[t].voice IN
    v \in Voices /\ thread[t].calm /\ Settled(v) =>
      /\ thread[t].pc = "served"  => /\ thread[t].engine = bucket[v]
                                     /\ thread[t].meta = bucket[v]["owner.json"]
      /\ thread[t].pc = "unknown" => bucket[v]["model.onnx"] = 0
      /\ thread[t].pc = "error"   => failures > 0

(* "force a re-fetch of the new version" (voice_storage.py:117): after a   *)
(* PUT that raised nothing, no older version is cached.                    *)
RefetchForced ==
  \A v \in Voices :
    admin.pc = "idle" /\ bucket[v] # Nothing /\ Cached(v) => disk[v] = bucket[v]

\* The pool's threads are interchangeable, and so are the voices.
CacheSymmetry == Permutations(Threads) \cup Permutations(Voices)
=============================================================================
