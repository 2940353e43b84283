----------------------------- MODULE JobsProofs ------------------------------
(***************************************************************************)
(* Proofs about the services that MCJobs composes: each is about the       *)
(* specification of its own service, for every value of its constants.     *)
(***************************************************************************)
EXTENDS MCJobs, FiniteSetTheorems, TLAPS

-----------------------------------------------------------------------------
(* Voice conversion, for any number of jobs, containers and kills.         *)
ConvertSpec == ConvertInit /\ [][ConvertNext]_convertVars

(* A container that is in a conversion.                                    *)
Works(c) == gpu[c].pc \in {"loaded", "converting"}

Janitors == [pc : {"cold", "idle", "rmtree"}, job : ConvJobs \cup {"none"}, view : Views]

(* The types, and that a record is never audio.                            *)
ConvertTypes ==
  /\ ConvertTypeOK /\ janitor \in Janitors
  /\ \A j \in ConvJobs : Status(volume, j) \in Statuses

-----------------------------------------------------------------------------
(* The Volume.                                                             *)

(* A commit of a view changes the dirty files and no others.               *)
LEMMA CommitType ==
  ASSUME NEW v \in Views, NEW w \in Views, NEW dirty
  PROVE  /\ Commit(v, w, dirty) \in Views
         /\ \A f \in ConvJobs \X Files : Commit(v, w, dirty)[f] = IF f \in dirty THEN w[f] ELSE v[f]
BY DEF Views, Commit

(* Removing a directory from a view leaves the other files.                *)
LEMMA WithoutType ==
  ASSUME NEW v \in Views, NEW j \in ConvJobs
  PROVE  /\ Without(v, Dir(j)) \in Views
         /\ \A f \in ConvJobs \X Files : Without(v, Dir(j))[f] = IF f \in Dir(j) THEN NoFile ELSE v[f]
BY DEF Views, Without, Statuses

PutEntry(v, j, n, x) == [v EXCEPT ![<<j, n>>] = x]

(* Writing one file of a view leaves the others.                           *)
LEMMA PutType ==
  ASSUME NEW v \in Views, NEW j \in ConvJobs, NEW n \in Files, NEW x \in Statuses \cup {"wav"}
  PROVE  /\ PutEntry(v, j, n, x) \in Views
         /\ \A f \in ConvJobs \X Files : PutEntry(v, j, n, x)[f] = IF f = <<j, n>> THEN x ELSE v[f]
<1>1. <<j, n>> \in ConvJobs \X Files
  OBVIOUS
<1> QED
  BY <1>1 DEF Views, PutEntry

(* The two outcomes a run may write into its view.                         *)
Failed(v, j) == PutEntry(v, j, "job.json", "failed")
Done(v, j)   == PutEntry(PutEntry(v, j, "job.json", "done"), j, "result.wav", "wav")
FailedCommit(vol, v, j) == Commit(vol, Failed(v, j), {<<j, "job.json">>})
DoneCommit(vol, v, j)   == Commit(vol, Done(v, j), {<<j, "job.json">>, <<j, "result.wav">>})
OthersKept(vol, new, j) == \A p \in ConvJobs \X Files : p \notin Dir(j) => new[p] = vol[p]

(* The names of files and the outcomes are what they are.                  *)
LEMMA Names ==
  /\ "job.json" \in Files /\ "result.wav" \in Files /\ "audio" \in Files
  /\ \A x \in {"rejected", "queued", "processing", "failed", "done", "wav"} :
       x \in Statuses \cup {"wav"} /\ x # NoFile
BY DEF Files, Statuses, NoFile

(* Committing an outcome leaves the other jobs alone, and "done" comes     *)
(* with its result.                                                        *)
LEMMA OutcomeCommits ==
  ASSUME NEW vol \in Views, NEW v \in Views, NEW j \in ConvJobs
  PROVE  /\ Failed(v, j) \in Views /\ Done(v, j) \in Views
         /\ FailedCommit(vol, v, j) \in Views
         /\ DoneCommit(vol, v, j) \in Views
         /\ OthersKept(vol, FailedCommit(vol, v, j), j) /\ OthersKept(vol, DoneCommit(vol, v, j), j)
         /\ FailedCommit(vol, v, j)[<<j, "job.json">>] = "failed"
         /\ FailedCommit(vol, v, j)[<<j, "result.wav">>] = vol[<<j, "result.wav">>]
         /\ DoneCommit(vol, v, j)[<<j, "job.json">>] = "done"
         /\ DoneCommit(vol, v, j)[<<j, "result.wav">>] = "wav"
<1> DEFINE fv == Failed(v, j)
           d1 == PutEntry(v, j, "job.json", "done")
           dv == Done(v, j)
<1>1. /\ fv \in Views
      /\ \A p \in ConvJobs \X Files : fv[p] = IF p = <<j, "job.json">> THEN "failed" ELSE v[p]
  BY Names, PutType DEF Failed
<1>2. /\ d1 \in Views
      /\ \A p \in ConvJobs \X Files : d1[p] = IF p = <<j, "job.json">> THEN "done" ELSE v[p]
  BY Names, PutType
<1>3. /\ dv \in Views
      /\ \A p \in ConvJobs \X Files : dv[p] = IF p = <<j, "result.wav">> THEN "wav" ELSE d1[p]
  <2>1. dv = PutEntry(d1, j, "result.wav", "wav")
    BY DEF Done
  <2> HIDE DEF d1, dv
  <2>2. "result.wav" \in Files /\ "wav" \in Statuses \cup {"wav"}
    BY Names
  <2>3. /\ PutEntry(d1, j, "result.wav", "wav") \in Views
        /\ \A p \in ConvJobs \X Files :
             PutEntry(d1, j, "result.wav", "wav")[p] = IF p = <<j, "result.wav">> THEN "wav" ELSE d1[p]
    BY <1>2, <2>2, PutType
  <2> QED
    BY <2>1, <2>3
<1>4. /\ <<j, "job.json">> \in Dir(j) /\ <<j, "result.wav">> \in Dir(j)
      /\ <<j, "job.json">> \in ConvJobs \X Files /\ <<j, "result.wav">> \in ConvJobs \X Files
      /\ <<j, "job.json">> # <<j, "result.wav">>
  BY Names DEF Dir
<1> DEFINE f == Commit(vol, fv, {<<j, "job.json">>})
           d == Commit(vol, dv, {<<j, "job.json">>, <<j, "result.wav">>})
<1> HIDE DEF fv, dv, d1
<1>5. /\ f \in Views
      /\ \A p \in ConvJobs \X Files : f[p] = IF p \in {<<j, "job.json">>} THEN fv[p] ELSE vol[p]
  BY <1>1, CommitType
<1>6. /\ d \in Views
      /\ \A p \in ConvJobs \X Files :
           d[p] = IF p \in {<<j, "job.json">>, <<j, "result.wav">>} THEN dv[p] ELSE vol[p]
  BY <1>3, CommitType
<1> HIDE DEF f, d
<1>7. /\ \A p \in ConvJobs \X Files : p \notin Dir(j) => f[p] = vol[p] /\ d[p] = vol[p]
      /\ f[<<j, "job.json">>] = "failed" /\ f[<<j, "result.wav">>] = vol[<<j, "result.wav">>]
      /\ d[<<j, "job.json">>] = "done" /\ d[<<j, "result.wav">>] = "wav"
  BY <1>1, <1>2, <1>3, <1>4, <1>5, <1>6
<1> QED
  BY <1>1, <1>3, <1>5, <1>6, <1>7 DEF f, d, fv, dv, FailedCommit, DoneCommit, OthersKept

-----------------------------------------------------------------------------
(* The invariant.                                                          *)

(* A result is never without a record.                                     *)
Recorded(v, j) == v[<<j, "result.wav">>] # NoFile => v[<<j, "job.json">>] # NoFile

(* Results are where their records say, and until a job is deleted neither *)
(* the Volume nor the view of the clean-up has a result alone; otherwise   *)
(* the clean-up might remove the result and leave the record.              *)
ResultInv ==
  \A j \in ConvJobs :
    /\ Status(volume, j) = "done" => volume[<<j, "result.wav">>] = "wav"
    /\ asked[j] = "no" => Recorded(volume, j) /\ Recorded(janitor.view, j)
    /\ fetched[j] = "fetch" => volume[<<j, "result.wav">>] = "wav" \/ asked[j] = "answered"
    /\ fetched[j] = "gone" => asked[j] = "answered"

(* A conversion is of one container, a clean-up of a job that was deleted. *)
OwnerInv ==
  /\ janitor.pc = "rmtree" => janitor.job \in ConvJobs /\ asked[janitor.job] = "no"
                                /\ run[janitor.job] # "none"
  /\ \A c \in Gpus : Works(c) => gpu[c].job \in ConvJobs /\ run[gpu[c].job] = "running"
  /\ \A c, d \in Gpus : c # d /\ Works(c) /\ Works(d) => gpu[c].job # gpu[d].job
  /\ \A j \in ConvJobs : told[j] # NoFile \/ asked[j] = "answered" => run[j] # "none"

(* A clean-up that is not excused left nothing and nobody to write.        *)
CleanInv ==
  \A j \in ConvJobs \ excused : asked[j] = "answered" =>
    run[j] \notin InFlight /\ \A f \in Dir(j) : volume[f] = NoFile

ConvertInv == ConvertTypes /\ ResultInv /\ OwnerInv /\ CleanInv

(* The service starts with nothing.                                        *)
LEMMA ConvertStarts == ConvertInit => ConvertInv
<1> SUFFICES ASSUME ConvertInit PROVE ConvertInv
  OBVIOUS
<1>1. Empty \in Views /\ \A f \in ConvJobs \X Files : Empty[f] = NoFile
  BY DEF Empty, Views, Statuses
<1>2. \A j \in ConvJobs : <<j, "job.json">> \in ConvJobs \X Files /\ <<j, "result.wav">> \in ConvJobs \X Files
                          /\ \A f \in Dir(j) : f \in ConvJobs \X Files
  BY Names DEF Dir
<1>3. ConvertTypes
  <2>1. NoFile \in Statuses /\ 0 \in 0 .. MaxKills /\ \A j \in ConvJobs : Status(volume, j) \in Statuses
    <3>1. 0 \in 0 .. MaxKills
      BY ConvertAssumption
    <3> QED
      BY <1>1, <1>2, <3>1 DEF ConvertInit, Status, Statuses
  <2>2. janitor \in Janitors /\ janitor.pc \in {"cold", "idle", "rmtree"} /\ janitor.view \in Views
    BY <1>1 DEF ConvertInit, Janitors
  <2>3. gpu \in [Gpus -> {Idle, Cold} \cup [pc : {"loaded", "converting"}, job : ConvJobs]]
    BY DEF ConvertInit
  <2> QED
    BY <1>1, <2>1, <2>2, <2>3 DEF ConvertInit, ConvertTypes, ConvertTypeOK
<1>4. ResultInv
  BY <1>1, <1>2 DEF ConvertInit, ResultInv, Recorded, Status, NoFile
<1>5. OwnerInv
  BY DEF ConvertInit, OwnerInv, Works, Cold
<1>6. CleanInv
  BY DEF ConvertInit, CleanInv
<1> QED
  BY <1>3, <1>4, <1>5, <1>6 DEF ConvertInv

(* Steps that leave the Volume, the clean-up and what was deleted alone.   *)
LEMMA ResultKept ==
  ASSUME ResultInv, UNCHANGED <<volume, janitor, asked, fetched>>
  PROVE  ResultInv'
BY DEF ResultInv, Recorded, Status

(* A job is submitted with its record.                                     *)
LEMMA SubmitStep ==
  ASSUME ConvertInv, NEW j \in ConvJobs, Submit(j)
  PROVE  ConvertInv'
<1>1. PICK s \in {"rejected", "queued"} :
        /\ volume' = [volume EXCEPT ![<<j, "audio">>] = "wav", ![<<j, "job.json">>] = s]
        /\ run' = [run EXCEPT ![j] = IF s = "queued" THEN "spawn" ELSE s]
        /\ told' = IF s = "rejected" THEN [told EXCEPT ![j] = s] ELSE told
  BY DEF Submit
<1>2. volume \in Views /\ s \in Statuses /\ s # NoFile /\ s # "done" /\ run[j] = "none"
  BY Names DEF ConvertInv, ConvertTypes, ConvertTypeOK, Submit, Statuses
<1>3. /\ volume' \in Views
      /\ \A f \in ConvJobs \X Files :
           volume'[f] = IF f = <<j, "job.json">> THEN s ELSE IF f = <<j, "audio">> THEN "wav" ELSE volume[f]
  <2> DEFINE v1 == PutEntry(volume, j, "audio", "wav")
  <2>1. v1 \in Views /\ \A f \in ConvJobs \X Files : v1[f] = IF f = <<j, "audio">> THEN "wav" ELSE volume[f]
    BY <1>2, Names, PutType
  <2>2. volume' = PutEntry(v1, j, "job.json", s)
    BY <1>1, <1>2 DEF PutEntry, Views
  <2> HIDE DEF v1
  <2>3. "job.json" \in Files /\ s \in Statuses \cup {"wav"}
    BY <1>2, Names
  <2> QED
    BY <2>1, <2>2, <2>3, PutType
<1>4. \A i \in ConvJobs : /\ <<i, "job.json">> \in ConvJobs \X Files
                          /\ <<i, "result.wav">> \in ConvJobs \X Files
                          /\ \A f \in Dir(i) : f \in ConvJobs \X Files
                          /\ i # j => \A f \in Dir(i) : f \notin Dir(j)
                          /\ <<i, "job.json">> \in Dir(i) /\ <<i, "audio">> \in Dir(i)
                          /\ <<i, "result.wav">> \notin {<<j, "job.json">>, <<j, "audio">>}
  BY Names DEF Dir
<1>5. ConvertTypes'
  <2>1. run' \in [ConvJobs -> InFlight \cup {"none", "rejected", "unspawned", "over", "died"}]
    BY <1>1 DEF ConvertInv, ConvertTypes, ConvertTypeOK, InFlight
  <2>2. told' \in [ConvJobs -> Statuses]
    BY <1>1, <1>2 DEF ConvertInv, ConvertTypes, ConvertTypeOK
  <2>3. \A i \in ConvJobs : Status(volume, i)' \in Statuses
    BY <1>2, <1>3, <1>4 DEF ConvertInv, ConvertTypes, Status
  <2> QED
    BY <1>3, <2>1, <2>2, <2>3 DEF ConvertInv, ConvertTypes, ConvertTypeOK, Submit
<1>6. ResultInv'
  BY <1>2, <1>3, <1>4 DEF ConvertInv, ResultInv, Recorded, Status, Submit
<1>7. OwnerInv'
  BY <1>1, <1>2 DEF ConvertInv, OwnerInv, Works, Submit, ConvertTypes, ConvertTypeOK
<1>8. CleanInv'
  <2>1. asked[j] # "answered"
    BY <1>2 DEF ConvertInv, OwnerInv
  <2>2. \A i \in ConvJobs : i # j => run'[i] = run[i] /\ \A f \in Dir(i) : volume'[f] = volume[f]
    <3>1. \A i \in ConvJobs : i # j => run'[i] = run[i]
      BY <1>1 DEF ConvertInv, ConvertTypes, ConvertTypeOK
    <3>2. \A i \in ConvJobs : i # j => \A f \in Dir(i) : volume'[f] = volume[f]
      BY <1>3, <1>4
    <3> QED BY <3>1, <3>2
  <2> QED
    BY <2>1, <2>2 DEF ConvertInv, CleanInv, Submit
<1> QED
  BY <1>5, <1>6, <1>7, <1>8 DEF ConvertInv

(* A run is spawned, or the spawn fails.                                   *)
LEMMA SpawnStep ==
  ASSUME ConvertInv, NEW j \in ConvJobs, Spawn(j)
  PROVE  ConvertInv'
<1>1. ConvertTypes'
  BY DEF Spawn, ConvertInv, ConvertTypes, ConvertTypeOK, InFlight, Statuses, Status
<1>2. ResultInv'
  BY ResultKept DEF Spawn, ConvertInv
<1>3. OwnerInv'
  BY DEF Spawn, ConvertInv, OwnerInv, Works, ConvertTypes, ConvertTypeOK
<1>4. CleanInv'
  BY DEF Spawn, ConvertInv, CleanInv, InFlight, ConvertTypes, ConvertTypeOK
<1> QED
  BY <1>1, <1>2, <1>3, <1>4 DEF ConvertInv

(* A poll shows what the record says, which is never audio.                *)
LEMMA PollStep ==
  ASSUME ConvertInv, NEW j \in ConvJobs, Poll(j)
  PROVE  ConvertInv'
<1>1. ConvertTypes'
  <2>1. Status(volume, j) \in Statuses
    BY DEF ConvertInv, ConvertTypes
  <2>2. told' \in [ConvJobs -> Statuses]
    BY <2>1 DEF Poll, ConvertInv, ConvertTypes, ConvertTypeOK
  <2> QED
    BY <2>2 DEF Poll, ConvertInv, ConvertTypes, ConvertTypeOK, Status
<1>2. ResultInv'
  BY ResultKept DEF Poll, ConvertInv
<1>3. OwnerInv'
  BY DEF Poll, ConvertInv, OwnerInv, Works, ConvertTypes, ConvertTypeOK
<1>4. CleanInv'
  BY DEF Poll, ConvertInv, CleanInv
<1> QED
  BY <1>1, <1>2, <1>3, <1>4 DEF ConvertInv

(* A result is asked for when the record says done, and fetched later.     *)
LEMMA ResultStep ==
  ASSUME ConvertInv, NEW j \in ConvJobs, GetResult(j) \/ FetchResult(j)
  PROVE  ConvertInv'
<1>1. PICK x \in {"fetch", "served", "gone"} :
        /\ fetched' = [fetched EXCEPT ![j] = x]
        /\ x = "fetch" => Status(volume, j) = "done"
        /\ x = "gone" => fetched[j] = "fetch" /\ volume[<<j, "result.wav">>] # "wav"
  BY DEF GetResult, FetchResult
<1>2. UNCHANGED <<volume, run, gpu, gview, janitor, told, asked, excused, kills>>
  BY DEF GetResult, FetchResult
<1>3. fetched \in [ConvJobs -> {"no", "fetch", "served", "gone"}]
  BY DEF ConvertInv, ConvertTypes, ConvertTypeOK
<1>4. ConvertTypes'
  <2>1. fetched' \in [ConvJobs -> {"no", "fetch", "served", "gone"}]
    BY <1>1, <1>3
  <2> QED
    BY <1>2, <2>1 DEF ConvertInv, ConvertTypes, ConvertTypeOK, Status
<1>5. ResultInv'
  BY <1>1, <1>2, <1>3 DEF ConvertInv, ResultInv, Recorded, Status
<1>6. OwnerInv' /\ CleanInv'
  BY <1>2 DEF ConvertInv, OwnerInv, CleanInv, Works
<1> QED
  BY <1>4, <1>5, <1>6 DEF ConvertInv

(* A DELETE reaches the clean-up with the view of its container.           *)
LEMMA DeleteStep ==
  ASSUME ConvertInv, NEW j \in ConvJobs, Delete(j)
  PROVE  ConvertInv'
<1> DEFINE v == IF janitor.pc = "cold" THEN volume ELSE janitor.view
<1>1. v \in Views /\ \A i \in ConvJobs : asked[i] = "no" => Recorded(v, i)
  BY DEF ConvertInv, ConvertTypes, ConvertTypeOK, ResultInv
<1>2. janitor' = [pc |-> "rmtree", job |-> j, view |-> v]
  BY DEF Delete
<1> HIDE DEF v
<1>3. ConvertTypes'
  BY <1>1, <1>2 DEF Delete, ConvertInv, ConvertTypes, ConvertTypeOK, Janitors, Status
<1>4. ResultInv'
  <2>1. janitor'.view = v /\ UNCHANGED <<volume, asked, fetched>>
    BY <1>2 DEF Delete
  <2>2. \A i \in ConvJobs : Recorded(volume, i)' <=> Recorded(volume, i)
    BY <2>1 DEF Recorded
  <2>3. \A i \in ConvJobs : Recorded(janitor.view, i)' <=> Recorded(v, i)
    BY <2>1 DEF Recorded
  <2> QED
    BY <1>1, <2>1, <2>2, <2>3 DEF ConvertInv, ResultInv, Status
<1>5. OwnerInv'
  BY <1>2 DEF Delete, ConvertInv, OwnerInv, Works
<1>6. CleanInv'
  BY DEF Delete, ConvertInv, CleanInv
<1> QED
  BY <1>3, <1>4, <1>5, <1>6 DEF ConvertInv

(* The clean-up removes what its view has of the job, the record if the    *)
(* result.                                                                 *)
LEMMA CleanupStep ==
  ASSUME ConvertInv, Cleanup
  PROVE  ConvertInv'
<1> DEFINE j == janitor.job
           old == janitor.view
           left == Without(old, Dir(j))
           dirty == Seen(old, Dir(j))
<1>1. j \in ConvJobs /\ asked[j] = "no" /\ run[j] # "none" /\ old \in Views /\ volume \in Views
  BY DEF Cleanup, ConvertInv, OwnerInv, ConvertTypes, ConvertTypeOK
<1>2. \A i \in ConvJobs : /\ <<i, "job.json">> \in Dir(i) /\ <<i, "result.wav">> \in Dir(i)
                          /\ \A f \in Dir(i) : f \in ConvJobs \X Files /\ (i # j => f \notin Dir(j))
  BY Names DEF Dir
<1>3. /\ left \in Views
      /\ \A f \in ConvJobs \X Files : left[f] = IF f \in Dir(j) THEN NoFile ELSE old[f]
  BY <1>1, WithoutType
<1>4. \A f \in Dir(j) : f \in dirty <=> old[f] # NoFile
  BY DEF Seen
<1>5. dirty \subseteq Dir(j)
  BY DEF Seen
<1>6. /\ volume' = Commit(volume, left, dirty)
      /\ janitor' = [pc |-> "idle", job |-> "none", view |-> left]
      /\ asked' = [asked EXCEPT ![j] = "answered"]
      /\ excused' = IF run[j] \in InFlight \/ \E f \in Dir(j) : old[f] # volume[f]
                      THEN excused \cup {j} ELSE excused
      /\ UNCHANGED <<run, gpu, gview, told, fetched, kills>>
  BY DEF Cleanup
<1> HIDE DEF left, dirty
<1>7. /\ volume' \in Views
      /\ \A f \in ConvJobs \X Files : volume'[f] = IF f \in dirty THEN left[f] ELSE volume[f]
  BY <1>1, <1>3, <1>6, CommitType
<1>8. \A f \in ConvJobs \X Files :
        volume'[f] = IF f \in Dir(j) /\ old[f] # NoFile THEN NoFile ELSE volume[f]
  BY <1>3, <1>4, <1>5, <1>7
<1> HIDE DEF j, old
<1>9. ConvertTypes'
  <2>1. janitor' \in Janitors /\ asked' \in [ConvJobs -> {"no", "answered"}] /\ excused' \subseteq ConvJobs
    BY <1>1, <1>3, <1>6 DEF ConvertInv, ConvertTypes, ConvertTypeOK, Janitors
  <2>2. \A i \in ConvJobs : Status(volume, i)' \in Statuses
    BY <1>2, <1>8 DEF ConvertInv, ConvertTypes, Status, Statuses
  <2> QED
    BY <1>6, <1>7, <2>1, <2>2 DEF ConvertInv, ConvertTypes, ConvertTypeOK, Janitors
<1>10. ResultInv'
  <2>1. Recorded(old, j)
    BY <1>1 DEF ConvertInv, ResultInv, old
  <2>2. volume'[<<j, "job.json">>] = "done" => volume'[<<j, "result.wav">>] = "wav"
    <3>1. volume[<<j, "job.json">>] = "done" => volume[<<j, "result.wav">>] = "wav"
      BY <1>1 DEF ConvertInv, ResultInv, Status
    <3>2. <<j, "job.json">> \in ConvJobs \X Files /\ <<j, "result.wav">> \in ConvJobs \X Files
      BY <1>1, <1>2
    <3>3. NoFile # "done"
      BY DEF NoFile
    <3>4. \/ volume'[<<j, "job.json">>] = NoFile
          \/ volume'[<<j, "job.json">>] = volume[<<j, "job.json">>] /\ old[<<j, "job.json">>] = NoFile
      BY <1>1, <1>2, <1>8, <3>2
    <3>5. old[<<j, "job.json">>] = NoFile => volume'[<<j, "result.wav">>] = volume[<<j, "result.wav">>]
      BY <1>8, <2>1, <3>2 DEF Recorded
    <3> QED
      BY <3>1, <3>3, <3>4, <3>5
  <2>3. asked'[j] = "answered" /\ \A i \in ConvJobs : i # j => asked'[i] = asked[i]
    BY <1>1, <1>6 DEF ConvertInv, ConvertTypes, ConvertTypeOK
  <2>4. ASSUME NEW i \in ConvJobs, i # j
        PROVE  /\ volume'[<<i, "job.json">>] = volume[<<i, "job.json">>]
               /\ volume'[<<i, "result.wav">>] = volume[<<i, "result.wav">>]
               /\ left[<<i, "job.json">>] = old[<<i, "job.json">>]
               /\ left[<<i, "result.wav">>] = old[<<i, "result.wav">>]
    BY <1>2, <1>3, <1>8, <2>4
  <2> QED
    <3>1. janitor'.view = left /\ fetched' = fetched /\ asked[j] = "no"
      BY <1>1, <1>6
    <3>2. ASSUME NEW i \in ConvJobs, i # j
          PROVE  /\ Status(volume, i)' = Status(volume, i)
                 /\ Recorded(volume, i)' <=> Recorded(volume, i)
                 /\ Recorded(janitor.view, i)' <=> Recorded(old, i)
      BY <2>4, <3>1, <3>2 DEF Status, Recorded
    <3>3. \A i \in ConvJobs : Recorded(old, i) <=> Recorded(janitor.view, i)
      BY DEF old
    <3>4. ASSUME NEW i \in ConvJobs
          PROVE  /\ Status(volume, i)' = "done" => volume'[<<i, "result.wav">>] = "wav"
                 /\ asked'[i] = "no" => Recorded(volume, i)' /\ Recorded(janitor.view, i)'
                 /\ fetched'[i] = "fetch" => volume'[<<i, "result.wav">>] = "wav" \/ asked'[i] = "answered"
                 /\ fetched'[i] = "gone" => asked'[i] = "answered"
      <4>1. CASE i = j
        BY <2>2, <2>3, <4>1 DEF Status
      <4>2. CASE i # j
        <5>1. asked'[i] = asked[i] /\ volume'[<<i, "result.wav">>] = volume[<<i, "result.wav">>]
          BY <2>3, <2>4, <4>2
        <5>2. /\ Status(volume, i) = "done" => volume[<<i, "result.wav">>] = "wav"
              /\ asked[i] = "no" => Recorded(volume, i) /\ Recorded(janitor.view, i)
              /\ fetched[i] = "fetch" => volume[<<i, "result.wav">>] = "wav" \/ asked[i] = "answered"
              /\ fetched[i] = "gone" => asked[i] = "answered"
          BY DEF ConvertInv, ResultInv
        <5> QED
          BY <3>1, <3>2, <3>3, <4>2, <5>1, <5>2
      <4> QED
        BY <4>1, <4>2
    <3> QED
      BY <3>4 DEF ResultInv
<1>11. OwnerInv'
  BY <1>1, <1>6 DEF ConvertInv, OwnerInv, Works, ConvertTypes, ConvertTypeOK
<1>12. CleanInv'
  <2>1. ASSUME NEW i \in ConvJobs \ excused', i # j
        PROVE  asked'[i] = "answered" => run[i] \notin InFlight /\ \A f \in Dir(i) : volume'[f] = NoFile
    <3>1. asked \in [ConvJobs -> {"no", "answered"}]
      BY DEF ConvertInv, ConvertTypes, ConvertTypeOK
    <3>2. asked'[i] = asked[i] /\ i \notin excused /\ \A f \in Dir(i) : volume'[f] = volume[f]
      BY <1>2, <1>6, <1>8, <2>1, <3>1
    <3> QED
      BY <3>2 DEF ConvertInv, CleanInv
  <2>2. ASSUME j \notin excused'
        PROVE  run[j] \notin InFlight /\ \A f \in Dir(j) : volume'[f] = NoFile
    <3>1. run[j] \notin InFlight /\ \A f \in Dir(j) : old[f] = volume[f]
      BY <1>6, <2>2
    <3>2. \A f \in Dir(j) : volume'[f] = NoFile
      BY <1>1, <1>2, <1>8, <3>1
    <3> QED
      BY <3>1, <3>2
  <2>3. run' = run
    BY <1>6
  <2> QED
    BY <2>1, <2>2, <2>3 DEF CleanInv
<1> QED
  BY <1>9, <1>10, <1>11, <1>12 DEF ConvertInv

(* A call starts on a container, with its view.                            *)
LEMMA BeginStep ==
  ASSUME ConvertInv, NEW c \in Gpus, NEW j \in ConvJobs, Begin(c, j)
  PROVE  ConvertInv'
<1> DEFINE v == StartView(c)
<1>1. v \in Views
  BY DEF StartView, ConvertInv, ConvertTypes, ConvertTypeOK
<1>2. /\ gview' = [gview EXCEPT ![c] = v]
      /\ UNCHANGED <<volume, janitor, told, fetched, asked, excused, kills>>
      /\ run[j] = "spawned" /\ ~ Works(c)
      /\ \/ gpu' = [gpu EXCEPT ![c] = Idle] /\ run' = [run EXCEPT ![j] = "died"]
         \/ /\ gpu' = [gpu EXCEPT ![c] = [pc |-> "loaded", job |-> j]]
            /\ run' = [run EXCEPT ![j] = "running"]
  BY DEF Begin, Works, Idle, Cold
<1> HIDE DEF v
<1>3. ConvertTypes'
  <2>1. gview' \in [Gpus -> Views]
    BY <1>1, <1>2 DEF ConvertInv, ConvertTypes, ConvertTypeOK
  <2>2. /\ gpu' \in [Gpus -> {Idle, Cold} \cup [pc : {"loaded", "converting"}, job : ConvJobs]]
        /\ run' \in [ConvJobs -> InFlight \cup {"none", "rejected", "unspawned", "over", "died"}]
    BY <1>2 DEF ConvertInv, ConvertTypes, ConvertTypeOK, InFlight
  <2> QED
    BY <1>2, <2>1, <2>2 DEF ConvertInv, ConvertTypes, ConvertTypeOK, Status
<1>4. ResultInv'
  BY <1>2, ResultKept DEF ConvertInv
<1>5. OwnerInv'
  BY <1>2 DEF ConvertInv, OwnerInv, Works, ConvertTypes, ConvertTypeOK, Idle
<1>6. CleanInv'
  BY <1>2 DEF ConvertInv, CleanInv, ConvertTypes, ConvertTypeOK, InFlight
<1> QED
  BY <1>3, <1>4, <1>5, <1>6 DEF ConvertInv

(* A container is killed in a conversion, or scaled down.                  *)
LEMMA EndStep ==
  ASSUME ConvertInv, (\E c \in Gpus : Kill(c)) \/ ScaleDown
  PROVE  ConvertInv'
<1>1. ASSUME NEW c \in Gpus, Kill(c) PROVE ConvertInv'
  <2>1. ConvertTypes'
    <3>1. kills' \in 0 .. MaxKills
      BY <1>1, ConvertAssumption DEF Kill, ConvertInv, ConvertTypes, ConvertTypeOK
    <3>2. gpu' \in [Gpus -> {Idle, Cold} \cup [pc : {"loaded", "converting"}, job : ConvJobs]]
      BY <1>1 DEF Kill, ConvertInv, ConvertTypes, ConvertTypeOK
    <3>3. run' \in [ConvJobs -> InFlight \cup {"none", "rejected", "unspawned", "over", "died"}]
      BY <1>1 DEF Kill, ConvertInv, ConvertTypes, ConvertTypeOK
    <3> QED
      BY <1>1, <3>1, <3>2, <3>3 DEF Kill, ConvertInv, ConvertTypes, ConvertTypeOK, Status
  <2>2. ResultInv'
    BY <1>1, ResultKept DEF Kill, ConvertInv
  <2>3. OwnerInv'
    BY <1>1 DEF Kill, ConvertInv, OwnerInv, Works, ConvertTypes, ConvertTypeOK, Cold
  <2>4. CleanInv'
    BY <1>1 DEF Kill, ConvertInv, CleanInv, ConvertTypes, ConvertTypeOK, InFlight
  <2> QED
    BY <2>1, <2>2, <2>3, <2>4 DEF ConvertInv
<1>2. ASSUME ScaleDown PROVE ConvertInv'
  <2>1. /\ UNCHANGED <<volume, run, gview, told, fetched, asked, excused, kills>>
        /\ janitor'.view = janitor.view /\ janitor' \in Janitors
        /\ janitor.pc = "rmtree" <=> janitor'.pc = "rmtree"
        /\ janitor'.job = janitor.job
    BY <1>2 DEF ScaleDown, ConvertInv, ConvertTypes, Janitors
  <2>2. /\ gpu' \in [Gpus -> {Idle, Cold} \cup [pc : {"loaded", "converting"}, job : ConvJobs]]
        /\ \A c \in Gpus : gpu'[c] = gpu[c] \/ (gpu'[c] = Cold)
    BY <1>2 DEF ScaleDown, ConvertInv, ConvertTypes, ConvertTypeOK
  <2>3. ConvertTypes'
    BY <2>1, <2>2 DEF ConvertInv, ConvertTypes, ConvertTypeOK, Janitors, Status
  <2>4. ResultInv'
    BY <2>1 DEF ConvertInv, ResultInv, Recorded, Status
  <2>5. OwnerInv'
    BY <2>1, <2>2 DEF ConvertInv, OwnerInv, Works, Cold
  <2>6. CleanInv'
    BY <2>1 DEF ConvertInv, CleanInv
  <2> QED
    BY <2>3, <2>4, <2>5, <2>6 DEF ConvertInv
<1> QED
  BY <1>1, <1>2

(* What a run commits: a status of its job, a result if it is done, and    *)
(* nothing of another job.                                                 *)
Writes(new, j, status) ==
  /\ new \in Views
  /\ \A f \in ConvJobs \X Files : f \notin Dir(j) => new[f] = volume[f]
  /\ new[<<j, "job.json">>] = status
  /\ \/ new[<<j, "result.wav">>] = "wav"
     \/ status # "done" /\ new[<<j, "result.wav">>] = volume[<<j, "result.wav">>]

(* Such a commit of the run that owns the job keeps what is said of the    *)
(* Volume, also if a clean-up or an older view came in between.            *)
LEMMA RunWrites ==
  ASSUME ConvertInv, NEW j \in ConvJobs, run[j] = "running",
         NEW status \in {"processing", "failed", "done"}, NEW new, Writes(new, j, status),
         volume' = new, UNCHANGED <<janitor, fetched, asked, excused>>,
         run' = run \/ run' = [run EXCEPT ![j] = "over"]
  PROVE  /\ volume' \in Views /\ \A i \in ConvJobs : volume'[<<i, "job.json">>] \in Statuses
         /\ ResultInv' /\ CleanInv'
<1>1. \A i \in ConvJobs : /\ <<i, "job.json">> \in Dir(i) /\ <<i, "result.wav">> \in Dir(i)
                          /\ \A f \in Dir(i) : f \in ConvJobs \X Files /\ (i # j => f \notin Dir(j))
  BY Names DEF Dir
<1>2. \A i \in ConvJobs : i # j => \A f \in Dir(i) : volume'[f] = volume[f]
  BY <1>1 DEF Writes
<1>3. /\ volume'[<<j, "job.json">>] = status /\ status \in Statuses /\ status # NoFile
      /\ volume'[<<j, "result.wav">>] \in {"wav", volume[<<j, "result.wav">>]}
      /\ status = "done" => volume'[<<j, "result.wav">>] = "wav"
  BY Names DEF Writes, Statuses
<1>4. volume' \in Views /\ \A i \in ConvJobs : volume'[<<i, "job.json">>] \in Statuses
  BY <1>1, <1>2, <1>3 DEF Writes, ConvertInv, ConvertTypes, Status
<1>5. ResultInv'
  <2> SUFFICES ASSUME NEW i \in ConvJobs
               PROVE  /\ volume'[<<i, "job.json">>] = "done" => volume'[<<i, "result.wav">>] = "wav"
                      /\ asked[i] = "no" => Recorded(volume', i) /\ Recorded(janitor.view, i)
                      /\ fetched[i] = "fetch" => volume'[<<i, "result.wav">>] = "wav" \/ asked[i] = "answered"
                      /\ fetched[i] = "gone" => asked[i] = "answered"
    BY DEF ResultInv, Status, Recorded
  <2>1. /\ volume[<<i, "job.json">>] = "done" => volume[<<i, "result.wav">>] = "wav"
        /\ asked[i] = "no" => Recorded(volume, i) /\ Recorded(janitor.view, i)
        /\ fetched[i] = "fetch" => volume[<<i, "result.wav">>] = "wav" \/ asked[i] = "answered"
        /\ fetched[i] = "gone" => asked[i] = "answered"
    BY DEF ConvertInv, ResultInv, Status
  <2>2. CASE i = j
    BY <1>3, <2>1, <2>2 DEF Recorded
  <2>3. CASE i # j
    <3>1. /\ volume'[<<i, "job.json">>] = volume[<<i, "job.json">>]
          /\ volume'[<<i, "result.wav">>] = volume[<<i, "result.wav">>]
      BY <1>1, <1>2, <2>3
    <3> QED
      BY <2>1, <3>1 DEF Recorded
  <2> QED
    BY <2>2, <2>3
<1>6. CleanInv'
  <2> SUFFICES ASSUME NEW i \in ConvJobs, i \notin excused, asked[i] = "answered"
               PROVE  run'[i] \notin InFlight /\ \A f \in Dir(i) : volume'[f] = NoFile
    BY DEF CleanInv
  <2>1. run[i] \notin InFlight /\ \A f \in Dir(i) : volume[f] = NoFile
    BY DEF ConvertInv, CleanInv
  <2>2. i # j
    BY <2>1 DEF InFlight
  <2> QED
    BY <1>2, <2>1, <2>2 DEF ConvertInv, ConvertTypes, ConvertTypeOK
<1> QED
  BY <1>4, <1>5, <1>6

(* A run commits that it is processing.                                    *)
LEMMA ProcessingStep ==
  ASSUME ConvertInv, NEW c \in Gpus, CommitProcessing(c)
  PROVE  ConvertInv'
<1>1. PICK j \in ConvJobs : j = gpu[c].job /\ run[j] = "running"
  BY DEF CommitProcessing, ConvertInv, OwnerInv, Works
<1> DEFINE v == PutEntry(gview[c], j, "job.json", "processing")
           new == Commit(volume, v, {<<j, "job.json">>})
<1>2. gview[c] \in Views /\ volume \in Views
  BY DEF ConvertInv, ConvertTypes, ConvertTypeOK
<1>3. /\ v \in Views
      /\ \A f \in ConvJobs \X Files : v[f] = IF f = <<j, "job.json">> THEN "processing" ELSE gview[c][f]
  <2>1. \A w \in Views :
           /\ PutEntry(w, j, "job.json", "processing") \in Views
           /\ \A f \in ConvJobs \X Files :
                PutEntry(w, j, "job.json", "processing")[f] = IF f = <<j, "job.json">> THEN "processing" ELSE w[f]
    BY Names, PutType
  <2> QED
    BY <1>2, <2>1
<1>4. /\ gview' = [gview EXCEPT ![c] = v] /\ volume' = new
      /\ gpu' = [gpu EXCEPT ![c].pc = "converting"] /\ gpu[c].pc = "loaded"
      /\ UNCHANGED <<run, janitor, told, fetched, asked, excused, kills>>
  BY <1>1 DEF CommitProcessing, Write, PutEntry
<1> HIDE DEF v
<1>5. /\ new \in Views
      /\ \A f \in ConvJobs \X Files : new[f] = IF f \in {<<j, "job.json">>} THEN v[f] ELSE volume[f]
  BY <1>2, <1>3, CommitType
<1> HIDE DEF new
<1>6. /\ <<j, "job.json">> \in Dir(j) /\ <<j, "job.json">> \in ConvJobs \X Files
      /\ <<j, "result.wav">> \in ConvJobs \X Files /\ <<j, "result.wav">> # <<j, "job.json">>
  BY Names DEF Dir
<1>7. Writes(new, j, "processing")
  BY <1>3, <1>5, <1>6 DEF Writes
<1>8. /\ volume' \in Views /\ \A i \in ConvJobs : volume'[<<i, "job.json">>] \in Statuses
      /\ ResultInv' /\ CleanInv'
  BY <1>1, <1>4, <1>7, RunWrites
<1>9. /\ gpu' \in [Gpus -> {Idle, Cold} \cup [pc : {"loaded", "converting"}, job : ConvJobs]]
      /\ gview' \in [Gpus -> Views]
  <2>1. gpu[c] \in [pc : {"loaded", "converting"}, job : ConvJobs]
    BY <1>4 DEF ConvertInv, ConvertTypes, ConvertTypeOK, Idle, Cold
  <2> QED
    BY <1>3, <1>4, <2>1 DEF ConvertInv, ConvertTypes, ConvertTypeOK
<1>10. ConvertTypes'
  BY <1>4, <1>8, <1>9 DEF ConvertInv, ConvertTypes, ConvertTypeOK, Status
<1>11. OwnerInv'
  <2>1. \A d \in Gpus : gpu'[d].job = gpu[d].job /\ (Works(d)' <=> Works(d))
    BY <1>4 DEF Works, ConvertInv, ConvertTypes, ConvertTypeOK
  <2> QED
    BY <1>4, <2>1 DEF ConvertInv, OwnerInv
<1> QED
  BY <1>8, <1>10, <1>11 DEF ConvertInv

(* A run commits its outcome and its container is free.                    *)
LEMMA FinishStep ==
  ASSUME ConvertInv, NEW c \in Gpus, Finish(c)
  PROVE  ConvertInv'
<1>1. PICK j \in ConvJobs : j = gpu[c].job /\ run[j] = "running"
  BY DEF Finish, ConvertInv, OwnerInv, Works
<1> DEFINE f == FailedCommit(volume, gview[c], j)
           d == DoneCommit(volume, gview[c], j)
<1>2. gview[c] \in Views /\ volume \in Views
  BY DEF ConvertInv, ConvertTypes, ConvertTypeOK
<1>3. /\ \/ gview' = [gview EXCEPT ![c] = Failed(gview[c], j)] /\ volume' = f
         \/ gview' = [gview EXCEPT ![c] = Done(gview[c], j)] /\ volume' = d
      /\ gpu' = [gpu EXCEPT ![c] = Idle] /\ run' = [run EXCEPT ![j] = "over"]
      /\ UNCHANGED <<janitor, told, fetched, asked, excused, kills>>
  <2>1. Done(gview[c], j) = [gview[c] EXCEPT ![<<j, "job.json">>] = "done", ![<<j, "result.wav">>] = "wav"]
    BY DEF Done, PutEntry
  <2> QED
    BY <1>1, <2>1 DEF Finish, Write, Failed, PutEntry, FailedCommit, DoneCommit
<1>4. /\ Failed(gview[c], j) \in Views /\ Done(gview[c], j) \in Views
      /\ Writes(f, j, "failed") /\ Writes(d, j, "done")
  <2>1. /\ Failed(gview[c], j) \in Views /\ Done(gview[c], j) \in Views /\ f \in Views /\ d \in Views
        /\ OthersKept(volume, f, j) /\ OthersKept(volume, d, j)
        /\ f[<<j, "job.json">>] = "failed" /\ f[<<j, "result.wav">>] = volume[<<j, "result.wav">>]
        /\ d[<<j, "job.json">>] = "done" /\ d[<<j, "result.wav">>] = "wav"
    BY <1>2, OutcomeCommits
  <2> QED
    BY <2>1 DEF Writes, OthersKept
<1>5. gview' \in [Gpus -> Views]
  BY <1>3, <1>4 DEF ConvertInv, ConvertTypes, ConvertTypeOK
<1> HIDE DEF f, d
<1>6. /\ volume' \in Views /\ \A i \in ConvJobs : volume'[<<i, "job.json">>] \in Statuses
      /\ ResultInv' /\ CleanInv'
  BY <1>1, <1>3, <1>4, RunWrites
<1>7. /\ gpu' \in [Gpus -> {Idle, Cold} \cup [pc : {"loaded", "converting"}, job : ConvJobs]]
      /\ run' \in [ConvJobs -> InFlight \cup {"none", "rejected", "unspawned", "over", "died"}]
  BY <1>3 DEF ConvertInv, ConvertTypes, ConvertTypeOK
<1>8. ConvertTypes'
  BY <1>3, <1>5, <1>6, <1>7 DEF ConvertInv, ConvertTypes, ConvertTypeOK, Status
<1>9. OwnerInv'
  <2>1. Works(c) /\ ~ Works(c)' /\ \A e \in Gpus : e # c => gpu'[e] = gpu[e]
    BY <1>3 DEF Finish, Works, Idle, ConvertInv, ConvertTypes, ConvertTypeOK
  <2> QED
    BY <1>1, <1>3, <2>1 DEF ConvertInv, OwnerInv, Works, ConvertTypes, ConvertTypeOK
<1> QED
  BY <1>6, <1>8, <1>9 DEF ConvertInv

(* Every step of the service keeps the invariant.                          *)
LEMMA ConvertKeeps == ConvertInv /\ [ConvertNext]_convertVars => ConvertInv'
<1> SUFFICES ASSUME ConvertInv, [ConvertNext]_convertVars PROVE ConvertInv'
  OBVIOUS
<1>1. CASE UNCHANGED convertVars
  BY <1>1 DEF convertVars, ConvertInv, ConvertTypes, ConvertTypeOK, ResultInv, OwnerInv, CleanInv,
              Works, Recorded, Status
<1>2. CASE ConvertNext
  BY <1>2, SubmitStep, SpawnStep, PollStep, ResultStep, DeleteStep, CleanupStep, BeginStep, EndStep,
     ProcessingStep, FinishStep DEF ConvertNext
<1> QED
  BY <1>1, <1>2

(* A job that reads done has its result, and a result is missing only for  *)
(* whoever deleted the job, whatever clean-ups on older views, kills and   *)
(* other jobs do in between.                                               *)
THEOREM ResultsAreThere == ConvertSpec => []DoneHasResult
<1>1. ConvertInv => DoneHasResult
  BY DEF ConvertInv, ConvertTypes, ResultInv, DoneHasResult
<1> QED
  BY <1>1, ConvertStarts, ConvertKeeps, PTL DEF ConvertSpec

(* After a clean-up that nothing crossed, nothing of the job lingers or    *)
(* comes back.                                                             *)
THEOREM CleanedForGood == ConvertSpec => []CleanedUp
<1>1. ConvertInv => CleanedUp
  BY DEF ConvertInv, CleanInv, CleanedUp
<1> QED
  BY <1>1, ConvertStarts, ConvertKeeps, PTL DEF ConvertSpec

-----------------------------------------------------------------------------
(* What is shown of a job, and JobPromise.                                  *)

(* A step that sets the record of one job and leaves the other records.    *)
Sets(j, s) ==
  /\ Status(volume, j)' = s
  /\ \A i \in ConvJobs \ {j} : Status(volume, i)' = Status(volume, i)

(* What a run has told the Volume so far, as long as nobody deleted the    *)
(* job: the record a client reads is that of the step its run is in.       *)
PhaseInv ==
  /\ \A j \in ConvJobs :
       /\ run[j] = "none" => Status(volume, j) = NoFile
       /\ asked[j] = "no" /\ run[j] # "none" => Status(volume, j) # NoFile
       /\ asked[j] = "no" /\ run[j] \in {"spawn", "spawned"} => Status(volume, j) = "queued"
  /\ \A c \in Gpus : Works(c) /\ asked[gpu[c].job] = "no" =>
       Status(volume, gpu[c].job) = IF gpu[c].pc = "loaded" THEN "queued" ELSE "processing"

(* A new job's record is set, and no other.                                *)
LEMMA SubmitSets ==
  ASSUME ConvertInv, NEW j \in ConvJobs, Submit(j)
  PROVE  \E s \in {"rejected", "queued"} :
           Sets(j, s) /\ run' = [run EXCEPT ![j] = IF s = "queued" THEN "spawn" ELSE s]
<1>1. PICK s \in {"rejected", "queued"} :
        /\ volume' = [volume EXCEPT ![<<j, "audio">>] = "wav", ![<<j, "job.json">>] = s]
        /\ run' = [run EXCEPT ![j] = IF s = "queued" THEN "spawn" ELSE s]
  BY DEF Submit
<1>2. volume \in Views
  BY DEF ConvertInv, ConvertTypes, ConvertTypeOK
<1>3. \A i \in ConvJobs : <<i, "job.json">> \in ConvJobs \X Files /\ <<i, "job.json">> # <<j, "audio">>
  BY Names
<1>4. Sets(j, s)
  BY <1>1, <1>2, <1>3 DEF Sets, Status, Views
<1> QED
  BY <1>1, <1>4

(* What a run writes is the record of its own job.                         *)
LEMMA WritesSets ==
  ASSUME ConvertInv, NEW j \in ConvJobs, NEW s, Writes(volume', j, s)
  PROVE  Sets(j, s)
<1>1. \A i \in ConvJobs \ {j} : <<i, "job.json">> \in ConvJobs \X Files /\ <<i, "job.json">> \notin Dir(j)
  BY Names DEF Dir
<1> QED
  BY <1>1 DEF Writes, Sets, Status

(* That it is processing is written into the record of its own job.        *)
LEMMA ProcessingSets ==
  ASSUME ConvertInv, NEW c \in Gpus, CommitProcessing(c)
  PROVE  gpu[c].job \in ConvJobs /\ run[gpu[c].job] = "running" /\ Sets(gpu[c].job, "processing")
<1>1. PICK j \in ConvJobs : j = gpu[c].job /\ run[j] = "running"
  BY DEF CommitProcessing, ConvertInv, OwnerInv, Works
<1> DEFINE v == PutEntry(gview[c], j, "job.json", "processing")
<1>2. gview[c] \in Views /\ volume \in Views
  BY DEF ConvertInv, ConvertTypes, ConvertTypeOK
<1>3. /\ v \in Views
      /\ \A f \in ConvJobs \X Files : v[f] = IF f = <<j, "job.json">> THEN "processing" ELSE gview[c][f]
  <2>1. \A w \in Views :
           /\ PutEntry(w, j, "job.json", "processing") \in Views
           /\ \A f \in ConvJobs \X Files :
                PutEntry(w, j, "job.json", "processing")[f] = IF f = <<j, "job.json">> THEN "processing" ELSE w[f]
    BY Names, PutType
  <2> QED
    BY <1>2, <2>1
<1>4. volume' = Commit(volume, v, {<<j, "job.json">>})
  BY <1>1 DEF CommitProcessing, Write, PutEntry
<1> HIDE DEF v
<1>5. \A f \in ConvJobs \X Files : volume'[f] = IF f \in {<<j, "job.json">>} THEN v[f] ELSE volume[f]
  BY <1>2, <1>3, <1>4, CommitType
<1>6. \A i \in ConvJobs : <<i, "job.json">> \in ConvJobs \X Files /\ (i # j => <<i, "job.json">> # <<j, "job.json">>)
  BY Names
<1>7. \A i \in ConvJobs : volume'[<<i, "job.json">>] = IF i = j THEN "processing" ELSE volume[<<i, "job.json">>]
  BY <1>3, <1>5, <1>6
<1>8. Sets(j, "processing")
  BY <1>7 DEF Sets, Status
<1> QED
  BY <1>1, <1>8

(* So is the outcome.                                                      *)
LEMMA FinishSets ==
  ASSUME ConvertInv, NEW c \in Gpus, Finish(c)
  PROVE  /\ gpu[c].job \in ConvJobs /\ run[gpu[c].job] = "running"
         /\ Sets(gpu[c].job, "failed") \/ Sets(gpu[c].job, "done")
<1>1. PICK j \in ConvJobs : j = gpu[c].job /\ run[j] = "running"
  BY DEF Finish, ConvertInv, OwnerInv, Works
<1>2. gview[c] \in Views /\ volume \in Views
  BY DEF ConvertInv, ConvertTypes, ConvertTypeOK
<1>3. volume' = FailedCommit(volume, gview[c], j) \/ volume' = DoneCommit(volume, gview[c], j)
  <2>1. Done(gview[c], j) = [gview[c] EXCEPT ![<<j, "job.json">>] = "done", ![<<j, "result.wav">>] = "wav"]
    BY DEF Done, PutEntry
  <2> QED
    BY <1>1, <2>1 DEF Finish, Write, Failed, PutEntry, FailedCommit, DoneCommit
<1> DEFINE f == FailedCommit(volume, gview[c], j)
           d == DoneCommit(volume, gview[c], j)
<1>4. /\ OthersKept(volume, f, j) /\ OthersKept(volume, d, j)
      /\ f[<<j, "job.json">>] = "failed" /\ d[<<j, "job.json">>] = "done"
  <2>1. OthersKept(volume, FailedCommit(volume, gview[c], j), j)
    BY ZenonT(30), <1>2, OutcomeCommits
  <2>2. OthersKept(volume, DoneCommit(volume, gview[c], j), j)
    BY ZenonT(30), <1>2, OutcomeCommits
  <2>3. FailedCommit(volume, gview[c], j)[<<j, "job.json">>] = "failed"
    BY ZenonT(30), <1>2, OutcomeCommits
  <2>4. DoneCommit(volume, gview[c], j)[<<j, "job.json">>] = "done"
    BY ZenonT(30), <1>2, OutcomeCommits
  <2> QED BY <2>1, <2>2, <2>3, <2>4
<1>5. \A i \in ConvJobs \ {j} : <<i, "job.json">> \in ConvJobs \X Files /\ <<i, "job.json">> \notin Dir(j)
  BY Names DEF Dir
<1> HIDE DEF f, d
<1>6. /\ \A i \in ConvJobs \ {j} : f[<<i, "job.json">>] = volume[<<i, "job.json">>]
      /\ \A i \in ConvJobs \ {j} : d[<<i, "job.json">>] = volume[<<i, "job.json">>]
  BY <1>4, <1>5 DEF OthersKept
<1>7. volume' = f \/ volume' = d
  BY <1>3 DEF f, d
<1>8. Sets(j, "failed") \/ Sets(j, "done")
  BY <1>4, <1>6, <1>7 DEF Sets, Status
<1> QED
  BY <1>1, <1>8

(* A clean-up leaves the records of the other jobs.                        *)
LEMMA CleanupSets ==
  ASSUME ConvertInv, Cleanup
  PROVE  /\ janitor.job \in ConvJobs /\ asked[janitor.job] = "no" /\ run[janitor.job] # "none"
         /\ Sets(janitor.job, Status(volume, janitor.job)')
<1>1. janitor.job \in ConvJobs /\ asked[janitor.job] = "no" /\ run[janitor.job] # "none"
  BY DEF Cleanup, ConvertInv, OwnerInv
<1> DEFINE j == janitor.job
           w == Without(janitor.view, Dir(j))
           dirty == Seen(janitor.view, Dir(j))
<1>2. volume \in Views /\ janitor.view \in Views
  BY DEF ConvertInv, ConvertTypes, ConvertTypeOK
<1>3. volume' = Commit(volume, w, dirty) /\ dirty \subseteq Dir(j)
  BY DEF Cleanup, Seen
<1>4. w \in Views
  BY <1>1, <1>2, WithoutType
<1>5. \A i \in ConvJobs \ {j} : <<i, "job.json">> \in ConvJobs \X Files /\ <<i, "job.json">> \notin Dir(j)
  BY Names DEF Dir
<1> HIDE DEF j, w, dirty
<1>6. \A f \in ConvJobs \X Files : volume'[f] = IF f \in dirty THEN w[f] ELSE volume[f]
  BY <1>2, <1>3, <1>4, CommitType
<1>7. \A i \in ConvJobs \ {j} : volume'[<<i, "job.json">>] = volume[<<i, "job.json">>]
  BY <1>3, <1>5, <1>6
<1> QED
  BY <1>1, <1>7 DEF Sets, Status, j

(* The service starts with no records.                                     *)
LEMMA PhaseStarts == ConvertInit => PhaseInv
<1> SUFFICES ASSUME ConvertInit PROVE PhaseInv
  OBVIOUS
<1>1. \A j \in ConvJobs : Status(volume, j) = NoFile /\ run[j] = "none"
  BY Names DEF ConvertInit, Empty, Status
<1>2. \A c \in Gpus : ~ Works(c)
  BY DEF ConvertInit, Works, Cold
<1> QED
  BY <1>1, <1>2 DEF PhaseInv

(* The steps that read, or that write no record.                           *)
Quiet == \/ \E j \in ConvJobs : Poll(j) \/ GetResult(j) \/ FetchResult(j) \/ Delete(j)
         \/ ScaleDown \/ UNCHANGED convertVars

(* They keep what the records are.                                         *)
LEMMA QuietKeeps ==
  ASSUME ConvertInv, PhaseInv, Quiet
  PROVE  UNCHANGED <<volume, asked>> /\ PhaseInv'
<1>1. UNCHANGED <<volume, asked, run>>
  BY DEF Quiet, Poll, GetResult, FetchResult, Delete, ScaleDown, convertVars
<1>2. \A c \in Gpus : gpu'[c] = gpu[c] \/ ~ Works(c)'
  <2>1. UNCHANGED gpu \/ \E d \in Gpus : gpu' = [gpu EXCEPT ![d] = Cold]
    BY DEF Quiet, Poll, GetResult, FetchResult, Delete, ScaleDown, convertVars
  <2>2. gpu \in [Gpus -> {Idle, Cold} \cup [pc : {"loaded", "converting"}, job : ConvJobs]]
    BY DEF ConvertInv, ConvertTypes, ConvertTypeOK
  <2> QED
    BY <2>1, <2>2 DEF Works, Cold
<1> QED
  BY <1>1, <1>2 DEF PhaseInv, Works, Status

(* A run is spawned, starts on a container or dies on it: its record stays *)
(* what it was.                                                            *)
LEMMA RunKeeps ==
  ASSUME ConvertInv, PhaseInv, NEW j \in ConvJobs, NEW c \in Gpus, Spawn(j) \/ Begin(c, j) \/ Kill(c)
  PROVE  UNCHANGED <<volume, asked>> /\ PhaseInv'
<1>1. UNCHANGED <<volume, asked>>
  BY DEF Spawn, Begin, Kill
<1>2. CASE Spawn(j)
  BY <1>1, <1>2 DEF Spawn, PhaseInv, Works, Status, ConvertInv, ConvertTypes, ConvertTypeOK
<1>3. CASE Begin(c, j)
  <2>1. \/ gpu' = [gpu EXCEPT ![c] = Idle] /\ run' = [run EXCEPT ![j] = "died"]
        \/ /\ gpu' = [gpu EXCEPT ![c] = [pc |-> "loaded", job |-> j]]
           /\ run' = [run EXCEPT ![j] = "running"]
    BY <1>3 DEF Begin
  <2>2. run[j] = "spawned" /\ run \in [ConvJobs -> InFlight \cup {"none", "rejected", "unspawned", "over", "died"}]
        /\ gpu \in [Gpus -> {Idle, Cold} \cup [pc : {"loaded", "converting"}, job : ConvJobs]]
    BY <1>3 DEF Begin, ConvertInv, ConvertTypes, ConvertTypeOK
  <2>3. \A i \in ConvJobs : run'[i] = run[i] \/ (i = j /\ run'[i] \in {"died", "running"})
    BY <2>1, <2>2
  <2>4. \A d \in Gpus : \/ gpu'[d] = gpu[d]
                        \/ d = c /\ (gpu'[d] = Idle \/ gpu'[d] = [pc |-> "loaded", job |-> j])
    BY <2>1, <2>2
  <2>5. \A i \in ConvJobs :
          /\ run'[i] = "none" => Status(volume, i)' = NoFile
          /\ asked'[i] = "no" /\ run'[i] # "none" => Status(volume, i)' # NoFile
          /\ asked'[i] = "no" /\ run'[i] \in {"spawn", "spawned"} => Status(volume, i)' = "queued"
    BY <1>1, <2>2, <2>3 DEF PhaseInv, Status
  <2>6. \A d \in Gpus : Works(d)' /\ asked'[gpu'[d].job] = "no" =>
          Status(volume', gpu'[d].job) = IF gpu'[d].pc = "loaded" THEN "queued" ELSE "processing"
    BY <1>1, <2>2, <2>4 DEF PhaseInv, Status, Works, Idle
  <2> QED
    BY <1>1, <2>5, <2>6 DEF PhaseInv, Status
<1>4. CASE Kill(c)
  <2>1. gpu' = [gpu EXCEPT ![c] = Cold] /\ run' = [run EXCEPT ![gpu[c].job] = "died"] /\ Works(c)
    BY <1>4 DEF Kill, Works
  <2>2. run[gpu[c].job] = "running"
        /\ run \in [ConvJobs -> InFlight \cup {"none", "rejected", "unspawned", "over", "died"}]
        /\ gpu \in [Gpus -> {Idle, Cold} \cup [pc : {"loaded", "converting"}, job : ConvJobs]]
    BY <2>1 DEF ConvertInv, ConvertTypes, ConvertTypeOK, OwnerInv
  <2>3. \A i \in ConvJobs : run'[i] = run[i] \/ (run[i] = "running" /\ run'[i] = "died")
    BY <2>1, <2>2
  <2>4. \A d \in Gpus : gpu'[d] = gpu[d] \/ gpu'[d] = Cold
    BY <2>1, <2>2
  <2> QED
    BY <1>1, <2>3, <2>4 DEF PhaseInv, Status, Works, Cold
<1> QED
  BY <1>1, <1>2, <1>3, <1>4

(* A submission writes a record its run agrees with.                       *)
LEMMA SubmitKeeps ==
  ASSUME ConvertInv, PhaseInv, NEW j \in ConvJobs, Submit(j)
  PROVE  PhaseInv'
<1>1. PICK s \in {"rejected", "queued"} :
        Sets(j, s) /\ run' = [run EXCEPT ![j] = IF s = "queued" THEN "spawn" ELSE s]
  BY SubmitSets
<1>2. UNCHANGED <<gpu, asked>> /\ run[j] = "none"
  BY DEF Submit
<1>3. s # NoFile /\ run \in [ConvJobs -> InFlight \cup {"none", "rejected", "unspawned", "over", "died"}]
  BY Names DEF ConvertInv, ConvertTypes, ConvertTypeOK
<1>4. \A c \in Gpus : Works(c) => gpu[c].job \in ConvJobs \ {j}
  BY <1>2 DEF ConvertInv, OwnerInv
<1>5. \A i \in ConvJobs \ {j} : run'[i] = run[i] /\ Status(volume, i)' = Status(volume, i)
  BY <1>1, <1>3 DEF Sets
<1>6. /\ run'[j] = IF s = "queued" THEN "spawn" ELSE "rejected"
      /\ Status(volume, j)' = s
  BY <1>1, <1>3 DEF Sets
<1>7. \A i \in ConvJobs :
        /\ run'[i] = "none" => Status(volume, i)' = NoFile
        /\ asked'[i] = "no" /\ run'[i] # "none" => Status(volume, i)' # NoFile
        /\ asked'[i] = "no" /\ run'[i] \in {"spawn", "spawned"} => Status(volume, i)' = "queued"
  BY <1>2, <1>3, <1>5, <1>6 DEF PhaseInv
<1>8. \A c \in Gpus : Works(c)' /\ asked'[gpu'[c].job] = "no" =>
        Status(volume', gpu'[c].job) = IF gpu'[c].pc = "loaded" THEN "queued" ELSE "processing"
  BY <1>2, <1>4, <1>5 DEF PhaseInv, Works, Status
<1> QED
  BY <1>7, <1>8 DEF PhaseInv, Status

(* What a conversion writes agrees with where it is.                       *)
LEMMA ConversionKeeps ==
  ASSUME ConvertInv, PhaseInv, NEW c \in Gpus, CommitProcessing(c) \/ Finish(c)
  PROVE  PhaseInv'
<1>1. PICK j \in ConvJobs, s \in {"processing", "failed", "done"} :
        /\ j = gpu[c].job /\ run[j] = "running" /\ Sets(j, s) /\ Works(c)
        /\ \/ s = "processing" /\ gpu' = [gpu EXCEPT ![c].pc = "converting"] /\ UNCHANGED run
           \/ s # "processing" /\ gpu' = [gpu EXCEPT ![c] = Idle] /\ run' = [run EXCEPT ![j] = "over"]
  <2>1. CASE CommitProcessing(c)
    BY <2>1, ProcessingSets DEF CommitProcessing, Works
  <2>2. CASE Finish(c)
    BY <2>2, FinishSets DEF Finish, Works
  <2> QED
    BY <2>1, <2>2
<1>2. UNCHANGED asked /\ s # NoFile
      /\ run \in [ConvJobs -> InFlight \cup {"none", "rejected", "unspawned", "over", "died"}]
      /\ gpu \in [Gpus -> {Idle, Cold} \cup [pc : {"loaded", "converting"}, job : ConvJobs]]
  BY Names DEF CommitProcessing, Finish, ConvertInv, ConvertTypes, ConvertTypeOK
<1>3. \A d \in Gpus \ {c} : gpu'[d] = gpu[d] /\ (Works(d) => gpu[d].job \in ConvJobs \ {j})
  BY <1>1, <1>2 DEF ConvertInv, OwnerInv
<1>4. s = "processing" => gpu'[c].job = j /\ gpu'[c].pc = "converting"
  BY <1>1, <1>2 DEF Works, Idle, Cold
<1>5. s # "processing" => gpu'[c] = Idle
  BY <1>1, <1>2
<1>6. /\ Status(volume, j)' = s /\ run'[j] \in {"running", "over"}
      /\ \A i \in ConvJobs \ {j} : run'[i] = run[i] /\ Status(volume, i)' = Status(volume, i)
  BY <1>1, <1>2 DEF Sets
<1>7. \A i \in ConvJobs :
        /\ run'[i] = "none" => Status(volume, i)' = NoFile
        /\ asked'[i] = "no" /\ run'[i] # "none" => Status(volume, i)' # NoFile
        /\ asked'[i] = "no" /\ run'[i] \in {"spawn", "spawned"} => Status(volume, i)' = "queued"
  BY <1>2, <1>6 DEF PhaseInv
<1>8. ASSUME NEW d \in Gpus, Works(d)', asked'[gpu'[d].job] = "no"
      PROVE  Status(volume', gpu'[d].job) = IF gpu'[d].pc = "loaded" THEN "queued" ELSE "processing"
  <2>1. CASE d = c
    BY <1>4, <1>5, <1>6, <1>8, <2>1 DEF Works, Idle, Status
  <2>2. CASE d # c
    BY <1>2, <1>3, <1>6, <1>8, <2>2 DEF PhaseInv, Works, Status
  <2> QED
    BY <2>1, <2>2
<1> QED
  BY <1>7, <1>8 DEF PhaseInv, Status

(* A clean-up takes only the job that is deleted.                          *)
LEMMA CleanupKeeps ==
  ASSUME ConvertInv, PhaseInv, Cleanup
  PROVE  PhaseInv'
<1>1. PICK j \in ConvJobs : /\ j = janitor.job /\ run[j] # "none"
                            /\ \A i \in ConvJobs \ {j} : Status(volume, i)' = Status(volume, i)
  BY CleanupSets DEF Sets
<1>2. UNCHANGED <<run, gpu>> /\ asked' = [asked EXCEPT ![j] = "answered"] /\ asked \in [ConvJobs -> {"no", "answered"}]
  BY <1>1 DEF Cleanup, ConvertInv, ConvertTypes, ConvertTypeOK
<1>3. asked'[j] = "answered" /\ \A i \in ConvJobs \ {j} : asked'[i] = asked[i]
  BY <1>2
<1>4. \A c \in Gpus : Works(c) => gpu[c].job \in ConvJobs
  BY DEF ConvertInv, OwnerInv
<1> QED
  BY <1>1, <1>2, <1>3, <1>4 DEF PhaseInv, Works, Status

(* Every step keeps both invariants.                                       *)
LEMMA PhaseKeeps == ConvertInv /\ PhaseInv /\ [ConvertNext]_convertVars => PhaseInv'
<1> SUFFICES ASSUME ConvertInv, PhaseInv, [ConvertNext]_convertVars PROVE PhaseInv'
  OBVIOUS
<1>1. CASE Quiet
  BY <1>1, QuietKeeps
<1>2. CASE \E j \in ConvJobs : Submit(j)
  BY <1>2, SubmitKeeps
<1>3. CASE \E c \in Gpus : CommitProcessing(c) \/ Finish(c)
  BY <1>3, ConversionKeeps
<1>4. CASE Cleanup
  BY <1>4, CleanupKeeps
<1>5. CASE \E j \in ConvJobs, c \in Gpus : Begin(c, j)
  BY <1>5, RunKeeps
<1>6. CASE \E j \in ConvJobs : Spawn(j)
  <2>1. PICK j \in ConvJobs : Spawn(j)
    BY <1>6
  <2>2. UNCHANGED <<volume, asked, gpu>>
    BY <2>1 DEF Spawn
  <2> QED
    BY <2>1, <2>2 DEF Spawn, PhaseInv, Works, Status, ConvertInv, ConvertTypes, ConvertTypeOK
<1>7. CASE \E c \in Gpus : Kill(c)
  <2>1. PICK c \in Gpus : Kill(c)
    BY <1>7
  <2>2. gpu[c].job \in ConvJobs
    BY <2>1 DEF Kill, ConvertInv, OwnerInv, Works
  <2> QED
    BY <2>1, <2>2, RunKeeps
<1> QED
  BY <1>1, <1>2, <1>3, <1>4, <1>5, <1>6, <1>7 DEF ConvertNext, Quiet

(* What the client of a job is shown.                                      *)
Shown == [j \in ConvJobs |-> Phase(j)]

(* A step that sets one record moves what is shown of that job only.       *)
LEMMA ShownMoves ==
  ASSUME NEW j \in ConvJobs, NEW s, Sets(j, s), UNCHANGED asked
  PROVE  Shown' = [Shown EXCEPT ![j] = Phase(j)']
<1>1. ASSUME NEW i \in ConvJobs \ {j}
      PROVE  Phase(i)' = Phase(i)
  <2>1. Status(volume, i)' = Status(volume, i) /\ asked' = asked
    BY DEF Sets
  <2> QED
    BY <2>1 DEF Phase
<1> QED
  BY <1>1 DEF Shown

(* The phase that becomes of a record.                                     *)
LEMMA PhaseOf ==
  ASSUME NEW j \in ConvJobs, asked[j] \in {"no", "answered"}
  PROVE  /\ asked[j] = "answered" => Phase(j) = "gone"
         /\ asked[j] = "no" =>
              /\ Status(volume, j) = NoFile => Phase(j) = "none"
              /\ Status(volume, j) = "queued" => Phase(j) = "queued"
              /\ Status(volume, j) = "processing" => Phase(j) = "running"
              /\ Status(volume, j) \in {"rejected", "failed"} => Phase(j) = "failed"
              /\ Status(volume, j) = "done" => Phase(j) = "done"
              /\ Status(volume, j) \in Statuses \ {NoFile} => Phase(j) # "none"
BY Names DEF Phase, NoFile, Statuses

(* Every step of the service is a step of the promise or shows nothing.    *)
LEMMA StepKeepsPromise ==
  ASSUME ConvertInv, PhaseInv, ConvertInv', [ConvertNext]_convertVars
  PROVE  \/ Shown' = Shown
         \/ \E j \in ConvJobs, p \in {"queued", "failed"} :
              Shown[j] = "none" /\ Shown' = [Shown EXCEPT ![j] = p]
         \/ \E j \in ConvJobs : Shown[j] = "queued" /\ Shown' = [Shown EXCEPT ![j] = "running"]
         \/ \E j \in ConvJobs, p \in {"done", "failed"} :
              Shown[j] = "running" /\ Shown' = [Shown EXCEPT ![j] = p]
         \/ \E j \in ConvJobs : Shown[j] # "none" /\ Shown' = [Shown EXCEPT ![j] = "gone"]
<1> DEFINE Goal == \/ Shown' = Shown
                   \/ \E j \in ConvJobs, p \in {"queued", "failed"} :
                        Shown[j] = "none" /\ Shown' = [Shown EXCEPT ![j] = p]
                   \/ \E j \in ConvJobs : Shown[j] = "queued" /\ Shown' = [Shown EXCEPT ![j] = "running"]
                   \/ \E j \in ConvJobs, p \in {"done", "failed"} :
                        Shown[j] = "running" /\ Shown' = [Shown EXCEPT ![j] = p]
                   \/ \E j \in ConvJobs : Shown[j] # "none" /\ Shown' = [Shown EXCEPT ![j] = "gone"]
<1>0. asked \in [ConvJobs -> {"no", "answered"}] /\ asked' \in [ConvJobs -> {"no", "answered"}]
  BY DEF ConvertInv, ConvertTypes, ConvertTypeOK
<1>1. ASSUME UNCHANGED <<volume, asked>> PROVE Shown' = Shown
  BY <1>1 DEF Shown, Phase, Status
<1>2. CASE Quiet \/ \E j \in ConvJobs : Spawn(j) \/ \E c \in Gpus : Begin(c, j)
  <2>1. UNCHANGED <<volume, asked>>
    BY <1>2, QuietKeeps DEF Spawn, Begin
  <2> QED
    BY <1>1, <2>1
<1>3. CASE \E c \in Gpus : Kill(c)
  BY <1>1, <1>3 DEF Kill
<1>4. ASSUME NEW j \in ConvJobs, Submit(j)
      PROVE  Goal
  <2>1. PICK s \in {"rejected", "queued"} : Sets(j, s)
    BY <1>4, SubmitSets
  <2>2. UNCHANGED asked /\ run[j] = "none"
    BY <1>4 DEF Submit
  <2>3. asked[j] = "no" /\ asked'[j] = "no" /\ Status(volume, j) = NoFile
    BY <1>0, <2>2 DEF ConvertInv, OwnerInv, PhaseInv
  <2>4. Phase(j) = "none"
    BY <2>3, PhaseOf
  <2>5. Phase(j)' \in {"queued", "failed"}
    BY <2>1, <2>3 DEF Phase, Sets, NoFile
  <2>6. Shown[j] = "none" /\ Shown' = [Shown EXCEPT ![j] = Phase(j)']
    BY <2>1, <2>2, <2>4, ShownMoves DEF Shown
  <2> QED
    BY <2>5, <2>6
<1>5. ASSUME NEW c \in Gpus, CommitProcessing(c) \/ Finish(c)
      PROVE  Goal
  <2>1. PICK j \in ConvJobs, s \in {"processing", "failed", "done"} :
          /\ j = gpu[c].job /\ Sets(j, s)
          /\ \/ gpu[c].pc = "loaded" /\ s = "processing"
             \/ gpu[c].pc = "converting" /\ s # "processing"
    <3>1. CASE CommitProcessing(c)
      <4>1. gpu[c].pc = "loaded"
        BY <3>1 DEF CommitProcessing
      <4>2. gpu[c].job \in ConvJobs /\ Sets(gpu[c].job, "processing")
        BY <3>1, ProcessingSets
      <4> QED
        BY <4>1, <4>2
    <3>2. CASE Finish(c)
      <4>1. /\ gpu[c].pc = "converting" /\ gpu[c].job \in ConvJobs
            /\ Sets(gpu[c].job, "failed") \/ Sets(gpu[c].job, "done")
        BY <3>2, FinishSets DEF Finish
      <4> QED
        BY <4>1
    <3> QED
      BY <1>5, <3>1, <3>2
  <2>2. UNCHANGED asked /\ Works(c)
    BY <1>5 DEF CommitProcessing, Finish, Works
  <2>3. Shown' = [Shown EXCEPT ![j] = Phase(j)'] /\ Shown[j] = Phase(j)
    BY <2>1, <2>2, ShownMoves DEF Shown
  <2>4. CASE asked[j] = "answered"
    <3>1. Phase(j)' = Phase(j)
      BY <2>2, <2>4 DEF Phase
    <3>2. Shown' = Shown
      BY <2>3, <3>1 DEF Shown
    <3> QED
      BY <3>2
  <2>5. CASE asked[j] = "no"
    <3>1. Status(volume, j) = IF s = "processing" THEN "queued" ELSE "processing"
      BY <2>1, <2>2, <2>5 DEF PhaseInv
    <3>2. Phase(j) = IF s = "processing" THEN "queued" ELSE "running"
      BY <2>5, <3>1 DEF Phase, NoFile
    <3>3. Phase(j)' = IF s = "processing" THEN "running" ELSE s
      BY <2>1, <2>2, <2>5 DEF Phase, Sets, NoFile
    <3>4. CASE s = "processing"
      BY <2>3, <3>2, <3>3, <3>4
    <3>5. CASE s # "processing"
      <4>1. Shown[j] = "running" /\ Shown' = [Shown EXCEPT ![j] = s] /\ s \in {"done", "failed"}
        BY <2>1, <2>3, <3>2, <3>3, <3>5
      <4> QED
        BY <4>1
    <3> QED
      BY <3>4, <3>5
  <2> QED
    BY <1>0, <2>4, <2>5
<1>6. ASSUME Cleanup
      PROVE  Goal
  <2>1. PICK j \in ConvJobs : /\ j = janitor.job /\ run[j] # "none" /\ asked[j] = "no"
                              /\ \A i \in ConvJobs \ {j} : Status(volume, i)' = Status(volume, i)
    BY <1>6, CleanupSets DEF Sets
  <2>2. asked' = [asked EXCEPT ![j] = "answered"]
    BY <1>6, <2>1 DEF Cleanup
  <2>3. Phase(j)' = "gone" /\ \A i \in ConvJobs \ {j} : Phase(i)' = Phase(i)
    BY <1>0, <2>1, <2>2 DEF Phase
  <2>4. Phase(j) # "none"
    <3>1. Status(volume, j) # NoFile
      BY <2>1 DEF PhaseInv
    <3> QED
      BY <2>1, <3>1, PhaseOf DEF ConvertInv, ConvertTypes
  <2>5. Shown[j] # "none" /\ Shown' = [Shown EXCEPT ![j] = "gone"]
    BY <2>3, <2>4 DEF Shown
  <2> QED
    BY <2>5
<1>7. \/ Quiet \/ Cleanup
      \/ \E j \in ConvJobs : Spawn(j) \/ Submit(j) \/ \E c \in Gpus : Begin(c, j)
      \/ \E c \in Gpus : Kill(c) \/ CommitProcessing(c) \/ Finish(c)
  BY DEF ConvertNext, Quiet
<1> QED
  BY <1>2, <1>3, <1>4, <1>5, <1>6, <1>7

(* What clients are shown of conversion jobs is what JobPromise says of    *)
(* any job service: a record moves forward, settles once, and stays gone   *)
(* when its DELETE was answered, also if a late run writes it again.       *)
THEOREM ConvertIsPromised == ConvertSpec => ConvertKeepsPromise
<1>1. ConvertInit => Promise!Init
  <2> SUFFICES ASSUME ConvertInit PROVE Promise!Init
    OBVIOUS
  <2>1. \A j \in ConvJobs : Status(volume, j) = NoFile /\ asked[j] = "no"
    BY Names DEF ConvertInit, Empty, Status
  <2>2. \A j \in ConvJobs : Phase(j) = "none"
    BY <2>1, PhaseOf
  <2> QED
    BY <2>2 DEF Promise!Init
<1>2. ConvertInv /\ PhaseInv /\ [ConvertNext]_convertVars => [Promise!Next]_<<Shown, 0>>
  <2> SUFFICES ASSUME ConvertInv, PhaseInv, [ConvertNext]_convertVars
               PROVE  [Promise!Next]_<<Shown, 0>>
    OBVIOUS
  <2>1. ConvertInv'
    BY ConvertKeeps
  <2>2. CASE Shown' = Shown
    BY <2>2
  <2>3. CASE \E j \in ConvJobs, p \in {"queued", "failed"} :
               Shown[j] = "none" /\ Shown' = [Shown EXCEPT ![j] = p]
    BY <2>3 DEF Promise!Next, Promise!Accept, Promise!Become, Shown
  <2>4. CASE \E j \in ConvJobs : Shown[j] = "queued" /\ Shown' = [Shown EXCEPT ![j] = "running"]
    BY <2>4 DEF Promise!Next, Promise!Start, Promise!Become, Shown
  <2>5. CASE \E j \in ConvJobs, p \in {"done", "failed"} :
               Shown[j] = "running" /\ Shown' = [Shown EXCEPT ![j] = p]
    BY <2>5 DEF Promise!Next, Promise!Settle, Promise!Become, Shown
  <2>6. CASE \E j \in ConvJobs : Shown[j] # "none" /\ Shown' = [Shown EXCEPT ![j] = "gone"]
    BY <2>6 DEF Promise!Next, Promise!Remove, Promise!Become, Shown
  <2> QED
    BY <2>1, <2>2, <2>3, <2>4, <2>5, <2>6, StepKeepsPromise
<1> QED
  BY <1>1, <1>2, ConvertStarts, ConvertKeeps, PhaseStarts, PhaseKeeps, PTL
     DEF ConvertSpec, ConvertKeepsPromise, Promise!Spec, Shown

-----------------------------------------------------------------------------
(* Dubbing, for any number of jobs, threads and restarts.                  *)
DubSpec == DubInit /\ [][DubNext]_dubVars

(* What a job is by where its thread is: what is in memory, what is on     *)
(* disk and what was counted.                                              *)
MemoryOf(job, left, n, pc) ==
  /\ job.status = "done" => /\ left /\ n = 4 /\ pc \in {"settling", "settled", "failing", "closing", "over"}
                            /\ job.result \/ pc = "settling"
  /\ job.result => job.status \in {"done", "error"} /\ left /\ n = 4
  /\ pc \in {"none", "authorizing", "refused", "authorized"} => job = NoJob
  /\ pc \in {"posting", "queued"} => job = Job("queued", FALSE)
  /\ pc \in {"starting", "piping"} => job = Job("running", FALSE)
  /\ pc = "failing" => job = Job("running", FALSE) \/ job = Job("done", TRUE)
  /\ pc = "piping" => n < 4
  /\ pc = "settling" => left /\ n = 4 /\ job.status \in {"running", "done"}
  /\ pc = "settled" => job = Job("done", TRUE)
  /\ job.status # "torn"
InMemory(j) == MemoryOf(mem[j], out[j], stage[j], work[j])

OnDisk(j) == /\ disk[j].status = "done" => out[j] /\ disk[j].result
             /\ disk[j].result => out[j] /\ stage[j] = 4

Counted(j) ==
  charged[j] = 1 => /\ out[j] /\ stage[j] = 4 /\ work[j] \in {"failing", "closing", "over"}
                    /\ \/ mem[j].status = "done" \/ mem[j] = Job("error", TRUE)
                       \/ work[j] = "over" /\ dubRestarts > 0

(* What the executor holds are jobs no thread has taken, each once.        *)
QueueInv ==
  /\ \A n \in 1 .. Len(queue) : work[queue[n]] = "queued"
  /\ \A n, m \in 1 .. Len(queue) : queue[n] = queue[m] => n = m

JobInv(j) == InMemory(j) /\ OnDisk(j) /\ Counted(j)

DubInv == DubTypeOK /\ (\A j \in DubJobs : JobInv(j)) /\ QueueInv

(* There are four stages.                                                  *)
LEMMA FourStages ==
  /\ Len(Stages) = 4
  /\ Stages[1] = "transcribe" /\ Stages[2] = "translate" /\ Stages[3] = "speak" /\ Stages[4] = "fit"
BY DEF Stages

(* The server starts without jobs.                                         *)
LEMMA DubStarts == DubInit => DubInv
<1> SUFFICES ASSUME DubInit PROVE DubInv
  OBVIOUS
<1>1. DubTypeOK
  BY DubbingAssumption, FourStages DEF DubInit, DubTypeOK, NoJob, Job, JobsOf
<1>2. \A j \in DubJobs : JobInv(j)
  BY DEF DubInit, JobInv, InMemory, MemoryOf, OnDisk, Counted, NoJob, Job
<1>3. QueueInv
  BY DEF DubInit, QueueInv
<1> QED
  BY <1>1, <1>2, <1>3 DEF DubInv

(* A step of one job leaves what is known of the others.                   *)
Alone(j) ==
  /\ \A i \in DubJobs \ {j} :
       /\ mem'[i] = mem[i] /\ disk'[i] = disk[i] /\ out'[i] = out[i] /\ work'[i] = work[i]
       /\ stage'[i] = stage[i] /\ charged'[i] = charged[i]
  /\ dubRestarts' = dubRestarts

(* So the invariant of all jobs follows from that of the one.              *)
LEMMA OthersStay ==
  ASSUME DubInv, NEW j \in DubJobs, Alone(j), JobInv(j)'
  PROVE  \A i \in DubJobs : JobInv(i)'
<1> SUFFICES ASSUME NEW i \in DubJobs PROVE JobInv(i)'
  OBVIOUS
<1>1. CASE i = j
  BY <1>1
<1>2. CASE i # j
  <2>1. /\ mem'[i] = mem[i] /\ disk'[i] = disk[i] /\ out'[i] = out[i] /\ work'[i] = work[i]
        /\ stage'[i] = stage[i] /\ charged'[i] = charged[i] /\ dubRestarts' = dubRestarts
    BY <1>2 DEF Alone
  <2>2. InMemory(i)'
    <3>1. InMemory(i)
      BY DEF DubInv, JobInv
    <3> QED BY <2>1, <3>1 DEF InMemory
  <2>3. OnDisk(i)' /\ Counted(i)'
    <3>1. OnDisk(i) /\ Counted(i)
      BY DEF DubInv, JobInv
    <3> QED BY <2>1, <3>1 DEF OnDisk, Counted
  <2> QED
    BY <2>2, <2>3 DEF JobInv
<1> QED
  BY <1>1, <1>2

(* The queue is untouched, and so is what it holds.                        *)
LEMMA QueueStays ==
  ASSUME DubInv, NEW j \in DubJobs, Alone(j), work[j] # "queued" \/ work'[j] = work[j], UNCHANGED queue
  PROVE  QueueInv'
<1>1. \A n \in 1 .. Len(queue) : queue[n] \in DubJobs /\ work[queue[n]] = "queued"
  <2>1. queue \in Seq(DubJobs)
    BY DEF DubInv, DubTypeOK
  <2>2. \A n \in 1 .. Len(queue) : queue[n] \in DubJobs
    BY <2>1
  <2> QED
    BY <2>2 DEF DubInv, QueueInv
<1>2. \A n \in 1 .. Len(queue) : work'[queue[n]] = "queued"
  BY <1>1 DEF Alone
<1> QED
  BY <1>2 DEF DubInv, QueueInv

(* A stage that is not the last leaves the thread in the pipeline, or it   *)
(* fails.                                                                  *)
Piped(j) ==
  /\ work[j] = "piping" /\ UNCHANGED <<mem, disk, out, queue, charged, got, dubRestarts>>
  /\ \/ stage[j] < 3 /\ stage' = [stage EXCEPT ![j] = stage[j] + 1] /\ UNCHANGED work
     \/ work' = [work EXCEPT ![j] = "failing"] /\ UNCHANGED stage

(* Three of the four stages do so.                                         *)
LEMMA StageByStage ==
  ASSUME DubInv, NEW j \in DubJobs, Transcribe(j) \/ Translate(j) \/ Speak(j)
  PROVE  Piped(j)
<1>1. work[j] = "piping" /\ stage[j] \in 0 .. 3
  <2>1. work[j] = "piping"
    BY DEF Transcribe, Translate, Speak, Stage
  <2>2. stage[j] \in 0 .. 4 /\ stage[j] < 4
    BY <2>1, FourStages DEF DubInv, DubTypeOK, JobInv, InMemory, MemoryOf
  <2> QED
    BY <2>1, <2>2
<1>2. PICK n \in {"transcribe", "translate", "speak"} : Stage(j, n, UNCHANGED <<work, out>>)
  BY DEF Transcribe, Translate, Speak
<1>3. stage[j] < 3 \/ Stages[stage[j] + 1] = "fit"
  BY <1>1, FourStages
<1>4. stage[j] < 3
  BY <1>2, <1>3 DEF Stage
<1> QED
  BY <1>1, <1>2, <1>4 DEF Stage, Piped, GoTo

(* What a step changes of one job.                                         *)
Places == Busy \cup {"none", "authorizing", "refused", "authorized", "posting", "queued", "over"}

(* Each of these assignments is to one job and keeps the type.             *)
LEMMA Changed ==
  ASSUME DubInv, NEW j \in DubJobs
  PROVE  /\ \A pc \in Places : GoTo(j, pc) =>
              work' \in [DubJobs -> Places] /\ \A i \in DubJobs \ {j} : work'[i] = work[i]
         /\ \A job \in JobsOf : SetMem(j, job) =>
              mem' \in [DubJobs -> JobsOf] /\ \A i \in DubJobs \ {j} : mem'[i] = mem[i]
         /\ disk' = [disk EXCEPT ![j] = mem[j]] =>
              disk' \in [DubJobs -> JobsOf] /\ \A i \in DubJobs \ {j} : disk'[i] = disk[i]
         /\ \A n \in 0 .. 4 : stage' = [stage EXCEPT ![j] = n] =>
              stage' \in [DubJobs -> 0 .. 4] /\ \A i \in DubJobs \ {j} : stage'[i] = stage[i]
<1>1. /\ work \in [DubJobs -> Places] /\ mem \in [DubJobs -> JobsOf] /\ disk \in [DubJobs -> JobsOf]
      /\ stage \in [DubJobs -> 0 .. 4]
  BY FourStages DEF DubInv, DubTypeOK, Places
<1> QED
  BY <1>1 DEF GoTo, SetMem

(* The types, of which a step changes a few.                               *)
LEMMA TypesFrom ==
  ASSUME DubInv, NEW j \in DubJobs,
         (GoTo(j, work'[j]) /\ work'[j] \in Places) \/ UNCHANGED work,
         (SetMem(j, mem'[j]) /\ mem'[j] \in JobsOf) \/ UNCHANGED mem,
         disk' = [disk EXCEPT ![j] = mem[j]] \/ UNCHANGED disk,
         (stage' = [stage EXCEPT ![j] = stage'[j]] /\ stage'[j] \in 0 .. 4) \/ UNCHANGED stage,
         out' = [out EXCEPT ![j] = TRUE] \/ UNCHANGED out,
         (\E n \in 0 .. 1 : charged' = [charged EXCEPT ![j] = n]) \/ UNCHANGED charged,
         (\E g \in {"served", "gone"} : got' = [got EXCEPT ![j] = g]) \/ UNCHANGED got,
         queue' = Append(queue, j) \/ UNCHANGED queue, UNCHANGED dubRestarts
  PROVE  DubTypeOK' /\ Alone(j)
<1>1. DubTypeOK
  BY DEF DubInv
<1>2. work' \in [DubJobs -> Places] /\ \A i \in DubJobs \ {j} : work'[i] = work[i]
  BY <1>1, Changed DEF DubTypeOK, Places
<1>3. mem' \in [DubJobs -> JobsOf] /\ \A i \in DubJobs \ {j} : mem'[i] = mem[i]
  BY <1>1, Changed DEF DubTypeOK
<1>4. disk' \in [DubJobs -> JobsOf] /\ \A i \in DubJobs \ {j} : disk'[i] = disk[i]
  BY <1>1, Changed DEF DubTypeOK
<1>5. stage' \in [DubJobs -> 0 .. 4] /\ \A i \in DubJobs \ {j} : stage'[i] = stage[i]
  BY <1>1, Changed, FourStages DEF DubTypeOK
<1>6. /\ out' \in [DubJobs -> BOOLEAN] /\ \A i \in DubJobs \ {j} : out'[i] = out[i]
      /\ charged' \in [DubJobs -> 0 .. 1] /\ \A i \in DubJobs \ {j} : charged'[i] = charged[i]
      /\ got' \in [DubJobs -> {"none", "served", "gone"}]
  BY <1>1 DEF DubTypeOK
<1>7. queue' \in Seq(DubJobs) /\ dubRestarts' \in 0 .. MaxRestarts
  <2>1. queue \in Seq(DubJobs) /\ dubRestarts \in 0 .. MaxRestarts
    BY <1>1 DEF DubTypeOK
  <2>2. Append(queue, j) \in Seq(DubJobs)
    BY <2>1
  <2>3. queue' \in Seq(DubJobs)
    BY <2>1, <2>2
  <2> QED
    BY <2>1, <2>3
<1> QED
  BY <1>2, <1>3, <1>4, <1>5, <1>6, <1>7, FourStages DEF DubTypeOK, Places, Alone

(* What a thread makes of a job in one step, but for taking it.            *)
LEMMA StepTypes ==
  ASSUME DubInv, NEW j \in DubJobs, Ask(j) \/ DubStep(j) \/ FetchDubbed(j)
  PROVE  DubTypeOK' /\ Alone(j)
<1>0. /\ mem[j] \in JobsOf /\ stage[j] \in 0 .. 4 /\ j \in DOMAIN mem /\ j \in DOMAIN stage /\ j \in DOMAIN work
      /\ work[j] = "piping" => stage[j] < 4
  <2>1. mem[j] \in JobsOf /\ stage[j] \in 0 .. 4 /\ j \in DOMAIN mem /\ j \in DOMAIN stage /\ j \in DOMAIN work
    BY FourStages DEF DubInv, DubTypeOK
  <2>2. InMemory(j)
    BY DEF DubInv, JobInv
  <2> QED BY <2>1, <2>2 DEF InMemory, MemoryOf
<1> DEFINE From ==
      /\ (GoTo(j, work'[j]) /\ work'[j] \in Places) \/ UNCHANGED work
      /\ (SetMem(j, mem'[j]) /\ mem'[j] \in JobsOf) \/ UNCHANGED mem
      /\ disk' = [disk EXCEPT ![j] = mem[j]] \/ UNCHANGED disk
      /\ (stage' = [stage EXCEPT ![j] = stage'[j]] /\ stage'[j] \in 0 .. 4) \/ UNCHANGED stage
      /\ out' = [out EXCEPT ![j] = TRUE] \/ UNCHANGED out
      /\ (\E n \in 0 .. 1 : charged' = [charged EXCEPT ![j] = n]) \/ UNCHANGED charged
      /\ (\E g \in {"served", "gone"} : got' = [got EXCEPT ![j] = g]) \/ UNCHANGED got
      /\ queue' = Append(queue, j) \/ UNCHANGED queue
      /\ UNCHANGED dubRestarts
<1> USE <1>0 DEF GoTo, SetMem, JobsOf, Job, NoJob, Busy, Places
<1>1. ASSUME Ask(j) PROVE From
  BY <1>1 DEF Ask
<1>2. ASSUME Authorize(j) PROVE From
  BY <1>2 DEF Authorize
<1>3. ASSUME Post(j) PROVE From
  BY <1>3 DEF Post
<1>4. ASSUME PostWrite(j) PROVE From
  BY <1>4 DEF PostWrite
<1>5. ASSUME StartWrite(j) PROVE From
  BY <1>5 DEF StartWrite
<1>6. ASSUME Transcribe(j) \/ Translate(j) \/ Speak(j) PROVE From
  <2>1. Piped(j)
    BY <1>6, StageByStage
  <2> QED
    BY <2>1 DEF Piped
<1>7. ASSUME Fit(j) PROVE From
  BY <1>7 DEF Fit, Stage
<1>8. ASSUME SettleStatus(j) PROVE From
  BY <1>8 DEF SettleStatus
<1>9. ASSUME SettleResult(j) PROVE From
  BY <1>9 DEF SettleResult
<1>10. ASSUME Report(j) PROVE From
  BY <1>10 DEF Report
<1>11. ASSUME Fail(j) PROVE From
  BY <1>11 DEF Fail
<1>12. ASSUME CloseWrite(j) PROVE From
  BY <1>12 DEF CloseWrite
<1>13. ASSUME FetchDubbed(j) PROVE From
  BY <1>13 DEF FetchDubbed
<1>14. From
  BY ONLY Ask(j) \/ DubStep(j) \/ FetchDubbed(j), <1>1, <1>2, <1>3, <1>4, <1>5, <1>6, <1>7, <1>8, <1>9, <1>10,
          <1>11, <1>12, <1>13 DEF DubStep
<1> HIDE <1>0
<1> QED
  BY ONLY DubInv, j \in DubJobs, <1>14, TypesFrom

(* Such a step keeps what is known of its job.                             *)
LEMMA StepKeepsJob ==
  ASSUME DubInv, NEW j \in DubJobs, Ask(j) \/ DubStep(j) \/ FetchDubbed(j)
  PROVE  JobInv(j)'
<1>0. /\ mem[j] \in JobsOf /\ disk[j] \in JobsOf /\ out[j] \in BOOLEAN /\ stage[j] \in 0 .. 4 /\ charged[j] \in 0 .. 1
      /\ j \in DOMAIN mem /\ j \in DOMAIN disk /\ j \in DOMAIN out /\ j \in DOMAIN stage
      /\ j \in DOMAIN work /\ j \in DOMAIN charged
  BY FourStages DEF DubInv, DubTypeOK
<1>inv. InMemory(j) /\ OnDisk(j) /\ Counted(j)
  BY DEF DubInv, JobInv
<1>fail. \A r : [Job("running", r) EXCEPT !.status = "error"] = Job("error", r)
                /\ [Job("done", r) EXCEPT !.status = "error"] = Job("error", r)
  BY DEF Job
<1> USE <1>0, <1>inv, FourStages DEF GoTo, SetMem, JobsOf, Job, NoJob, JobInv, InMemory, MemoryOf, OnDisk, Counted
<1>1. CASE Ask(j)
  BY <1>1 DEF Ask
<1>2. CASE Authorize(j)
  BY <1>2 DEF Authorize
<1>3. CASE Post(j)
  BY <1>3 DEF Post
<1>4. CASE PostWrite(j)
  BY <1>4 DEF PostWrite
<1>5. CASE StartWrite(j)
  BY <1>5 DEF StartWrite
<1>6. CASE Transcribe(j) \/ Translate(j) \/ Speak(j)
  <2>1. Piped(j)
    BY <1>6, StageByStage
  <2>2. CASE stage[j] < 3 /\ stage' = [stage EXCEPT ![j] = stage[j] + 1] /\ UNCHANGED work
    <3>1. stage'[j] = stage[j] + 1 /\ stage'[j] < 4
      BY <2>2
    <3> QED
      BY <2>1, <2>2, <3>1 DEF Piped
  <2>3. CASE work' = [work EXCEPT ![j] = "failing"] /\ UNCHANGED stage
    BY <2>1, <2>3 DEF Piped
  <2> QED
    BY <2>1, <2>2, <2>3 DEF Piped
<1>7. CASE Fit(j)
  BY <1>7 DEF Fit, Stage
<1>8. CASE SettleStatus(j)
  BY <1>8 DEF SettleStatus
<1>9. CASE SettleResult(j)
  BY <1>9 DEF SettleResult
<1>10. CASE Report(j)
  BY <1>10 DEF Report
<1>11. CASE Fail(j)
  <2>1. work[j] = "failing" /\ work'[j] = "closing" /\ mem'[j] = [mem[j] EXCEPT !.status = "error"]
        /\ UNCHANGED <<disk, out, stage, charged, dubRestarts>>
    BY <1>11 DEF Fail
  <2>2. CASE mem[j] = Job("running", FALSE)
    <3>1. mem'[j] = Job("error", FALSE)
      BY ONLY <1>fail, <2>1, <2>2
    <3> QED BY <2>1, <2>2, <3>1
  <2>3. CASE mem[j] = Job("done", TRUE)
    <3>1. mem'[j] = Job("error", TRUE)
      BY ONLY <1>fail, <2>1, <2>3
    <3> QED BY <2>1, <2>3, <3>1
  <2> QED BY <2>1, <2>2, <2>3
<1>12. CASE CloseWrite(j)
  BY <1>12 DEF CloseWrite
<1>13. CASE FetchDubbed(j)
  BY <1>13 DEF FetchDubbed
<1> QED
  BY <1>1, <1>2, <1>3, <1>4, <1>5, <1>6, <1>7, <1>8, <1>9, <1>10, <1>11, <1>12, <1>13 DEF DubStep

(* And of the executor, which PostWrite adds to.                           *)
LEMMA StepKeepsQueue ==
  ASSUME DubInv, NEW j \in DubJobs, Ask(j) \/ DubStep(j) \/ FetchDubbed(j)
  PROVE  QueueInv'
<1>0. Alone(j)
  BY StepTypes
<1>1. CASE PostWrite(j)
  <2>1. queue' = Append(queue, j) /\ queue \in Seq(DubJobs) /\ work[j] = "posting" /\ work'[j] = "queued"
    BY <1>1 DEF PostWrite, GoTo, DubInv, DubTypeOK
  <2>2. \A n \in 1 .. Len(queue) : queue[n] \in DubJobs \ {j} /\ work[queue[n]] = "queued"
    BY <2>1 DEF DubInv, QueueInv
  <2>3. /\ Len(queue') = Len(queue) + 1 /\ Len(queue) \in Nat
        /\ \A n \in 1 .. Len(queue) : queue'[n] = queue[n]
        /\ queue'[Len(queue) + 1] = j
    BY <2>1
  <2>4. \A n \in 1 .. Len(queue') : n = Len(queue) + 1 \/ n \in 1 .. Len(queue)
    BY <2>3
  <2>5. \A n \in 1 .. Len(queue') : work'[queue'[n]] = "queued"
    BY <1>0, <2>1, <2>2, <2>3, <2>4 DEF Alone
  <2>6. \A n, m \in 1 .. Len(queue') : queue'[n] = queue'[m] => n = m
    BY <2>2, <2>3, <2>4 DEF DubInv, QueueInv
  <2> QED
    BY <2>5, <2>6 DEF QueueInv
<1>2. CASE ~ PostWrite(j)
  <2>1. UNCHANGED queue /\ (work[j] # "queued" \/ work'[j] = work[j])
    BY <1>2 DEF DubStep, Ask, Authorize, Post, StartWrite, Transcribe, Translate, Speak, Fit, Stage,
                SettleStatus, SettleResult, Report, Fail, CloseWrite, FetchDubbed
  <2> QED
    BY <1>0, <2>1, QueueStays
<1> QED
  BY <1>1, <1>2

(* A thread takes the oldest job.                                          *)
LEMMA TakeKeeps ==
  ASSUME DubInv, Take
  PROVE  DubInv'
<1>0. PICK j \in DubJobs : j = Head(queue)
  BY DEF Take, DubInv, DubTypeOK
<1>1. /\ queue \in Seq(DubJobs) /\ queue # <<>> /\ queue' = Tail(queue)
      /\ work' = [work EXCEPT ![j] = "starting"] /\ mem' = [mem EXCEPT ![j] = Job("running", FALSE)]
      /\ UNCHANGED <<disk, out, stage, charged, got, dubRestarts>>
  BY <1>0 DEF Take, GoTo, SetMem, DubInv, DubTypeOK
<1>2. /\ Len(queue) \in Nat \ {0} /\ j = queue[1] /\ j \in DubJobs
      /\ Len(queue') = Len(queue) - 1 /\ queue' \in Seq(DubJobs)
      /\ \A n \in 1 .. Len(queue') : queue'[n] = queue[n + 1] /\ n + 1 \in 1 .. Len(queue)
  BY <1>0, <1>1
<1>3. work[j] = "queued"
  BY <1>2 DEF DubInv, QueueInv
<1>4. work' \in [DubJobs -> Places] /\ mem' \in [DubJobs -> JobsOf]
  BY <1>1 DEF DubInv, DubTypeOK, Places, Busy, JobsOf, Job
<1>5. DubTypeOK'
  BY <1>1, <1>2, <1>4 DEF DubInv, DubTypeOK, Places
<1>6. /\ work'[j] = "starting" /\ mem'[j] = Job("running", FALSE) /\ charged'[j] = charged[j] /\ disk'[j] = disk[j]
      /\ out'[j] = out[j] /\ dubRestarts' = dubRestarts
      /\ \A i \in DubJobs \ {j} : work'[i] = work[i] /\ mem'[i] = mem[i]
  BY <1>1, <1>2 DEF DubInv, DubTypeOK
<1>7. Alone(j)
  BY <1>1, <1>6 DEF Alone
<1>8. JobInv(j)'
  <2>1. InMemory(j) /\ OnDisk(j) /\ Counted(j)
    BY <1>2 DEF DubInv, JobInv
  <2>2. OnDisk(j)'
    BY <1>1, <2>1 DEF OnDisk
  <2>3. Counted(j)'
    BY <1>3, <1>6, <2>1 DEF Counted
  <2>4. InMemory(j)'
    BY <1>6 DEF InMemory, MemoryOf, Job
  <2> QED
    BY <2>2, <2>3, <2>4 DEF JobInv
<1>9. QueueInv'
  <2>1. \A n \in 1 .. Len(queue') : queue'[n] # j
    BY <1>2 DEF DubInv, QueueInv
  <2>2. \A n \in 1 .. Len(queue') : queue'[n] \in DubJobs \ {j} /\ work[queue'[n]] = "queued"
    BY <1>2, <2>1 DEF DubInv, QueueInv
  <2>3. \A n \in 1 .. Len(queue') : work'[queue'[n]] = "queued"
    BY <1>6, <2>2
  <2>4. \A n, m \in 1 .. Len(queue') : queue'[n] = queue'[m] => n = m
    <3> SUFFICES ASSUME NEW n \in 1 .. Len(queue'), NEW m \in 1 .. Len(queue'), queue'[n] = queue'[m]
                 PROVE  n = m
      OBVIOUS
    <3>1. n + 1 = m + 1
      BY <1>2 DEF DubInv, QueueInv
    <3> QED
      BY <1>2, <3>1
  <2> QED
    BY <2>3, <2>4 DEF QueueInv
<1> QED
  BY <1>2, <1>5, <1>7, <1>8, <1>9, OthersStay DEF DubInv

(* A restart leaves the status files, whole or torn.                       *)
LEMMA RestartKeeps ==
  ASSUME DubInv, RestartServer
  PROVE  DubInv'
<1>1. /\ disk' \in [DubJobs -> JobsOf] /\ \A j \in DubJobs : disk'[j] \in {disk[j], Torn}
      /\ mem' = [j \in DubJobs |-> NoJob]
      /\ work' = [j \in DubJobs |-> IF work[j] = "none" THEN "none" ELSE "over"]
      /\ queue' = <<>> /\ dubRestarts' = dubRestarts + 1 /\ dubRestarts < MaxRestarts
      /\ UNCHANGED <<out, stage, charged, got>>
  BY DEF RestartServer, RestartedDisk
<1>2. DubTypeOK'
  <2>1. dubRestarts' \in 0 .. MaxRestarts
    BY <1>1, DubbingAssumption DEF DubInv, DubTypeOK
  <2>2. mem' \in [DubJobs -> JobsOf] /\ work' \in [DubJobs -> Places]
    BY <1>1 DEF NoJob, Job, JobsOf, Places
  <2> QED
    BY <1>1, <2>1, <2>2 DEF DubInv, DubTypeOK, Places
<1>3. ASSUME NEW j \in DubJobs
      PROVE  JobInv(j)'
  <2>1. /\ mem'[j] = NoJob /\ work'[j] = IF work[j] = "none" THEN "none" ELSE "over"
        /\ disk'[j] \in {disk[j], Torn} /\ out'[j] = out[j] /\ charged'[j] = charged[j] /\ stage'[j] = stage[j]
    BY <1>1
  <2>2. InMemory(j) /\ OnDisk(j) /\ Counted(j)
    BY DEF DubInv, JobInv
  <2>3. InMemory(j)'
    BY <2>1 DEF InMemory, MemoryOf, NoJob, Job
  <2>4. OnDisk(j)'
    BY <2>1, <2>2 DEF OnDisk, Torn, Job
  <2>5. Counted(j)'
    <3>1. dubRestarts' > 0
      BY <1>1, DubbingAssumption DEF DubInv, DubTypeOK
    <3> QED
      BY <2>1, <2>2, <3>1 DEF Counted
  <2> QED
    BY <2>3, <2>4, <2>5 DEF JobInv
<1>4. QueueInv'
  BY <1>1 DEF QueueInv
<1> QED
  BY <1>2, <1>3, <1>4 DEF DubInv

(* Every step keeps the invariant.                                         *)
LEMMA DubKeeps == DubInv /\ [DubNext]_dubVars => DubInv'
<1> SUFFICES ASSUME DubInv, [DubNext]_dubVars PROVE DubInv'
  OBVIOUS
<1>1. CASE UNCHANGED dubVars
  <2>1. DubTypeOK' /\ QueueInv'
    BY <1>1 DEF dubVars, DubInv, DubTypeOK, QueueInv
  <2>2. \A j \in DubJobs : JobInv(j)'
    BY <1>1 DEF dubVars, DubInv, JobInv, InMemory, MemoryOf, OnDisk, Counted
  <2> QED
    BY <2>1, <2>2 DEF DubInv
<1>2. CASE Take
  BY <1>2, TakeKeeps
<1>3. CASE RestartServer
  BY <1>3, RestartKeeps
<1>4. ASSUME NEW j \in DubJobs, Ask(j) \/ DubStep(j) \/ FetchDubbed(j)
      PROVE  DubInv'
  <2>1. DubTypeOK' /\ Alone(j)
    BY <1>4, StepTypes
  <2>2. JobInv(j)'
    BY <1>4, StepKeepsJob
  <2>3. QueueInv'
    BY <1>4, StepKeepsQueue
  <2> QED
    BY <2>1, <2>2, <2>3, OthersStay DEF DubInv
<1> QED
  BY <1>1, <1>2, <1>3, <1>4 DEF DubNext

(* A job that reads done, from memory or from its status file, has its     *)
(* result, and usage is counted only of jobs that went through every stage *)
(* and read done, unless the process was restarted before that was written *)
(* or the report itself raised: then they read error, with their result.   *)
THEOREM DoneIsServed == DubSpec => []SettledAndServed
<1>1. DubInv => SettledAndServed
  <2> SUFFICES ASSUME DubInv, NEW j \in DubJobs
               PROVE  /\ Visible(j).status = "done" => out[j] /\ (Visible(j).result \/ work[j] = "settling")
                      /\ charged[j] = 1 => /\ out[j] /\ stage[j] = Len(Stages)
                                           /\ \/ Visible(j).status = "done"
                                              \/ dubRestarts > 0 /\ work[j] = "over"
                                              \/ Visible(j) = Job("error", TRUE)
                      /\ Visible(j).result => out[j] /\ stage[j] = Len(Stages)
    BY DEF SettledAndServed, DubInv
  <2>1. InMemory(j) /\ OnDisk(j) /\ Counted(j)
    BY DEF DubInv, JobInv
  <2>2. Visible(j).status = "done" => out[j] /\ (Visible(j).result \/ work[j] = "settling")
    BY <2>1 DEF Visible, InMemory, MemoryOf, OnDisk
  <2>3. /\ mem[j].status = "done" => Visible(j).status = "done"
        /\ mem[j] = Job("error", TRUE) => Visible(j) = Job("error", TRUE)
    BY DEF Visible, NoJob, Job
  <2>4. charged[j] = 1 => /\ out[j] /\ stage[j] = Len(Stages)
                          /\ \/ Visible(j).status = "done"
                             \/ dubRestarts > 0 /\ work[j] = "over"
                             \/ Visible(j) = Job("error", TRUE)
    BY <2>1, <2>3, FourStages DEF Counted
  <2>5. Visible(j).result => out[j] /\ stage[j] = Len(Stages)
    BY <2>1, FourStages DEF Visible, InMemory, MemoryOf, OnDisk
  <2> QED
    BY <2>2, <2>4, <2>5
<1> QED
  BY <1>1, DubKeeps, DubStarts, PTL DEF DubSpec

(* The status file of a job by where its thread is: it says what memory    *)
(* said at the last write, and never more than memory says now.            *)
Behind(j) ==
  /\ work[j] \in {"none", "authorizing", "refused", "authorized", "posting"} => disk[j] = NoJob
  /\ work[j] \in {"queued", "starting"} => disk[j].status = "queued"
  /\ work[j] \in {"piping", "failing", "settling", "settled", "closing"} => disk[j].status = "running"
  /\ work[j] = "over" => mem[j] = NoJob \/ disk[j] = mem[j]
  /\ work[j] = "closing" => mem[j].status \in {"done", "error"}

LEMMA BehindStarts == DubInit => \A j \in DubJobs : Behind(j)
BY DEF DubInit, Behind

LEMMA DubJob ==
  ASSUME DubInv, NEW j \in DubJobs
  PROVE  /\ work[j] \in Places /\ mem[j] \in JobsOf /\ disk[j] \in JobsOf
         /\ j \in DOMAIN work /\ j \in DOMAIN mem /\ j \in DOMAIN disk
         /\ InMemory(j)
BY DEF DubInv, DubTypeOK, JobInv, Places

LEMMA BehindStays ==
  ASSUME DubInv, NEW j \in DubJobs, Ask(j) \/ DubStep(j) \/ FetchDubbed(j), Behind(j)
  PROVE  Behind(j)'
<1> USE DubJob DEF GoTo, SetMem, Places, Busy, Behind
<1>1. CASE Ask(j) \/ Authorize(j)
  BY <1>1 DEF Ask, Authorize, InMemory, MemoryOf
<1>2. CASE Post(j)
  BY <1>2 DEF Post
<1>3. CASE PostWrite(j)
  BY <1>3 DEF PostWrite, InMemory, MemoryOf, Job
<1>4. CASE StartWrite(j)
  BY <1>4 DEF StartWrite, InMemory, MemoryOf, Job
<1>5. CASE Transcribe(j) \/ Translate(j) \/ Speak(j)
  <2>1. Piped(j)
    BY <1>5, StageByStage
  <2> QED BY <2>1 DEF Piped
<1>6. CASE Fit(j)
  BY <1>6 DEF Fit, Stage
<1>7. CASE SettleStatus(j)
  BY <1>7 DEF SettleStatus
<1>8. CASE SettleResult(j)
  BY <1>8 DEF SettleResult
<1>9. CASE Report(j)
  BY <1>9 DEF Report, InMemory, MemoryOf, Job
<1>10. CASE Fail(j)
  BY <1>10 DEF Fail, JobsOf
<1>11. CASE CloseWrite(j)
  BY <1>11 DEF CloseWrite
<1>12. CASE FetchDubbed(j)
  BY <1>12 DEF FetchDubbed
<1> QED BY <1>1, <1>2, <1>3, <1>4, <1>5, <1>6, <1>7, <1>8, <1>9, <1>10, <1>11, <1>12 DEF DubStep

LEMMA BehindKeeps ==
  DubInv /\ (\A j \in DubJobs : Behind(j)) /\ [DubNext]_dubVars
    => \A j \in DubJobs : Behind(j)'
<1> SUFFICES ASSUME DubInv, \A j \in DubJobs : Behind(j), [DubNext]_dubVars, NEW j \in DubJobs
             PROVE  Behind(j)'
  OBVIOUS
<1>1. CASE UNCHANGED dubVars
  BY <1>1 DEF dubVars, Behind
<1>2. CASE Take
  <2>1. PICK i \in DubJobs : /\ work' = [work EXCEPT ![i] = "starting"] /\ mem' = [mem EXCEPT ![i] = Job("running", FALSE)]
                             /\ disk' = disk /\ work[i] = "queued"
    <3>1. queue \in Seq(DubJobs) /\ queue # <<>>
      BY <1>2 DEF Take, DubInv, DubTypeOK
    <3>2. Head(queue) = queue[1] /\ 1 \in 1 .. Len(queue) /\ queue[1] \in DubJobs
      BY <3>1
    <3>3. work[queue[1]] = "queued"
      BY <3>2 DEF DubInv, QueueInv
    <3> QED BY <1>2, <3>2, <3>3 DEF Take, GoTo, SetMem
  <2>2. CASE i = j
    BY <2>1, <2>2, DubJob DEF Behind
  <2>3. CASE i # j
    BY <2>1, <2>3, DubJob DEF Behind
  <2> QED BY <2>2, <2>3
<1>3. CASE RestartServer
  <2>1. /\ mem'[j] = NoJob /\ work'[j] = IF work[j] = "none" THEN "none" ELSE "over"
        /\ disk'[j] \in RestartedDisk(j)
    BY <1>3 DEF RestartServer
  <2> QED BY <2>1 DEF Behind, RestartedDisk, Writing
<1>4. ASSUME NEW i \in DubJobs, Ask(i) \/ DubStep(i) \/ FetchDubbed(i) PROVE Behind(j)'
  <2>1. CASE i = j
    BY <1>4, <2>1, BehindStays
  <2>2. CASE i # j
    <3>1. Alone(i)
      BY <1>4, StepTypes
    <3> QED BY <2>2, <3>1 DEF Alone, Behind
  <2> QED BY <2>1, <2>2
<1> QED BY <1>1, <1>2, <1>3, <1>4 DEF DubNext

(* What a GET of the job answers, as a phase.                              *)
Answers == [j \in DubJobs |-> DubPhase(j)]

LEMMA PhaseIs ==
  ASSUME NEW j \in DubJobs
  PROVE  /\ mem[j] # NoJob =>
              /\ mem[j].status = "error" => DubPhase(j) = "failed"
              /\ mem[j].status \in {"none", "queued", "running", "done"} => DubPhase(j) = mem[j].status
         /\ mem[j] = NoJob =>
              /\ disk[j].status = "error" => DubPhase(j) = "failed"
              /\ disk[j].status = "torn" => DubPhase(j) = "none"
              /\ disk[j].status \in {"none", "queued", "running", "done"} => DubPhase(j) = disk[j].status
BY DEF DubPhase, Visible

(* A step of one job moves that job's answer forward, or not at all.       *)
LEMMA AnswerMoves ==
  ASSUME DubInv, NEW j \in DubJobs, Ask(j) \/ DubStep(j) \/ FetchDubbed(j), Behind(j)
  PROVE  \/ DubPhase(j)' = DubPhase(j)
         \/ DubPhase(j) = "none" /\ DubPhase(j)' = "queued"
         \/ DubPhase(j) = "running" /\ DubPhase(j)' \in {"done", "failed"}
         \/ DubPhase(j) = "done" /\ DubPhase(j)' = "failed"
<1> DEFINE Goal == \/ DubPhase(j)' = DubPhase(j)
                   \/ DubPhase(j) = "none" /\ DubPhase(j)' = "queued"
                   \/ DubPhase(j) = "running" /\ DubPhase(j)' \in {"done", "failed"}
                   \/ DubPhase(j) = "done" /\ DubPhase(j)' = "failed"
<1> USE DubJob DEF GoTo, SetMem
<1>0. ASSUME UNCHANGED mem, UNCHANGED disk \/ (mem[j] # NoJob) PROVE Goal
  BY <1>0 DEF DubPhase, Visible
<1>1. CASE Ask(j) \/ Authorize(j) \/ FetchDubbed(j)
  BY <1>0, <1>1 DEF Ask, Authorize, FetchDubbed
<1>2. CASE Post(j)
  <2>1. mem[j] = NoJob /\ disk[j] = NoJob /\ mem'[j] = Job("queued", FALSE) /\ mem'[j] # NoJob
    BY <1>2 DEF Post, InMemory, MemoryOf, Behind, Job, NoJob
  <2>2. mem'[j].status = "queued" /\ disk[j].status = "none"
    BY <2>1 DEF Job, NoJob
  <2> QED BY <2>1, <2>2 DEF DubPhase, Visible
<1>3. CASE PostWrite(j) \/ StartWrite(j)
  <2>1. mem[j] # NoJob
    BY <1>3 DEF PostWrite, StartWrite, InMemory, MemoryOf, Job, NoJob
  <2> QED BY <1>0, <1>3, <2>1 DEF PostWrite, StartWrite
<1>4. CASE Transcribe(j) \/ Translate(j) \/ Speak(j)
  BY <1>0, <1>4, StageByStage DEF Piped
<1>5. CASE Fit(j) \/ Report(j)
  BY <1>0, <1>5 DEF Fit, Stage, Report
<1>6. CASE SettleStatus(j)
  <2>1. mem[j].status = "running" /\ mem'[j] = Job("done", FALSE)
    BY <1>6 DEF SettleStatus, InMemory, MemoryOf
  <2>2. mem[j] # NoJob /\ mem'[j] # NoJob /\ mem'[j].status = "done"
    BY <2>1 DEF NoJob, Job
  <2> QED BY <2>1, <2>2 DEF DubPhase, Visible
<1>7. CASE SettleResult(j)
  <2>1. mem[j].status = "done" /\ mem'[j] = Job("done", TRUE)
    BY <1>7 DEF SettleResult
  <2>2. mem[j] # NoJob /\ mem'[j] # NoJob /\ mem'[j].status = "done"
    BY <2>1 DEF NoJob, Job
  <2> QED BY <2>1, <2>2 DEF DubPhase, Visible
<1>8. CASE Fail(j)
  <2>1. /\ mem[j] = Job("running", FALSE) \/ mem[j] = Job("done", TRUE)
        /\ mem'[j] = [mem[j] EXCEPT !.status = "error"]
    BY <1>8 DEF Fail, InMemory, MemoryOf
  <2>2. /\ mem[j].status \in {"running", "done"} /\ mem'[j].status = "error"
        /\ mem[j] # NoJob /\ mem'[j] # NoJob
    BY <2>1 DEF NoJob, Job
  <2> QED BY <2>2 DEF DubPhase, Visible
<1>9. CASE CloseWrite(j)
  <2>1. mem' = mem /\ disk'[j] = mem[j] /\ work[j] = "closing"
    BY <1>9 DEF CloseWrite
  <2>2. mem[j] # NoJob
    BY <2>1 DEF Behind, NoJob, Job
  <2> QED BY <1>0, <2>1, <2>2
<1> QED BY <1>1, <1>2, <1>3, <1>4, <1>5, <1>6, <1>7, <1>8, <1>9 DEF DubStep

(* Every answer a restart leaves is one the job may have had before.       *)
LEMMA RestartIsOlder ==
  ASSUME DubInv, \A j \in DubJobs : Behind(j), RestartServer, NEW j \in DubJobs
  PROVE  DubPhase(j)' \in Word!Phases /\ DubPhase(j)' \in Word!Before(DubPhase(j))
<1>1. mem'[j] = NoJob /\ disk'[j] \in {disk[j], Torn}
  BY DEF RestartServer, RestartedDisk
<1>2. mem[j] \in JobsOf /\ disk[j] \in JobsOf /\ work[j] \in Places /\ InMemory(j) /\ Behind(j)
  BY DubJob
<1>3. CASE disk'[j] = Torn
  <2>1. DubPhase(j)' = "none"
    BY <1>1, <1>3 DEF DubPhase, Visible, Torn, Job
  <2>2. DubPhase(j) \in {"none", "queued", "running", "done", "failed"}
    BY <1>2 DEF DubPhase, Visible, JobsOf
  <2> QED BY <2>1, <2>2 DEF Word!Phases, Word!Before
<1>4. CASE disk'[j] = disk[j] /\ mem[j] = NoJob
  <2>1. DubPhase(j)' = DubPhase(j)
    BY <1>1, <1>4 DEF DubPhase, Visible
  <2>2. DubPhase(j) \in {"none", "queued", "running", "done", "failed"}
    BY <1>2 DEF DubPhase, Visible, JobsOf
  <2> QED BY <2>1, <2>2 DEF Word!Phases, Word!Before
<1>5. CASE disk'[j] = disk[j] /\ mem[j] # NoJob
  <2>1. /\ disk[j].status \in {"none", "queued", "running", "done"} => DubPhase(j)' = disk[j].status
        /\ disk[j].status = "error" => DubPhase(j)' = "failed"
    BY <1>1, <1>5 DEF DubPhase, Visible
  <2>2. /\ mem[j].status \in {"none", "queued", "running", "done"} => DubPhase(j) = mem[j].status
        /\ mem[j].status = "error" => DubPhase(j) = "failed"
    BY <1>5, PhaseIs
  <2>3. CASE work[j] \in {"none", "authorizing", "refused", "authorized"}
    BY <1>2, <1>5, <2>3 DEF InMemory, MemoryOf
  <2>4. CASE work[j] = "posting"
    <3>1. disk[j].status = "none" /\ mem[j].status = "queued"
      BY <1>2, <2>4 DEF InMemory, MemoryOf, Behind, Job, NoJob
    <3> QED BY <2>1, <2>2, <3>1 DEF Word!Phases, Word!Before
  <2>5. CASE work[j] \in {"queued", "starting"}
    <3>1. disk[j].status = "queued" /\ mem[j].status \in {"queued", "running"}
      BY <1>2, <2>5 DEF InMemory, MemoryOf, Behind, Job
    <3> QED BY <2>1, <2>2, <3>1 DEF Word!Phases, Word!Before
  <2>6. CASE work[j] \in {"piping", "failing", "settling", "settled", "closing"}
    <3>1. disk[j].status = "running" /\ mem[j].status \in {"running", "done", "error"}
      BY <1>2, <2>6 DEF InMemory, MemoryOf, Behind, Job
    <3> QED BY <2>1, <2>2, <3>1 DEF Word!Phases, Word!Before
  <2>7. CASE work[j] = "over"
    <3>1. disk[j] = mem[j] /\ mem[j].status \in {"none", "queued", "running", "done", "error"}
      BY <1>2, <1>5, <2>7 DEF InMemory, MemoryOf, Behind, JobsOf
    <3> QED BY <2>1, <2>2, <3>1 DEF Word!Phases, Word!Before
  <2> QED BY <1>2, <2>3, <2>4, <2>5, <2>6, <2>7 DEF Places, Busy
<1> QED BY <1>1, <1>3, <1>4, <1>5

LEMMA DubPromised ==
  /\ DubInit => Word!Init
  /\ DubInv /\ (\A j \in DubJobs : Behind(j)) /\ [DubNext]_dubVars
       => [Word!Next]_<<Answers, dubRestarts>>
<1>1. ASSUME DubInit PROVE Word!Init
  <2>1. \A j \in DubJobs : DubPhase(j) = "none"
    BY <1>1 DEF DubInit, DubPhase, Visible, NoJob, Job
  <2> QED BY <1>1, <2>1 DEF Word!Init, DubInit
<1>2. ASSUME DubInv, \A j \in DubJobs : Behind(j), [DubNext]_dubVars
      PROVE  [Word!Next]_<<Answers, dubRestarts>>
  <2>1. CASE UNCHANGED dubVars
    BY <2>1 DEF dubVars, Answers, DubPhase, Visible
  <2>2. CASE RestartServer
    <3>1. Answers' \in [DubJobs -> Word!Phases] /\ \A j \in DubJobs : Answers'[j] \in Word!Before(Answers[j])
      BY <1>2, <2>2, RestartIsOlder DEF Answers
    <3> QED BY <2>2, <3>1 DEF RestartServer, Word!Next, Word!Restart, Answers
  <2>3. ASSUME NEW i \in DubJobs, \A e \in DubJobs \ {i} : mem'[e] = mem[e] /\ disk'[e] = disk[e],
               dubRestarts' = dubRestarts,
               \/ DubPhase(i)' = DubPhase(i)
               \/ DubPhase(i) = "none" /\ DubPhase(i)' = "queued"
               \/ DubPhase(i) = "queued" /\ DubPhase(i)' = "running"
               \/ DubPhase(i) = "running" /\ DubPhase(i)' \in {"done", "failed"}
               \/ DubPhase(i) = "done" /\ DubPhase(i)' = "failed"
        PROVE  [Word!Next]_<<Answers, dubRestarts>>
    <3>1. \A e \in DubJobs \ {i} : DubPhase(e)' = DubPhase(e)
      BY <2>3 DEF DubPhase, Visible
    <3>2. Answers' = [Answers EXCEPT ![i] = DubPhase(i)']
      BY <3>1 DEF Answers
    <3>3. CASE DubPhase(i)' = DubPhase(i)
      <4>1. Answers' = Answers
        BY <3>2, <3>3 DEF Answers
      <4> QED BY <2>3, <4>1
    <3>4. CASE DubPhase(i) = "none" /\ DubPhase(i)' = "queued"
      BY <2>3, <3>2, <3>4 DEF Word!Next, Word!Accept, Word!Become, Answers
    <3>5. CASE DubPhase(i) = "queued" /\ DubPhase(i)' = "running"
      BY <2>3, <3>2, <3>5 DEF Word!Next, Word!Start, Word!Become, Answers
    <3>6. CASE DubPhase(i) = "running" /\ DubPhase(i)' \in {"done", "failed"}
      BY <2>3, <3>2, <3>6 DEF Word!Next, Word!Settle, Word!Become, Answers
    <3>7. CASE DubPhase(i) = "done" /\ DubPhase(i)' = "failed"
      BY <2>3, <3>2, <3>7 DEF Word!Next, Word!Retract, Word!Become, Answers
    <3> QED BY <2>3, <3>3, <3>4, <3>5, <3>6, <3>7
  <2>4. CASE Take
    <3>1. PICK i \in DubJobs : /\ mem' = [mem EXCEPT ![i] = Job("running", FALSE)]
                               /\ disk' = disk /\ dubRestarts' = dubRestarts /\ work[i] = "queued"
      <4>1. queue \in Seq(DubJobs) /\ queue # <<>>
        BY <1>2, <2>4 DEF Take, DubInv, DubTypeOK
      <4>2. Head(queue) = queue[1] /\ 1 \in 1 .. Len(queue) /\ queue[1] \in DubJobs
        BY <4>1
      <4>3. work[queue[1]] = "queued"
        BY <1>2, <4>2 DEF DubInv, QueueInv
      <4> QED BY <2>4, <4>2, <4>3 DEF Take, SetMem
    <3>2. mem[i] = Job("queued", FALSE) /\ mem'[i] = Job("running", FALSE)
      BY <1>2, <3>1, DubJob DEF InMemory, MemoryOf
    <3>3. /\ mem[i].status = "queued" /\ mem'[i].status = "running" /\ mem[i] # NoJob /\ mem'[i] # NoJob
      BY <3>2 DEF Job, NoJob
    <3>4. DubPhase(i) = "queued" /\ DubPhase(i)' = "running"
      BY <3>3 DEF DubPhase, Visible
    <3>5. \A e \in DubJobs \ {i} : mem'[e] = mem[e] /\ disk'[e] = disk[e]
      BY <1>2, <3>1, DubJob
    <3> QED BY <2>3, <3>1, <3>4, <3>5
  <2>5. ASSUME NEW i \in DubJobs, Ask(i) \/ DubStep(i) \/ FetchDubbed(i)
        PROVE  [Word!Next]_<<Answers, dubRestarts>>
    <3>1. Alone(i)
      BY <1>2, <2>5, StepTypes
    <3>2. \/ DubPhase(i)' = DubPhase(i)
          \/ DubPhase(i) = "none" /\ DubPhase(i)' = "queued"
          \/ DubPhase(i) = "running" /\ DubPhase(i)' \in {"done", "failed"}
          \/ DubPhase(i) = "done" /\ DubPhase(i)' = "failed"
      BY <1>2, <2>5, AnswerMoves
    <3> QED BY <2>3, <3>1, <3>2 DEF Alone
  <2> QED BY <1>2, <2>1, <2>2, <2>4, <2>5 DEF DubNext
<1> QED BY <1>1, <1>2

(* What a GET of a dubbing job answers is what JobPromise says of any job  *)
(* service that may go back on done, restarts included: a status file is   *)
(* behind the Job object, so what is read after a restart was answered     *)
(* before, or nothing.                                                     *)
THEOREM DubbingIsPromised == DubSpec => DubbingKeepsPromise
<1> DEFINE Later == \A j \in DubJobs : Behind(j)
<1>1. DubInit => Later
  BY BehindStarts
<1>2. DubInv /\ Later /\ [DubNext]_dubVars => Later'
  BY BehindKeeps
<1>3. DubInit => Word!Init
  BY DubPromised
<1>4. DubInv /\ Later /\ [DubNext]_dubVars => [Word!Next]_<<Answers, dubRestarts>>
  BY DubPromised
<1> HIDE DEF Later
<1> QED
  BY <1>1, <1>2, <1>3, <1>4, DubKeeps, DubStarts, PTL DEF DubSpec, DubbingKeepsPromise, Word!Spec, Answers

-----------------------------------------------------------------------------
(* The voice pipeline, for any containers, runs, requests and crashes.     *)
IntakeSpec == IntakeInit /\ [][IntakeNext]_intakeVars

(* What the view of a container holds by where its request is.             *)
ViewsTrue ==
  \A c \in Webs :
    /\ web[c] # "idle" => created
    /\ web[c] = "rollback_models"    => ~ Has(view[c], "training.json")
    /\ web[c] = "commit_deployed"    => Has(view[c], "deployed.json")
    /\ web[c] = "commit_models_gone" => \A f \in Datasets : ~ Has(view[c], f)

(* A DELETE that nothing crossed is alone until it is answered.            *)
Deletes(pc) == pc \in {"serving_removed", "commit_models_gone"}
DeleteAlone ==
  ~ raced => \A c \in Webs : Deletes(web[c]) =>
               /\ Training = {} /\ ~ serving
               /\ \A d \in Webs \ {c} : web[d] = "idle"

(* After it, nothing is there and nobody is at work who could bring it     *)
(* back.                                                                   *)
GoneStays ==
  revoked => /\ created
             /\ ~ raced => /\ files = Nothing /\ ~ serving /\ Training = {}
                           /\ \A c \in Webs : web[c] = "idle" \/ Deletes(web[c])

(* What TrainingIsOwned says besides the types.                            *)
Excuse == \/ Training # {} \/ crashes > 0 \/ raced
          \/ \E c \in Webs : web[c] \in {"spawn", "rollback_models"}
          \/ \E r \in Runs : train[r] = "died"
Unsettled(v) == /\ Has(v, "training.json") /\ ~ Has(v, "error.json")
                /\ ~ Has(v, "manifest.json") /\ ~ Has(v, "deployed.json")
Owned == Unsettled(files) => Excuse

IntakeInv == IntakeTypeOK /\ Owned /\ ViewsTrue /\ DeleteAlone /\ GoneStays

LEMMA StatusIsTraining == \A v : StatusOf(v) = "training" <=> Unsettled(v)
BY DEF StatusOf, Unsettled

LEMMA OwnedIsOwned == IntakeTypeOK => (TrainingIsOwned <=> Owned)
BY StatusIsTraining DEF TrainingIsOwned, Owned, Excuse

(* The operations on views.                                                *)
LEMMA IntakeViewOps ==
  ASSUME NEW v \in IntakeViews
  PROVE  /\ Nothing \in IntakeViews
         /\ \A fs \in SUBSET Paths :
              /\ Put(v, fs) \in IntakeViews /\ Without(v, fs) \in IntakeViews
              /\ \A f \in Paths : /\ Has(Put(v, fs), f) <=> f \in fs \/ Has(v, f)
                                  /\ Has(Without(v, fs), f) <=> f \notin fs /\ Has(v, f)
         /\ \A w \in IntakeViews : \A fs : Commit(v, w, fs) \in IntakeViews
         /\ \A w, fs : \A f \in Paths : Commit(v, w, fs)[f] = IF f \in fs THEN w[f] ELSE v[f]
BY DEF IntakeViews, Nothing, Put, Without, Commit, Has, NoFile

LEMMA PathsAre ==
  /\ {"consent.json", "metadata.csv", "part", "training.json", "error.json",
      "manifest.json", "deployed.json"} \subseteq Paths
  /\ Datasets \subseteq Paths /\ Models \subseteq Paths
  /\ \A f \in Models : f \notin Datasets
  /\ Paths = Datasets \cup Models
BY DEF Paths, Datasets, Models

LEMMA ReloadType ==
  ASSUME IntakeTypeOK, NEW c \in Webs, NEW fs
  PROVE  Reload(c, fs) \in IntakeViews /\ \A f \in fs \cap Paths : Reload(c, fs)[f] = files[f]
BY DEF IntakeTypeOK, IntakeViews, Reload

(* A request of container c goes on.                                       *)
LEMMA Gone ==
  ASSUME IntakeTypeOK, NEW c \in Webs, NEW pc \in WebPcs, NEW v \in IntakeViews, Go(c, pc, v)
  PROVE  /\ web' \in [Webs -> WebPcs] /\ view' \in [Webs -> IntakeViews]
         /\ web'[c] = pc /\ view'[c] = v
         /\ \A d \in Webs \ {c} : web'[d] = web[d] /\ view'[d] = view[d]
BY DEF IntakeTypeOK, Go

(* Where the steps that follow put the request.                            *)
Goes(c, pc, v) ==
  /\ pc \in WebPcs /\ v \in IntakeViews
  /\ web' \in [Webs -> WebPcs] /\ view' \in [Webs -> IntakeViews]
  /\ web'[c] = pc /\ view'[c] = v
  /\ \A d \in Webs \ {c} : web'[d] = web[d] /\ view'[d] = view[d]

(* What a place asks of the view.                                          *)
PlaceOK(pc, v) ==
  /\ pc = "rollback_models"    => ~ Has(v, "training.json")
  /\ pc = "commit_deployed"    => Has(v, "deployed.json")
  /\ pc = "commit_models_gone" => \A f \in Datasets : ~ Has(v, f)

LEMMA ViewsStay ==
  ASSUME ViewsTrue, NEW c \in Webs, NEW pc, NEW v, Goes(c, pc, v), PlaceOK(pc, v),
         created => created', pc # "idle" => created'
  PROVE  ViewsTrue'
<1> SUFFICES ASSUME NEW d \in Webs
             PROVE  /\ web'[d] # "idle" => created'
                    /\ PlaceOK(web'[d], view'[d])
  BY DEF ViewsTrue, PlaceOK, Has
<1>1. CASE d = c
  BY <1>1 DEF Goes
<1>2. CASE d # c
  <2>1. web'[d] = web[d] /\ view'[d] = view[d]
    BY <1>2 DEF Goes
  <2>2. (web[d] # "idle" => created) /\ PlaceOK(web[d], view[d])
    BY DEF ViewsTrue, PlaceOK
  <2> QED BY <2>1, <2>2
<1> QED BY <1>1, <1>2

(* A request of c that is no DELETE goes on: c was not alone with one, and *)
(* nothing was final.                                                      *)
LEMMA BusyStep ==
  ASSUME IntakeTypeOK, DeleteAlone, GoneStays, NEW c \in Webs, NEW pc, NEW v, Goes(c, pc, v),
         web[c] # "idle", ~ Deletes(web[c]), ~ Deletes(pc),
         created' = created, revoked' = revoked, raced' = raced
  PROVE  DeleteAlone' /\ GoneStays'
<1>1. DeleteAlone'
  <2> SUFFICES ASSUME ~ raced, NEW d \in Webs, Deletes(web'[d]) PROVE FALSE
    BY DEF DeleteAlone
  <2>1. d # c /\ Deletes(web[d])
    BY DEF Goes
  <2> QED BY <2>1 DEF DeleteAlone
<1>2. GoneStays'
  BY DEF GoneStays
<1> QED BY <1>1, <1>2

(* The files of the model stay as they are.                                *)
LEMMA ModelsStay ==
  ASSUME Owned, UNCHANGED <<train, crashes, raced>>, \A f \in Models : files'[f] = files[f],
         \A d \in Webs : web[d] \in {"spawn", "rollback_models"} => web'[d] = web[d]
  PROVE  Owned'
<1>1. Unsettled(files)' <=> Unsettled(files)
  BY DEF Unsettled, Has, Models
<1>2. Excuse => Excuse'
  BY DEF Excuse, Training
<1> QED BY <1>1, <1>2 DEF Owned

TrainPlaces == {"unused", "queued", "training", "over", "died"}

LEMMA OrdinaryStep ==
  ASSUME IntakeInv, NEW c \in Webs, NEW pc \in WebPcs, NEW v \in IntakeViews, Go(c, pc, v),
         web[c] # "idle", ~ Deletes(web[c]), ~ Deletes(pc), PlaceOK(pc, v),
         files' \in IntakeViews, parts' \in [Webs -> BOOLEAN], serving' \in BOOLEAN,
         train' \in [Runs -> TrainPlaces], Owned',
         UNCHANGED <<trainer, created, revoked, raced, requests, crashes>>
  PROVE  IntakeInv'
<1>1. Goes(c, pc, v)
  BY Gone DEF Goes, IntakeInv
<1>2. created
  BY DEF IntakeInv, ViewsTrue
<1>3. ViewsTrue'
  BY <1>1, <1>2, ViewsStay DEF IntakeInv
<1>4. DeleteAlone' /\ GoneStays'
  BY <1>1, BusyStep DEF IntakeInv
<1>5. IntakeTypeOK'
  BY <1>1 DEF Goes, IntakeInv, IntakeTypeOK, TrainPlaces
<1> QED BY <1>3, <1>4, <1>5 DEF IntakeInv

(* The upload, step by step.                                               *)
LEMMA EndsUpload ==
  ASSUME IntakeTypeOK, NEW c \in Webs, NEW v \in IntakeViews, EndUpload(c, v)
  PROVE  \E pc \in {"drop_parts", "idle"}, w \in IntakeViews : Go(c, pc, w)
<1>1. Without(v, {"part"}) \in IntakeViews
  BY PathsAre, IntakeViewOps
<1> QED BY <1>1 DEF EndUpload

LEMMA TypesOf ==
  ASSUME IntakeInv
  PROVE  /\ files \in IntakeViews /\ \A c \in Webs : view[c] \in IntakeViews /\ web[c] \in WebPcs
         /\ parts \in [Webs -> BOOLEAN] /\ serving \in BOOLEAN /\ train \in [Runs -> TrainPlaces]
         /\ Owned /\ \A c \in Webs : PlaceOK(web[c], view[c])
BY DEF IntakeInv, IntakeTypeOK, TrainPlaces, ViewsTrue, PlaceOK

LEMMA UploadStep ==
  ASSUME IntakeInv, NEW c \in Webs,
         PutPart(c) \/ JoinParts(c) \/ Ingest(c) \/ CommitData(c) \/ DropParts(c) \/ RollbackData(c)
  PROVE  IntakeInv'
<1> DEFINE u == view[c]
<1>1. /\ UNCHANGED <<train, trainer, serving, created, revoked, raced, requests, crashes>>
      /\ web[c] \in {"part_body", "join_body", "body", "commit_data", "drop_parts", "rollback_data"}
  BY DEF PutPart, JoinParts, Ingest, CommitData, DropParts, RollbackData, rest
<1>2. u \in IntakeViews /\ files \in IntakeViews /\ parts \in [Webs -> BOOLEAN]
  BY TypesOf
<1>3. \E pc \in {"idle", "body", "commit_data", "drop_parts", "commit_training"}, v \in IntakeViews : Go(c, pc, v)
  <2>1. CASE PutPart(c)
    <3>1. Reload(c, Datasets) \in IntakeViews
      BY ReloadType DEF IntakeInv
    <3>2. Put(Reload(c, Datasets), {"part"}) \in IntakeViews
      BY <3>1, IntakeViewOps, PathsAre
    <3> QED BY <2>1, <3>2 DEF PutPart
  <2>2. CASE JoinParts(c)
    <3>1. Reload(c, Datasets) \in IntakeViews
      BY ReloadType DEF IntakeInv
    <3> QED BY <2>2, <3>1 DEF JoinParts
  <2>3. CASE Ingest(c)
    <3>1. Put(u, {"metadata.csv"}) \in IntakeViews
      BY <1>2, IntakeViewOps, PathsAre
    <3>2. CASE EndUpload(c, u)
      BY <1>2, <3>2, EndsUpload DEF IntakeInv
    <3> QED BY <2>3, <3>1, <3>2 DEF Ingest
  <2>4. CASE CommitData(c)
    <3>1. Put(u, {"training.json"}) \in IntakeViews
      BY <1>2, IntakeViewOps, PathsAre
    <3> QED BY <2>4, <3>1 DEF CommitData
  <2>5. CASE DropParts(c)
    BY <1>2, <2>5 DEF DropParts
  <2>6. CASE RollbackData(c)
    <3>1. EndUpload(c, u)
      BY <2>6 DEF RollbackData
    <3> QED BY <1>2, <3>1, EndsUpload DEF IntakeInv
  <2> QED BY <2>1, <2>2, <2>3, <2>4, <2>5, <2>6
<1>4. parts' \in [Webs -> BOOLEAN]
  BY <1>2 DEF PutPart, JoinParts, Ingest, CommitData, DropParts, RollbackData
<1>5. files' \in IntakeViews /\ \A f \in Models : files'[f] = files[f]
  <2>1. \/ files' = files \/ files' = Put(files, {"part"})
        \/ \E f \in Datasets : files' = Commit(files, u, {f})
    BY DEF PutPart, JoinParts, Ingest, CommitData, DropParts, RollbackData, Datasets
  <2>2. CASE files' = Put(files, {"part"})
    BY <1>2, <2>2, IntakeViewOps, PathsAre DEF Put, Models, IntakeViews
  <2>3. ASSUME NEW f \in Datasets, files' = Commit(files, u, {f})
        PROVE  files' \in IntakeViews /\ \A g \in Models : files'[g] = files[g]
    BY <1>2, <2>3, IntakeViewOps, PathsAre
  <2> QED BY <1>2, <2>1, <2>2, <2>3
<1>6. PICK pc \in {"idle", "body", "commit_data", "drop_parts", "commit_training"}, v \in IntakeViews : Go(c, pc, v)
  BY <1>3
<1>7. Goes(c, pc, v)
  BY <1>6, Gone DEF Goes, IntakeInv, WebPcs
<1>8. Owned'
  BY <1>1, <1>5, <1>7, ModelsStay DEF Goes, IntakeInv
<1>9. pc \in WebPcs /\ PlaceOK(pc, v) /\ ~ Deletes(pc) /\ ~ Deletes(web[c]) /\ web[c] # "idle"
  BY <1>1, <1>6 DEF WebPcs, PlaceOK, Deletes
<1> QED BY <1>1, <1>2, <1>4, <1>5, <1>6, <1>8, <1>9, OrdinaryStep, TypesOf

LEMMA MarkerStep ==
  ASSUME IntakeInv, NEW c \in Webs,
         CommitTraining(c) \/ SpawnFails(c) \/ RollbackModels(c) \/ CommitDeployed(c)
  PROVE  IntakeInv'
<1> DEFINE u == view[c]
<1>1. /\ UNCHANGED <<parts, train, trainer, serving, created, revoked, raced, requests, crashes>>
      /\ web[c] \in {"commit_training", "spawn", "rollback_models", "commit_deployed"}
  BY DEF CommitTraining, SpawnFails, RollbackModels, CommitDeployed, rest
<1>2. /\ u \in IntakeViews /\ files \in IntakeViews /\ PlaceOK(web[c], u)
      /\ \A f \in Paths : Commit(files, u, {f}) \in IntakeViews
      /\ \A f \in {"training.json", "metadata.csv"} : Without(u, {f}) \in IntakeViews
  BY TypesOf, IntakeViewOps, PathsAre
<1>3. ~ Deletes(web[c]) /\ web[c] # "idle" /\ \A pc \in {"spawn", "rollback_models", "rollback_data", "idle"} :
                             pc \in WebPcs /\ ~ Deletes(pc)
  BY <1>1 DEF Deletes, WebPcs
<1>4. CASE CommitTraining(c)
  <2>1. Go(c, "spawn", u) /\ files' = Commit(files, u, {"training.json"})
    BY <1>4 DEF CommitTraining
  <2>2. Goes(c, "spawn", u)
    BY <1>2, <1>3, <2>1, Gone DEF Goes, IntakeInv
  <2>3. Owned'
    BY <2>2 DEF Owned, Excuse, Goes
  <2>4. PlaceOK("spawn", u) /\ files' \in IntakeViews
    BY <1>2, <2>1, PathsAre DEF PlaceOK
  <2> QED BY <1>1, <1>2, <1>3, <2>1, <2>3, <2>4, OrdinaryStep, TypesOf
<1>5. CASE SpawnFails(c)
  <2> DEFINE w == Without(u, {"training.json"})
  <2>1. Go(c, "rollback_models", w) /\ files' = files
    BY <1>5 DEF SpawnFails
  <2>2. Goes(c, "rollback_models", w)
    BY <1>2, <1>3, <2>1, Gone DEF Goes, IntakeInv
  <2>3. Owned'
    BY <2>2 DEF Owned, Excuse, Goes
  <2>4. PlaceOK("rollback_models", w)
    BY <1>2, IntakeViewOps, PathsAre DEF PlaceOK
  <2> QED BY <1>1, <1>2, <1>3, <2>1, <2>3, <2>4, OrdinaryStep, TypesOf
<1>6. CASE RollbackModels(c)
  <2> DEFINE w == Without(u, {"metadata.csv"})
  <2>1. Go(c, "rollback_data", w) /\ files' = Commit(files, u, {"training.json"})
        /\ web[c] = "rollback_models"
    BY <1>6 DEF RollbackModels
  <2>2. ~ Has(files', "training.json")
    <3>1. files'["training.json"] = u["training.json"]
      BY <1>2, <2>1, IntakeViewOps, PathsAre
    <3> QED BY <1>2, <2>1, <3>1 DEF PlaceOK, Has
  <2>3. Owned'
    BY <2>2 DEF Owned, Unsettled
  <2>4. PlaceOK("rollback_data", w) /\ files' \in IntakeViews
    BY <1>2, <2>1, PathsAre DEF PlaceOK
  <2> QED BY <1>1, <1>2, <1>3, <2>1, <2>3, <2>4, OrdinaryStep, TypesOf
<1>7. CASE CommitDeployed(c)
  <2>1. Go(c, "idle", u) /\ files' = Commit(files, u, {"deployed.json"})
        /\ web[c] = "commit_deployed"
    BY <1>7 DEF CommitDeployed
  <2>2. Has(files', "deployed.json")
    <3>1. files'["deployed.json"] = u["deployed.json"]
      BY <1>2, <2>1, IntakeViewOps, PathsAre
    <3> QED BY <1>2, <2>1, <3>1 DEF PlaceOK, Has
  <2>3. Owned'
    BY <2>2 DEF Owned, Unsettled
  <2>4. PlaceOK("idle", u) /\ files' \in IntakeViews
    BY <1>2, <2>1, PathsAre DEF PlaceOK
  <2> QED BY <1>1, <1>2, <1>3, <2>1, <2>3, <2>4, OrdinaryStep, TypesOf
<1> QED BY <1>4, <1>5, <1>6, <1>7

LEMMA SpawnedStep ==
  ASSUME IntakeInv, NEW c \in Webs, SpawnTraining(c)
  PROVE  IntakeInv'
<1>1. /\ web[c] = "spawn" /\ EndUpload(c, view[c])
      /\ UNCHANGED <<files, parts, trainer, serving, created, revoked, raced, requests, crashes>>
  BY DEF SpawnTraining
<1>2. PICK r \in Runs : train' = [train EXCEPT ![r] = "queued"]
  BY DEF SpawnTraining
<1>3. train' \in [Runs -> TrainPlaces] /\ train'[r] = "queued"
  BY <1>2, TypesOf DEF TrainPlaces
<1>4. Owned'
  BY <1>3 DEF Owned, Excuse, Training
<1>5. view[c] \in IntakeViews
  BY TypesOf
<1>6. PICK pc \in {"drop_parts", "idle"}, w \in IntakeViews : Go(c, pc, w)
  BY <1>1, <1>5, EndsUpload DEF IntakeInv
<1>7. pc \in WebPcs /\ PlaceOK(pc, w) /\ ~ Deletes(pc) /\ ~ Deletes(web[c]) /\ web[c] # "idle"
  BY <1>1, <1>6 DEF WebPcs, PlaceOK, Deletes
<1> QED BY <1>1, <1>3, <1>4, <1>6, <1>7, OrdinaryStep, TypesOf

LEMMA ServedStep ==
  ASSUME IntakeInv, NEW c \in Webs, PutServing(c)
  PROVE  IntakeInv'
<1> DEFINE u == view[c]
           d == Put(u, {"deployed.json"})
<1>1. /\ web[c] = "put_serving"
      /\ UNCHANGED <<files, parts, train, trainer, created, revoked, raced, requests, crashes>>
      /\ \/ Go(c, "commit_deployed", d) /\ serving' = TRUE
         \/ Go(c, "idle", u) /\ serving' = serving
  BY DEF PutServing
<1>2. u \in IntakeViews /\ d \in IntakeViews /\ Has(d, "deployed.json") /\ serving \in BOOLEAN
  BY TypesOf, IntakeViewOps, PathsAre
<1>3. ~ Deletes(web[c]) /\ web[c] # "idle" /\ \A pc \in {"commit_deployed", "idle"} : pc \in WebPcs /\ ~ Deletes(pc)
  BY <1>1 DEF Deletes, WebPcs
<1> HIDE DEF d
<1>4. ASSUME NEW pc \in {"commit_deployed", "idle"}, NEW v \in IntakeViews, Go(c, pc, v),
             PlaceOK(pc, v), serving' \in BOOLEAN
      PROVE  IntakeInv'
  <2>1. Goes(c, pc, v)
    BY <1>3, <1>4, Gone DEF Goes, IntakeInv
  <2>2. Owned'
    BY <1>1, <2>1, ModelsStay DEF Goes, IntakeInv
  <2> QED BY <1>1, <1>3, <1>4, <2>2, OrdinaryStep, TypesOf
<1>5. PlaceOK("commit_deployed", d) /\ PlaceOK("idle", u)
  BY <1>2 DEF PlaceOK
<1> QED BY <1>1, <1>2, <1>4, <1>5

-----------------------------------------------------------------------------
(* Requests that come: a container that is idle takes one.                 *)
LEMMA RequestStep ==
  ASSUME IntakeInv, NEW c \in Webs, NEW pc \in WebPcs, NEW v \in IntakeViews, Go(c, pc, v), Request(c),
         ~ Deletes(pc), pc \notin {"rollback_models", "commit_deployed"}, pc # "idle" => created',
         created => created', created' \in BOOLEAN, raced' \in BOOLEAN, raced => raced',
         files' \in IntakeViews, \A f \in Models : files'[f] = files[f],
         UNCHANGED <<parts, train, trainer, serving, revoked, crashes>>,
         pc # "idle" => (Deleting => raced') /\ (revoked /\ ~ raced => raced'),
         revoked /\ ~ raced => files' = files
  PROVE  IntakeInv'
<1>1. Goes(c, pc, v) /\ web[c] = "idle" /\ requests < MaxRequests /\ requests' = requests + 1
  BY Gone DEF Goes, IntakeInv, Request
<1>2. ViewsTrue'
  <2>1. PlaceOK(pc, v)
    BY DEF PlaceOK, Deletes
  <2> QED BY <1>1, <2>1, ViewsStay DEF IntakeInv
<1>3. DeleteAlone'
  <2> SUFFICES ASSUME ~ raced', NEW d \in Webs, Deletes(web'[d])
               PROVE  Training' = {} /\ ~ serving' /\ \A e \in Webs \ {d} : web'[e] = "idle"
    BY DEF DeleteAlone
  <2>1. d # c /\ Deletes(web[d]) /\ ~ raced
    BY <1>1 DEF Goes
  <2>2. Training = {} /\ ~ serving /\ \A e \in Webs \ {d} : web[e] = "idle"
    BY <2>1 DEF IntakeInv, DeleteAlone
  <2>3. pc = "idle"
    BY <2>1 DEF Deleting, Deletes
  <2>4. \A e \in Webs \ {d} : web'[e] = "idle"
    BY <1>1, <2>2, <2>3 DEF Goes
  <2> QED BY <2>2, <2>4 DEF Training
<1>4. GoneStays'
  <2> SUFFICES ASSUME revoked PROVE GoneStays'
    BY DEF GoneStays
  <2>1. created /\ created'
    BY DEF IntakeInv, GoneStays
  <2>2. ASSUME ~ raced'
        PROVE  files' = Nothing /\ ~ serving' /\ Training' = {}
               /\ \A d \in Webs : web'[d] = "idle" \/ Deletes(web'[d])
    <3>1. ~ raced /\ pc = "idle"
      BY <2>2
    <3>2. /\ files = Nothing /\ ~ serving /\ Training = {}
          /\ \A d \in Webs : web[d] = "idle" \/ Deletes(web[d])
      BY <3>1 DEF IntakeInv, GoneStays
    <3> QED BY <1>1, <3>1, <3>2 DEF Goes, Training
  <2> QED BY <2>1, <2>2 DEF GoneStays
<1>5. Owned'
  <2>1. Unsettled(files') <=> Unsettled(files)
    BY DEF Unsettled, Has, Models
  <2>2. \A d \in Webs : web[d] \in {"spawn", "rollback_models"} => web'[d] = web[d]
    BY <1>1 DEF Goes
  <2>3. Excuse => Excuse'
    BY <2>2 DEF Excuse, Training
  <2> QED BY <2>1, <2>3 DEF IntakeInv, Owned
<1>6. IntakeTypeOK'
  <2>1. requests' \in 0 .. MaxRequests
    BY <1>1, IntakeAssumption DEF IntakeInv, IntakeTypeOK
  <2> QED BY <1>1, <2>1 DEF Goes, IntakeInv, IntakeTypeOK
<1> QED BY <1>2, <1>3, <1>4, <1>5, <1>6 DEF IntakeInv

LEMMA RequestsKeep ==
  ASSUME IntakeInv, NEW c \in Webs, CreateVoice(c) \/ StartUpload(c) \/ GetVoice(c) \/ Deploy(c)
  PROVE  IntakeInv'
<1> DEFINE u == view[c]
<1>1. /\ Request(c) /\ UNCHANGED <<parts, train, trainer, serving, revoked, crashes>>
      /\ {"idle", "body", "part_body", "join_body", "put_serving"} \subseteq WebPcs
      /\ \A pc \in {"idle", "body", "part_body", "join_body", "put_serving"} : ~ Deletes(pc)
      /\ u \in IntakeViews /\ files \in IntakeViews /\ IntakeTypeOK
      /\ {created, revoked, raced} \subseteq BOOLEAN
  BY TypesOf DEF CreateVoice, StartUpload, GetVoice, Deploy, WebPcs, Deletes, IntakeInv, IntakeTypeOK
<1>2. CASE CreateVoice(c)
  <2>1. Put(u, {"consent.json"}) \in IntakeViews /\ Put(files, {"consent.json"}) \in IntakeViews
    BY <1>1, IntakeViewOps, PathsAre
  <2>2. \A f \in Models : Put(files, {"consent.json"})[f] = files[f]
    BY <1>1, PathsAre DEF Put, Models
  <2>3. ~ created /\ created' /\ raced' = raced /\ Go(c, "idle", Put(u, {"consent.json"}))
        /\ files' = Put(files, {"consent.json"})
    BY <1>2 DEF CreateVoice
  <2>4. ~ revoked
    BY <2>3 DEF IntakeInv, GoneStays
  <2> QED BY <1>1, <1>2, <2>1, <2>2, <2>3, <2>4, RequestStep DEF CreateVoice
<1>3. CASE StartUpload(c)
  <2>1. PICK pc \in {"body", "part_body", "join_body"} : Go(c, pc, u)
    BY <1>3 DEF StartUpload
  <2>2. /\ raced' = (raced \/ revoked \/ Deleting) /\ files' = files /\ created' = created /\ created
    BY <1>3 DEF StartUpload
  <2>3. raced' \in BOOLEAN /\ (raced => raced') /\ (Deleting => raced') /\ (revoked => raced')
    BY <2>2
  <2> QED BY <1>1, <2>1, <2>2, <2>3, RequestStep
<1>4. CASE GetVoice(c)
  <2>1. PICK fs \in {Models, Paths} : Go(c, "idle", Reload(c, fs))
    BY <1>4 DEF GetVoice
  <2>2. Reload(c, fs) \in IntakeViews
    BY <1>1, ReloadType
  <2>3. raced' = raced /\ files' = files /\ created' = created /\ created
    BY <1>4 DEF GetVoice
  <2> QED BY <1>1, <2>1, <2>2, <2>3, RequestStep
<1>5. CASE Deploy(c)
  <2> DEFINE v == Reload(c, Models)
  <2>1. Go(c, "put_serving", v) /\ Has(v, "manifest.json")
        /\ raced' = (raced \/ Deleting) /\ files' = files /\ created' = created /\ created
    BY <1>5 DEF Deploy
  <2>2. v \in IntakeViews /\ v["manifest.json"] = files["manifest.json"]
    BY <1>1, PathsAre, ReloadType DEF Models
  <2>3. revoked => raced
    BY <2>1, <2>2, PathsAre DEF Has, IntakeInv, GoneStays, Nothing
  <2>4. raced' \in BOOLEAN /\ (raced => raced') /\ (Deleting => raced')
    BY <2>1
  <2> HIDE DEF v
  <2> QED BY <1>1, <2>1, <2>2, <2>3, <2>4, RequestStep
<1> QED BY <1>2, <1>3, <1>4, <1>5

(* The DELETE.                                                             *)
LEMMA DeleteStarts ==
  ASSUME IntakeInv, NEW c \in Webs, DeleteVoice(c)
  PROVE  IntakeInv'
<1> DEFINE u == view[c]
<1>1. /\ Request(c) /\ created /\ u \in IntakeViews /\ IntakeTypeOK /\ files \in IntakeViews
      /\ UNCHANGED <<files, parts, train, trainer, created, revoked, crashes>>
      /\ created \in BOOLEAN /\ raced \in BOOLEAN
  BY TypesOf DEF DeleteVoice, IntakeInv, IntakeTypeOK
<1>2. CASE Go(c, "idle", u) /\ UNCHANGED <<serving, raced>>
  <2>1. "idle" \in WebPcs /\ ~ Deletes("idle")
    BY DEF WebPcs, Deletes
  <2> QED BY <1>1, <1>2, <2>1, RequestStep
<1>3. CASE Go(c, "serving_removed", u) /\ serving' = FALSE /\ raced' = (raced \/ Overtaken(c))
  <2>1. Goes(c, "serving_removed", u) /\ web[c] = "idle" /\ requests < MaxRequests /\ requests' = requests + 1
    BY <1>1, <1>3, Gone DEF Goes, Request, WebPcs
  <2>2. ViewsTrue'
    BY <1>1, <2>1, ViewsStay DEF IntakeInv, PlaceOK
  <2>3. ~ raced' => ~ raced /\ Training = {} /\ \A d \in Webs \ {c} : web[d] = "idle"
    BY <1>3 DEF Overtaken
  <2>4. DeleteAlone'
    <3> SUFFICES ASSUME ~ raced', NEW d \in Webs, Deletes(web'[d])
                 PROVE  Training' = {} /\ ~ serving' /\ \A e \in Webs \ {d} : web'[e] = "idle"
      BY DEF DeleteAlone
    <3>1. d = c
      BY <2>1, <2>3 DEF Goes, Deletes
    <3> QED BY <1>1, <1>3, <2>1, <2>3, <3>1 DEF Goes, Training
  <2>5. GoneStays'
    <3> SUFFICES ASSUME revoked, ~ raced'
                 PROVE  /\ files' = Nothing /\ ~ serving' /\ Training' = {}
                        /\ \A d \in Webs : web'[d] = "idle" \/ Deletes(web'[d])
      BY <1>1 DEF GoneStays
    <3>1. files = Nothing
      BY <2>3 DEF IntakeInv, GoneStays
    <3>2. Deletes("serving_removed")
      BY DEF Deletes
    <3> QED BY <1>1, <1>3, <2>1, <2>3, <3>1, <3>2 DEF Goes, Training
  <2>6. Owned'
    <3>1. Unsettled(files') <=> Unsettled(files)
      BY <1>1
    <3>2. \A d \in Webs : web[d] \in {"spawn", "rollback_models"} => web'[d] = web[d]
      BY <2>1 DEF Goes
    <3>3. Excuse => Excuse'
      BY <1>1, <1>3, <3>2 DEF Excuse, Training
    <3> QED BY <3>1, <3>3 DEF IntakeInv, Owned
  <2>7. IntakeTypeOK'
    <3>1. requests' \in 0 .. MaxRequests
      BY <1>1, <2>1, IntakeAssumption DEF IntakeTypeOK
    <3>2. raced' \in BOOLEAN /\ serving' \in BOOLEAN
      BY <1>3
    <3> QED BY <1>1, <2>1, <3>1, <3>2 DEF Goes, IntakeTypeOK
  <2> QED BY <2>2, <2>4, <2>5, <2>6, <2>7 DEF IntakeInv
<1> QED BY <1>2, <1>3 DEF DeleteVoice

(* Its two commits: the files of its view go, and the other containers     *)
(* were idle, or it was crossed.                                           *)
LEMMA DeleteGoesOn ==
  ASSUME IntakeInv, NEW c \in Webs, NEW pc \in {"commit_models_gone", "idle"}, NEW v \in IntakeViews,
         Deletes(web[c]), Go(c, pc, v), PlaceOK(pc, v), NEW fs \in SUBSET Paths,
         files' = Commit(files, Nothing, fs), raced' = (raced \/ Overtaken(c)),
         UNCHANGED <<parts, train, trainer, serving, created, requests, crashes>>,
         revoked' \in BOOLEAN, revoked => revoked',
         ~ raced' /\ revoked' /\ ~ revoked => files' = Nothing,
         ~ raced' /\ Unsettled(files') => Unsettled(files)
  PROVE  IntakeInv'
<1>1. Goes(c, pc, v) /\ Deletes(web[c])
  BY Gone DEF Goes, IntakeInv, WebPcs
<1>2. created /\ IntakeTypeOK /\ files \in IntakeViews
  BY TypesOf DEF IntakeInv, ViewsTrue, Deletes
<1>3. ViewsTrue'
  BY <1>1, <1>2, ViewsStay DEF IntakeInv
<1>4. ~ raced' => /\ ~ raced /\ Training = {} /\ ~ serving
                  /\ \A d \in Webs \ {c} : web[d] = "idle"
  BY <1>1 DEF Overtaken, IntakeInv, DeleteAlone
<1>5. DeleteAlone'
  BY <1>1, <1>4 DEF DeleteAlone, Goes, Training, Deletes
<1>6. files' \in IntakeViews
  BY <1>2, IntakeViewOps
<1>7. GoneStays'
  <2> SUFFICES ASSUME revoked', ~ raced'
               PROVE  files' = Nothing /\ \A d \in Webs : web'[d] = "idle" \/ Deletes(web'[d])
    BY <1>2, <1>4 DEF GoneStays, Training
  <2>1. \A d \in Webs : web'[d] = "idle" \/ Deletes(web'[d])
    BY <1>1, <1>4 DEF Goes, Deletes
  <2>2. CASE revoked
    <3>1. files = Nothing
      BY <1>4, <2>2 DEF IntakeInv, GoneStays
    <3> QED BY <2>1, <3>1 DEF Commit, Nothing
  <2> QED BY <2>1, <2>2
<1>8. Owned'
  <2> SUFFICES ASSUME Unsettled(files'), ~ raced' PROVE Excuse'
    BY DEF Owned, Excuse
  <2>1. Unsettled(files)
    BY DEF Unsettled
  <2>2. \A d \in Webs : web[d] \in {"spawn", "rollback_models"} => web'[d] = web[d]
    BY <1>1 DEF Goes, Deletes
  <2>3. Excuse => Excuse'
    BY <2>2 DEF Excuse, Training
  <2> QED BY <2>1, <2>3 DEF IntakeInv, Owned
<1>9. IntakeTypeOK'
  <2>1. raced' \in BOOLEAN
    BY <1>2 DEF IntakeTypeOK
  <2> QED BY <1>1, <1>2, <1>6, <2>1 DEF Goes, IntakeTypeOK
<1> QED BY <1>3, <1>5, <1>7, <1>8, <1>9 DEF IntakeInv

LEMMA DeleteCommits ==
  ASSUME IntakeInv, NEW c \in Webs, Rmtree(c) \/ CommitModelsGone(c)
  PROVE  IntakeInv'
<1> DEFINE u == view[c]
<1>1. /\ u \in IntakeViews /\ files \in IntakeViews /\ PlaceOK(web[c], u) /\ revoked \in BOOLEAN
      /\ Seen(u, Datasets) \in SUBSET Datasets /\ Seen(u, Models) \in SUBSET Models
      /\ Deletes(web[c])
  BY TypesOf DEF Seen, IntakeInv, IntakeTypeOK, Rmtree, CommitModelsGone, Deletes
<1>2. CASE Rmtree(c)
  <2>1. /\ Go(c, "commit_models_gone", Without(u, Datasets))
        /\ files' = Commit(files, Nothing, Seen(u, Datasets)) /\ raced' = (raced \/ Overtaken(c))
        /\ UNCHANGED <<parts, train, trainer, serving, created, revoked, requests, crashes>>
    BY <1>2 DEF Rmtree
  <2>2. Without(u, Datasets) \in IntakeViews /\ PlaceOK("commit_models_gone", Without(u, Datasets))
    BY <1>1, IntakeViewOps, PathsAre DEF PlaceOK
  <2>3. Unsettled(files') => Unsettled(files)
    <3>1. \A f \in Models : files'[f] = files[f]
      BY <1>1, <2>1, IntakeViewOps, PathsAre
    <3> QED BY <3>1 DEF Unsettled, Has, Models
  <2>4. Seen(u, Datasets) \in SUBSET Paths
    BY <1>1, PathsAre
  <2> QED BY <1>1, <2>1, <2>2, <2>3, <2>4, DeleteGoesOn
<1>3. CASE CommitModelsGone(c)
  <2>1. /\ Go(c, "idle", Without(u, Models)) /\ web[c] = "commit_models_gone"
        /\ files' = Commit(files, Nothing, Seen(u, Models)) /\ raced' = (raced \/ Overtaken(c))
        /\ revoked' = TRUE
        /\ UNCHANGED <<parts, train, trainer, serving, created, requests, crashes>>
    BY <1>3 DEF CommitModelsGone
  <2>2. Without(u, Models) \in IntakeViews /\ PlaceOK("idle", Without(u, Models))
    BY <1>1, IntakeViewOps, PathsAre DEF PlaceOK
  <2>3. ~ raced' => files' = Nothing
    <3> SUFFICES ASSUME ~ raced' PROVE files' = Nothing
      OBVIOUS
    <3>1. u = files
      BY <2>1 DEF Overtaken
    <3>2. \A f \in Datasets : files[f] = NoFile
      BY <1>1, <2>1, <3>1 DEF PlaceOK, Has
    <3>3. \A f \in Paths : files'[f] = NoFile
      <4>1. \A f \in Paths : files'[f] = IF f \in Seen(u, Models) THEN Nothing[f] ELSE files[f]
        BY <1>1, <2>1, IntakeViewOps
      <4>2. \A f \in Paths : Nothing[f] = NoFile
        BY DEF Nothing
      <4>3. \A f \in Models : f \in Seen(u, Models) \/ files[f] = NoFile
        BY <3>1 DEF Seen
      <4> QED BY <3>2, <4>1, <4>2, <4>3, PathsAre
    <3>4. files' = [f \in Paths |-> files'[f]]
      BY <1>1, <2>1 DEF Commit, IntakeViews
    <3> QED BY <3>3, <3>4 DEF Nothing
  <2>4. ~ raced' => ~ Unsettled(files')
    BY <2>3, PathsAre DEF Unsettled, Has, Nothing
  <2>5. Seen(u, Models) \in SUBSET Paths
    BY <1>1, PathsAre
  <2> QED BY <1>1, <2>1, <2>2, <2>3, <2>4, <2>5, DeleteGoesOn
<1> QED BY <1>2, <1>3

-----------------------------------------------------------------------------
(* The training runs.  While there is one, no DELETE is alone or final.    *)
LEMMA RunStep ==
  ASSUME IntakeInv, Training # {}, train' \in [Runs -> TrainPlaces], files' \in IntakeViews,
         trainer' \in SUBSET IntakeViews, Cardinality(trainer') <= 1, crashes' \in 0 .. MaxCrashes,
         UNCHANGED <<web, view, parts, serving, created, revoked, raced, requests>>, Owned'
  PROVE  IntakeInv'
<1>1. ViewsTrue'
  BY DEF IntakeInv, ViewsTrue, Has
<1>2. ~ raced => \A c \in Webs : ~ Deletes(web[c])
  BY DEF IntakeInv, DeleteAlone
<1>3. DeleteAlone'
  BY <1>2 DEF DeleteAlone
<1>4. revoked => created /\ raced
  BY DEF IntakeInv, GoneStays
<1>5. GoneStays'
  BY <1>4 DEF GoneStays
<1>6. IntakeTypeOK'
  BY DEF IntakeInv, IntakeTypeOK, TrainPlaces
<1> QED BY <1>1, <1>3, <1>5, <1>6 DEF IntakeInv

LEMMA RunsKeep ==
  ASSUME IntakeInv, NEW r \in Runs, BeginTraining(r) \/ EndTraining(r) \/ CrashRun(r)
  PROVE  IntakeInv'
<1>1. /\ train \in [Runs -> TrainPlaces] /\ files \in IntakeViews /\ Training # {}
      /\ trainer \in SUBSET IntakeViews /\ Cardinality(trainer) <= 1 /\ crashes \in 0 .. MaxCrashes
      /\ MaxCrashes \in Nat
      /\ \A f \in Paths : Put(files, {f}) \in IntakeViews
      /\ \A f \in {"error.json", "manifest.json"} : ~ Unsettled(Put(files, {f}))
      /\ Cardinality({}) = 0 /\ {} \in SUBSET IntakeViews
      /\ \A v \in IntakeViews : {v} \in SUBSET IntakeViews /\ Cardinality({v}) = 1
  <2>1. Training # {}
    BY DEF Training, BeginTraining, EndTraining, CrashRun
  <2>2. \A f \in {"error.json", "manifest.json"} : ~ Unsettled(Put(files, {f}))
    BY TypesOf, IntakeViewOps, PathsAre DEF Unsettled
  <2>3. Cardinality({}) = 0 /\ \A v : Cardinality({v}) = 1
    BY FS_EmptySet, FS_Singleton
  <2>4. \A f \in Paths : Put(files, {f}) \in IntakeViews
    BY TypesOf, IntakeViewOps
  <2> QED BY <2>1, <2>2, <2>3, <2>4, TypesOf, IntakeAssumption DEF IntakeInv, IntakeTypeOK
<1>2. CASE BeginTraining(r)
  <2>1. PICK v \in TrainViews :
          /\ trainer' = {v}
          /\ \/ /\ files' = Put(files, {"error.json"}) /\ train' = [train EXCEPT ![r] = "over"]
             \/ /\ files' = files
                /\ train' = [train EXCEPT ![r] = IF Has(v, "metadata.csv") THEN "training" ELSE "died"]
    BY <1>2 DEF BeginTraining
  <2>2. v \in IntakeViews
    BY <1>1 DEF TrainViews
  <2>3. UNCHANGED <<web, view, parts, serving, created, revoked, raced, requests, crashes>>
    BY <1>2 DEF BeginTraining
  <2>4. trainer' \in SUBSET IntakeViews /\ Cardinality(trainer') <= 1
    BY <1>1, <2>1, <2>2
  <2>5. CASE files' = Put(files, {"error.json"}) /\ train' = [train EXCEPT ![r] = "over"]
    <3>1. Owned'
      BY <1>1, <2>5 DEF Owned
    <3>2. train' \in [Runs -> TrainPlaces] /\ files' \in IntakeViews
      BY <1>1, <2>5, PathsAre DEF TrainPlaces
    <3> QED BY <1>1, <2>3, <2>4, <3>1, <3>2, RunStep
  <2>6. ASSUME NEW place \in {"training", "died"}, files' = files, train' = [train EXCEPT ![r] = place]
        PROVE  IntakeInv'
    <3>1. train' \in [Runs -> TrainPlaces] /\ train'[r] = place
      BY <1>1, <2>6 DEF TrainPlaces
    <3>2. Owned'
      BY <3>1 DEF Owned, Excuse, Training
    <3> QED BY <1>1, <2>3, <2>4, <2>6, <3>1, <3>2, RunStep
  <2> QED BY <2>1, <2>5, <2>6
<1>3. CASE EndTraining(r)
  <2>1. /\ \/ /\ train' = [train EXCEPT ![r] = "over"]
              /\ \E f \in {"error.json", "manifest.json"} : files' = Put(files, {f})
           \/ train' = [train EXCEPT ![r] = "died"] /\ files' = files
        /\ UNCHANGED <<web, view, parts, trainer, serving, created, revoked, raced, requests, crashes>>
    BY <1>3 DEF EndTraining
  <2>2. Owned'
    <3>1. CASE \E f \in {"error.json", "manifest.json"} : files' = Put(files, {f})
      BY <1>1, <3>1 DEF Owned
    <3>2. CASE train' = [train EXCEPT ![r] = "died"]
      <4>1. train'[r] = "died"
        BY <1>1, <3>2
      <4> QED BY <4>1 DEF Owned, Excuse
    <3> QED BY <2>1, <3>1, <3>2
  <2>3. train' \in [Runs -> TrainPlaces] /\ files' \in IntakeViews
    BY <1>1, <2>1, PathsAre DEF TrainPlaces
  <2> QED BY <1>1, <2>1, <2>2, <2>3, RunStep
<1>4. CASE CrashRun(r)
  <2>1. /\ train' = [train EXCEPT ![r] = "died"] /\ trainer' = {}
        /\ crashes' = crashes + 1 /\ crashes < MaxCrashes
        /\ UNCHANGED <<files, web, view, parts, serving, created, revoked, raced, requests>>
    BY <1>4 DEF CrashRun
  <2>2. train' \in [Runs -> TrainPlaces] /\ train'[r] = "died"
    BY <1>1, <2>1 DEF TrainPlaces
  <2>3. Owned'
    BY <2>2 DEF Owned, Excuse
  <2>4. crashes' \in 0 .. MaxCrashes /\ Cardinality(trainer') <= 1 /\ trainer' \in SUBSET IntakeViews
    BY <1>1, <2>1
  <2> QED BY <1>1, <2>1, <2>2, <2>3, <2>4, RunStep
<1> QED BY <1>2, <1>3, <1>4

(* Containers that are killed, and those that are scaled down.             *)
LEMMA WebDies ==
  ASSUME IntakeInv, NEW c \in Webs, Go(c, "idle", files), parts' \in [Webs -> BOOLEAN],
         UNCHANGED <<files, train, serving, created, revoked, raced, requests>>,
         trainer' = trainer, crashes' \in 0 .. MaxCrashes,
         (web[c] = "idle" /\ crashes' = crashes) \/ crashes' > 0
  PROVE  IntakeInv'
<1>1. files \in IntakeViews /\ IntakeTypeOK
  BY TypesOf DEF IntakeInv
<1>2. Goes(c, "idle", files)
  BY <1>1, Gone DEF Goes, WebPcs
<1>3. ViewsTrue'
  BY <1>2, ViewsStay DEF IntakeInv, PlaceOK
<1>4. DeleteAlone'
  <2> SUFFICES ASSUME ~ raced, NEW d \in Webs, Deletes(web'[d])
               PROVE  Training' = {} /\ ~ serving' /\ \A e \in Webs \ {d} : web'[e] = "idle"
    BY DEF DeleteAlone
  <2>1. d # c /\ Deletes(web[d])
    BY <1>2 DEF Goes, Deletes
  <2>2. Training = {} /\ ~ serving /\ \A e \in Webs \ {d} : web[e] = "idle"
    BY <2>1 DEF IntakeInv, DeleteAlone
  <2> QED BY <1>2, <2>2 DEF Goes, Training
<1>5. GoneStays'
  BY <1>2 DEF IntakeInv, GoneStays, Goes, Training
<1>6. Owned'
  <2>1. CASE crashes' > 0
    BY <2>1 DEF Owned, Excuse
  <2>2. CASE web[c] = "idle" /\ crashes' = crashes
    <3>1. \A d \in Webs : web[d] \in {"spawn", "rollback_models"} => web'[d] = web[d]
      BY <1>2, <2>2 DEF Goes
    <3> QED BY <2>2, <3>1, ModelsStay DEF IntakeInv
  <2> QED BY <2>1, <2>2
<1>7. IntakeTypeOK'
  BY <1>1, <1>2 DEF Goes, IntakeTypeOK
<1> QED BY <1>3, <1>4, <1>5, <1>6, <1>7 DEF IntakeInv

LEMMA IntakeStarts == IntakeInit => IntakeInv
<1> SUFFICES ASSUME IntakeInit PROVE IntakeInv
  OBVIOUS
<1>1. Nothing \in IntakeViews /\ \A f \in Paths : ~ Has(Nothing, f)
  BY DEF Nothing, IntakeViews, Has
<1>2. IntakeTypeOK
  <2>1. Cardinality(trainer) <= 1
    BY FS_EmptySet DEF IntakeInit
  <2>2. 0 \in 0 .. MaxRequests /\ 0 \in 0 .. MaxCrashes
    BY IntakeAssumption
  <2>3. web \in [Webs -> WebPcs] /\ view \in [Webs -> IntakeViews] /\ parts \in [Webs -> BOOLEAN]
    BY <1>1 DEF IntakeInit, WebPcs
  <2>4. train \in [Runs -> {"unused", "queued", "training", "over", "died"}] /\ trainer \in SUBSET IntakeViews
    BY DEF IntakeInit
  <2>5. {serving, created, revoked, raced} \subseteq BOOLEAN /\ files = Nothing /\ requests = 0 /\ crashes = 0
    BY DEF IntakeInit
  <2> QED BY <1>1, <2>1, <2>2, <2>3, <2>4, <2>5 DEF IntakeTypeOK
<1>3. Owned
  BY <1>1, PathsAre DEF IntakeInit, Owned, Unsettled
<1>4. ViewsTrue /\ DeleteAlone /\ GoneStays
  BY DEF IntakeInit, ViewsTrue, DeleteAlone, GoneStays, Deletes
<1> QED BY <1>2, <1>3, <1>4 DEF IntakeInv

LEMMA IntakeKeeps == IntakeInv /\ [IntakeNext]_intakeVars => IntakeInv'
<1> SUFFICES ASSUME IntakeInv, [IntakeNext]_intakeVars PROVE IntakeInv'
  OBVIOUS
<1>1. ASSUME NEW c \in Webs, WebStep(c) PROVE IntakeInv'
  BY <1>1, UploadStep, MarkerStep, SpawnedStep, ServedStep, DeleteCommits DEF WebStep
<1>2. ASSUME NEW c \in Webs, CrashWeb(c) PROVE IntakeInv'
  <2>1. crashes' \in 0 .. MaxCrashes /\ crashes' > 0
    BY <1>2, IntakeAssumption DEF CrashWeb, IntakeInv, IntakeTypeOK
  <2>2. parts' \in [Webs -> BOOLEAN]
    BY <1>2, TypesOf DEF CrashWeb
  <2> QED BY <1>2, <2>1, <2>2, WebDies DEF CrashWeb
<1>3. CASE ScaleDownIntake
  <2>1. UNCHANGED <<files, parts, train, serving, created, revoked, raced, requests, crashes>>
        /\ crashes \in 0 .. MaxCrashes /\ parts \in [Webs -> BOOLEAN]
    BY <1>3 DEF ScaleDownIntake, IntakeInv, IntakeTypeOK
  <2>2. ASSUME NEW c \in Webs, web[c] = "idle", Go(c, "idle", files), trainer' = trainer PROVE IntakeInv'
    BY <2>1, <2>2, WebDies
  <2>3. CASE trainer' = {} /\ UNCHANGED <<web, view>>
    <3>1. Cardinality(trainer') <= 1 /\ trainer' \in SUBSET IntakeViews
      BY <2>3, FS_EmptySet
    <3>2. IntakeTypeOK'
      BY <2>1, <2>3, <3>1 DEF IntakeInv, IntakeTypeOK
    <3>3. ViewsTrue' /\ DeleteAlone' /\ GoneStays' /\ Owned'
      BY <2>1, <2>3 DEF IntakeInv, ViewsTrue, DeleteAlone, GoneStays, Owned, Excuse, Training
    <3> QED BY <3>2, <3>3 DEF IntakeInv
  <2> QED BY <1>3, <2>2, <2>3 DEF ScaleDownIntake
<1>4. CASE UNCHANGED intakeVars
  BY <1>4 DEF intakeVars, IntakeInv, IntakeTypeOK, ViewsTrue, DeleteAlone, GoneStays, Owned, Excuse, Training
<1> QED
  BY <1>1, <1>2, <1>3, <1>4, RequestsKeep, DeleteStarts, RunsKeep DEF IntakeNext

(* Once a DELETE that nothing crossed was answered, nothing of the voice   *)
(* is left and nothing comes back: while it is alone nobody else is at     *)
(* work (DeleteAlone), and afterwards nobody can be (GoneStays).           *)
THEOREM DeletedForGood == IntakeSpec => []RevokedIsGone
<1>1. IntakeInv => RevokedIsGone
  BY DEF IntakeInv, GoneStays, RevokedIsGone
<1> QED BY <1>1, IntakeStarts, IntakeKeeps, PTL DEF IntakeSpec

(* Whatever uploads, roll-backs, runs and deletions cross: a voice that    *)
(* reads "training" has a run or is about to, or somebody died: a run of   *)
(* an exception, a run or a request with its container.                    *)
THEOREM TrainingHasARun == IntakeSpec => []TrainingIsOwned
<1>1. IntakeInv => TrainingIsOwned
  BY OwnedIsOwned DEF IntakeInv
<1> QED BY <1>1, IntakeStarts, IntakeKeeps, PTL DEF IntakeSpec

-----------------------------------------------------------------------------
(* The reference voices of Fish Speech.                                    *)
Pairs == [audio : 0 .. MaxAdds, text : 0 .. MaxAdds]
FishStates == [cache : [References -> Pairs], view : [References -> 0 .. MaxAdds], dirty : SUBSET References]

FishInv ==
  /\ fish \in [FishGpus -> FishStates] /\ refVolume \in [References -> 0 .. MaxAdds]
  /\ spoken \in Pairs /\ adds \in 0 .. MaxAdds
  /\ SpokenAsGiven

LEMMA FishTypes ==
  ASSUME FishInv, NEW c \in FishGpus
  PROVE  /\ fish[c] \in FishStates /\ fish[c].cache \in [References -> Pairs]
         /\ fish[c].view \in [References -> 0 .. MaxAdds] /\ fish[c].dirty \in SUBSET References
         /\ \A r \in References : /\ fish[c].cache[r] \in Pairs /\ fish[c].view[r] \in 0 .. MaxAdds
                                  /\ fish[c].cache[r] # NoPair =>
                                       /\ fish[c].cache[r].audio = fish[c].view[r]
                                       /\ fish[c].cache[r].text \in {0, fish[c].view[r]}
BY DEF FishInv, FishStates, SpokenAsGiven

(* A container becomes s, and what it has in memory is as it was given.    *)
CacheTrue(s) == \A r \in References : s.cache[r] # NoPair => /\ s.cache[r].audio = s.view[r]
                                                             /\ s.cache[r].text \in {0, s.view[r]}

LEMMA FishBecomes ==
  ASSUME FishInv, NEW c \in FishGpus, NEW s \in FishStates, fish' = [fish EXCEPT ![c] = s], CacheTrue(s),
         refVolume' \in [References -> 0 .. MaxAdds], adds' \in 0 .. MaxAdds,
         spoken' \in Pairs, spoken'.text \in {0, spoken'.audio}
  PROVE  FishInv'
<1>1. fish' \in [FishGpus -> FishStates]
  BY DEF FishInv
<1>2. ASSUME NEW d \in FishGpus PROVE CacheTrue(fish'[d])
  <2>1. CASE d = c
    BY <2>1 DEF FishInv
  <2>2. CASE d # c
    BY <2>2 DEF FishInv, SpokenAsGiven, CacheTrue
  <2> QED BY <2>1, <2>2
<1>3. SpokenAsGiven'
  BY <1>2 DEF SpokenAsGiven, CacheTrue
<1> QED BY <1>1, <1>3 DEF FishInv

LEMMA FishKeeps == FishInv /\ [FishNext]_fishVars => FishInv'
<1> SUFFICES ASSUME FishInv, [FishNext]_fishVars PROVE FishInv'
  OBVIOUS
<1> USE FishAssumption DEF FishAssumption
<1>1. /\ fish \in [FishGpus -> FishStates] /\ refVolume \in [References -> 0 .. MaxAdds]
      /\ spoken \in Pairs /\ adds \in 0 .. MaxAdds /\ spoken.text \in {0, spoken.audio}
  BY DEF FishInv, SpokenAsGiven
<1>2. ASSUME NEW c \in FishGpus, NEW r \in References, CacheReference(c, r) PROVE FishInv'
  <2> DEFINE n == adds + 1
             s == [cache |-> [fish[c].cache EXCEPT ![r] = [audio |-> n, text |-> n]],
                   view  |-> [fish[c].view EXCEPT ![r] = n], dirty |-> fish[c].dirty \cup {r}]
  <2>1. n \in 0 .. MaxAdds /\ adds' = n /\ refVolume' = refVolume /\ spoken' = spoken
    BY <1>1, <1>2 DEF CacheReference
  <2>2. CASE UNCHANGED fish
    BY <1>1, <2>1, <2>2 DEF FishInv, SpokenAsGiven
  <2>3. CASE fish' = [fish EXCEPT ![c] = s]
    <3>3. [audio |-> n, text |-> n] \in Pairs
      BY <2>1 DEF Pairs
    <3>4. s \in FishStates
      BY <2>1, <3>3, FishTypes DEF FishStates
    <3>5. CacheTrue(s)
      <4> SUFFICES ASSUME NEW q \in References, s.cache[q] # NoPair
                   PROVE  s.cache[q].audio = s.view[q] /\ s.cache[q].text \in {0, s.view[q]}
        BY DEF CacheTrue
      <4>1. CASE q = r
        BY <4>1, FishTypes
      <4>2. CASE q # r
        BY <4>2, FishTypes
      <4> QED BY <4>1, <4>2
    <3> HIDE DEF s, n
    <3> QED BY <1>1, <2>1, <2>3, <3>4, <3>5, FishBecomes
  <2>4. UNCHANGED fish \/ fish' = [fish EXCEPT ![c] = s]
    BY <1>1, <1>2 DEF CacheReference, FishStates
  <2> QED BY <2>2, <2>3, <2>4
<1>3. ASSUME NEW c \in FishGpus, NEW r \in References, SynthesizeCached(c, r) PROVE FishInv'
  <2> DEFINE pair == IF fish[c].cache[r] # NoPair THEN fish[c].cache[r]
                     ELSE [audio |-> fish[c].view[r], text |-> 0]
             s == [cache |-> [fish[c].cache EXCEPT ![r] = pair], view |-> fish[c].view, dirty |-> fish[c].dirty]
  <2>1. fish' = [fish EXCEPT ![c].cache[r] = pair] /\ spoken' = pair /\ refVolume' = refVolume /\ adds' = adds
    BY <1>3 DEF SynthesizeCached
  <2>2. pair \in Pairs /\ pair.audio = fish[c].view[r] /\ pair.text \in {0, fish[c].view[r]}
    BY FishTypes DEF Pairs
  <2> HIDE DEF pair
  <2>3. fish' = [fish EXCEPT ![c] = s]
    <3>1. fish[c] = [cache |-> fish[c].cache, view |-> fish[c].view, dirty |-> fish[c].dirty]
      BY <1>1 DEF FishStates
    <3>2. fish' = [fish EXCEPT ![c] = [fish[c] EXCEPT !.cache[r] = pair]]
      BY <1>1, <2>1
    <3>3. [fish[c] EXCEPT !.cache[r] = pair] = s
      BY <3>1
    <3> QED BY <3>2, <3>3
  <2>4. s \in FishStates
    BY <2>2, FishTypes DEF FishStates
  <2>5. CacheTrue(s)
    <3> SUFFICES ASSUME NEW q \in References, s.cache[q] # NoPair
                 PROVE  s.cache[q].audio = s.view[q] /\ s.cache[q].text \in {0, s.view[q]}
      BY DEF CacheTrue
    <3>1. CASE q = r
      BY <2>2, <3>1, FishTypes
    <3>2. CASE q # r
      BY <3>2, FishTypes
    <3> QED BY <3>1, <3>2
  <2> HIDE DEF s
  <2> QED BY <1>1, <2>1, <2>2, <2>3, <2>4, <2>5, FishBecomes
<1>4. ASSUME NEW c \in FishGpus, CommitReferences(c) PROVE FishInv'
  <2> DEFINE s == [cache |-> fish[c].cache, view |-> fish[c].view, dirty |-> {}]
  <2>1. /\ fish' = [fish EXCEPT ![c].dirty = {}] /\ spoken' = spoken /\ adds' = adds
        /\ refVolume' = [r \in References |-> IF r \in fish[c].dirty THEN fish[c].view[r] ELSE refVolume[r]]
    BY <1>4 DEF CommitReferences
  <2>2. refVolume' \in [References -> 0 .. MaxAdds]
    BY <1>1, <2>1, FishTypes
  <2>3. fish' = [fish EXCEPT ![c] = s]
    <3>1. fish[c] = [cache |-> fish[c].cache, view |-> fish[c].view, dirty |-> fish[c].dirty]
      BY <1>1 DEF FishStates
    <3>2. fish' = [fish EXCEPT ![c] = [fish[c] EXCEPT !.dirty = {}]]
      BY <1>1, <2>1
    <3>3. [fish[c] EXCEPT !.dirty = {}] = s
      BY <3>1
    <3> QED BY <3>2, <3>3
  <2>4. s \in FishStates /\ CacheTrue(s)
    BY FishTypes DEF FishStates, CacheTrue
  <2> HIDE DEF s
  <2> QED BY <1>1, <2>1, <2>2, <2>3, <2>4, FishBecomes
<1>5. ASSUME NEW c \in FishGpus, RestartFish(c) PROVE FishInv'
  <2>1. fish' = [fish EXCEPT ![c] = FreshFish] /\ UNCHANGED <<refVolume, spoken, adds>>
    BY <1>5 DEF RestartFish
  <2>2. NoPair \in Pairs
    BY DEF NoPair, Pairs
  <2>3. FreshFish \in FishStates /\ CacheTrue(FreshFish)
    BY <1>1, <2>2 DEF FreshFish, FishStates, CacheTrue
  <2> QED BY <1>1, <2>1, <2>3, FishBecomes
<1>6. CASE UNCHANGED fishVars
  BY <1>6 DEF fishVars, FishInv, SpokenAsGiven
<1> QED BY <1>2, <1>3, <1>4, <1>5, <1>6 DEF FishNext

LEMMA FishStarts == FishInit => FishInv
<1> SUFFICES ASSUME FishInit PROVE FishInv
  OBVIOUS
<1>1. NoPair \in Pairs /\ NoPair.text = 0
  BY FishAssumption DEF NoPair, Pairs
<1>2. refVolume \in [References -> 0 .. MaxAdds] /\ adds \in 0 .. MaxAdds /\ spoken = NoPair
  BY FishAssumption DEF FishInit
<1>3. FreshFish \in FishStates /\ \A r \in References : FreshFish.cache[r] = NoPair
  BY <1>1, <1>2 DEF FreshFish, FishStates
<1>4. fish = [c \in FishGpus |-> FreshFish]
  BY DEF FishInit
<1> QED BY <1>1, <1>2, <1>3, <1>4 DEF FishInv, SpokenAsGiven

-----------------------------------------------------------------------------
(* The voices of XTTS.                                                     *)
XttsViews  == [XttsFiles -> {NoFile, "there"}]
XttsStates == [pc : {"idle", "validate", "warm", "rmtree"}, voice : XttsIds \cup {"none"},
               view : XttsViews, dirty : SUBSET XttsFiles]
XttsTypes  ==
  /\ xtts \in XttsViews /\ xttsGpu \in [XttsGpus -> XttsStates]
  /\ erased \in SUBSET XttsIds /\ overlapped \in SUBSET XttsIds /\ xttsCalls \in 0 .. MaxXttsCalls

Reference(v) == <<v, "reference.wav">>
Meta(v)      == <<v, "meta.json">>
Clones(s, v)  == s.pc \in {"validate", "warm"} /\ s.voice = v
Removes(s, v) == s.pc = "rmtree" /\ s.voice = v

(* What a container did not commit are recordings, and what it warms up was *)
(* found usable.                                                           *)
GpuOK(s) ==
  /\ \A f \in s.dirty : s.view[f] = "there" /\ \E v \in XttsIds : f = Reference(v)
  /\ s.pc # "idle" => s.voice \in XttsIds
  /\ s.pc = "warm" => s.voice \in Usable

(* A clone has its recording, a deletion sees what there is of the voice.  *)
WorkOK(s, store, v) ==
  /\ Clones(s, v) => Reference(v) \in s.dirty \/ store[Reference(v)] = "there"
  /\ Removes(s, v) => /\ s.view[Reference(v)] = "there"
                      /\ store[Meta(v)] = "there" => s.view[Meta(v)] = "there"
MetaOK(store, v) == store[Meta(v)] = "there" => store[Reference(v)] = "there" /\ v \in Usable
NoneOf(store, v) == store[Meta(v)] = NoFile /\ store[Reference(v)] = NoFile

(* Of a voice that nothing overlapped: nobody clones what is being deleted, *)
(* and once it is erased no container has anything of it left to commit.   *)
XttsInv ==
  /\ XttsTypes
  /\ \A c \in XttsGpus : GpuOK(xttsGpu[c])
  /\ \A v \in XttsIds \ overlapped :
       /\ \A c \in XttsGpus : WorkOK(xttsGpu[c], xtts, v)
       /\ \A c, d \in XttsGpus : ~ (Clones(xttsGpu[c], v) /\ Removes(xttsGpu[d], v))
       /\ MetaOK(xtts, v)
       /\ v \in erased => NoneOf(xtts, v) /\ \A c \in XttsGpus : Reference(v) \notin xttsGpu[c].dirty
  /\ \A v \in erased : \A c \in XttsGpus : ~ Clones(xttsGpu[c], v)

LEMMA XttsNames ==
  ASSUME NEW u \in XttsIds, NEW v \in XttsIds
  PROVE  /\ Reference(u) \in XttsFiles /\ Meta(u) \in XttsFiles /\ Reference(u) # Meta(v)
         /\ (Reference(u) = Reference(v)) = (u = v) /\ (Meta(u) = Meta(v)) = (u = v)
         /\ XttsDir(v) = {Reference(v), Meta(v)} /\ "there" # NoFile
<1>1. Reference(u) \in XttsFiles /\ Meta(u) \in XttsFiles
  BY DEF Reference, Meta, XttsFiles
<1>2. Reference(u) # Meta(v)
  BY DEF Reference, Meta
<1>3. (Reference(u) = Reference(v)) = (u = v) /\ (Meta(u) = Meta(v)) = (u = v)
  BY DEF Reference, Meta
<1>4. XttsDir(v) = {Reference(v), Meta(v)}
  <2>1. \A f \in XttsDir(v) : f \in {Reference(v), Meta(v)}
    BY DEF Reference, Meta, XttsDir
  <2>2. Reference(v) \in XttsDir(v) /\ Meta(v) \in XttsDir(v)
    BY DEF Reference, Meta, XttsDir
  <2> QED BY <2>1, <2>2
<1>5. "there" # NoFile
  BY DEF NoFile
<1> QED BY <1>1, <1>2, <1>3, <1>4, <1>5

LEMMA XttsGpuTypes ==
  ASSUME XttsInv, NEW c \in XttsGpus
  PROVE  /\ xttsGpu[c] \in XttsStates /\ xttsGpu[c].view \in XttsViews /\ xttsGpu[c].dirty \in SUBSET XttsFiles
         /\ xttsGpu[c].voice \in XttsIds \cup {"none"} /\ GpuOK(xttsGpu[c])
         /\ xttsGpu[c].pc \in {"idle", "validate", "warm", "rmtree"}
BY DEF XttsInv, XttsTypes, XttsStates

(* A container becomes s: what is left to show of it, of the files and of  *)
(* the other containers.                                                   *)
StepOK(c, s, store, gone, held) ==
  /\ \A u \in XttsIds \ held :
       /\ WorkOK(s, store, u) /\ \A d \in XttsGpus \ {c} : WorkOK(xttsGpu[d], store, u)
       /\ \A d \in XttsGpus \ {c} : /\ ~ (Clones(s, u) /\ Removes(xttsGpu[d], u))
                                    /\ ~ (Removes(s, u) /\ Clones(xttsGpu[d], u))
       /\ MetaOK(store, u)
       /\ u \in gone => /\ NoneOf(store, u) /\ Reference(u) \notin s.dirty
                        /\ \A d \in XttsGpus \ {c} : Reference(u) \notin xttsGpu[d].dirty
  /\ \A u \in gone : ~ Clones(s, u) /\ \A d \in XttsGpus \ {c} : ~ Clones(xttsGpu[d], u)

LEMMA XttsBecomes ==
  ASSUME XttsInv, NEW c \in XttsGpus, NEW s \in XttsStates, xttsGpu' = [xttsGpu EXCEPT ![c] = s],
         GpuOK(s), xtts' \in XttsViews, xttsCalls' \in 0 .. MaxXttsCalls,
         erased' \in SUBSET XttsIds, overlapped' \in SUBSET XttsIds, overlapped \subseteq overlapped',
         StepOK(c, s, xtts', erased', overlapped')
  PROVE  XttsInv'
<1>1. XttsTypes'
  BY DEF XttsInv, XttsTypes
<1>2. xttsGpu'[c] = s /\ \A d \in XttsGpus \ {c} : xttsGpu'[d] = xttsGpu[d]
  BY DEF XttsInv, XttsTypes
<1>3. \A d \in XttsGpus : GpuOK(xttsGpu'[d])
  BY <1>2 DEF XttsInv
<1>4. ASSUME NEW u \in XttsIds \ overlapped'
      PROVE  /\ \A d \in XttsGpus : WorkOK(xttsGpu'[d], xtts', u)
             /\ \A e, d \in XttsGpus : ~ (Clones(xttsGpu'[e], u) /\ Removes(xttsGpu'[d], u))
             /\ MetaOK(xtts', u)
             /\ u \in erased' => NoneOf(xtts', u) /\ \A d \in XttsGpus : Reference(u) \notin xttsGpu'[d].dirty
  <2>0. u \in XttsIds \ overlapped
    OBVIOUS
  <2>1. \A d \in XttsGpus : WorkOK(xttsGpu'[d], xtts', u)
    BY <1>2 DEF StepOK
  <2>2. ASSUME NEW e \in XttsGpus, NEW d \in XttsGpus PROVE ~ (Clones(xttsGpu'[e], u) /\ Removes(xttsGpu'[d], u))
    <3>1. CASE e = c /\ d = c
      BY <1>2, <3>1 DEF Clones, Removes
    <3>2. CASE e = c /\ d # c
      BY <1>2, <3>2 DEF StepOK
    <3>3. CASE e # c /\ d = c
      BY <1>2, <3>3 DEF StepOK
    <3>4. CASE e # c /\ d # c
      BY <1>2, <2>0, <3>4 DEF XttsInv
    <3> QED BY <3>1, <3>2, <3>3, <3>4
  <2>3. MetaOK(xtts', u)
    BY DEF StepOK
  <2>4. u \in erased' => NoneOf(xtts', u) /\ \A d \in XttsGpus : Reference(u) \notin xttsGpu'[d].dirty
    BY <1>2 DEF StepOK
  <2> QED BY <2>1, <2>2, <2>3, <2>4
<1>5. \A v \in erased' : \A d \in XttsGpus : ~ Clones(xttsGpu'[d], v)
  BY <1>2 DEF StepOK
<1> QED BY <1>1, <1>3, <1>4, <1>5 DEF XttsInv

(* What the step leaves as it is.                                          *)
LEMMA XttsSame ==
  ASSUME XttsInv, NEW c \in XttsGpus, NEW u \in XttsIds \ overlapped
  PROVE  /\ \A d \in XttsGpus : WorkOK(xttsGpu[d], xtts, u)
         /\ \A e, d \in XttsGpus : ~ (Clones(xttsGpu[e], u) /\ Removes(xttsGpu[d], u))
         /\ MetaOK(xtts, u)
         /\ u \in erased => NoneOf(xtts, u) /\ \A d \in XttsGpus : Reference(u) \notin xttsGpu[d].dirty
BY DEF XttsInv

LEMMA XttsReload ==
  ASSUME XttsInv, NEW c \in XttsGpus
  PROVE  /\ Reloaded(c) \in XttsViews
         /\ \A f \in xttsGpu[c].dirty : Reloaded(c)[f] = "there"
         /\ \A u \in XttsIds :
              /\ Reloaded(c)[Meta(u)] = xtts[Meta(u)]
              /\ Reloaded(c)[Reference(u)] =
                   IF Reference(u) \in xttsGpu[c].dirty THEN "there" ELSE xtts[Reference(u)]
<1>1. xtts \in XttsViews
  BY DEF XttsInv, XttsTypes
<1>2. Reloaded(c) = [f \in XttsFiles |-> IF f \in xttsGpu[c].dirty THEN xttsGpu[c].view[f] ELSE xtts[f]]
  BY <1>1 DEF Reloaded, Commit, XttsViews
<1>3. Reloaded(c) \in XttsViews
  BY <1>1, <1>2, XttsGpuTypes DEF XttsViews
<1>4. \A f \in xttsGpu[c].dirty : Reloaded(c)[f] = "there"
  BY <1>2, XttsGpuTypes DEF GpuOK
<1>5. ASSUME NEW u \in XttsIds
      PROVE  /\ Reloaded(c)[Meta(u)] = xtts[Meta(u)]
             /\ Reloaded(c)[Reference(u)] =
                  IF Reference(u) \in xttsGpu[c].dirty THEN "there" ELSE xtts[Reference(u)]
  <2>1. Meta(u) \notin xttsGpu[c].dirty
    BY XttsGpuTypes, XttsNames DEF GpuOK
  <2> QED BY <1>2, <1>4, <2>1, XttsNames
<1> QED BY <1>3, <1>4, <1>5

LEMMA XttsCreates ==
  ASSUME XttsInv, NEW c \in XttsGpus, NEW v \in XttsIds, CreateXtts(c, v) PROVE XttsInv'
<1> DEFINE s == [pc |-> "validate", voice |-> v, view |-> [xttsGpu[c].view EXCEPT ![Reference(v)] = "there"],
                 dirty |-> xttsGpu[c].dirty \cup {Reference(v)}]
<1>1. /\ xttsGpu[c].pc = "idle" /\ xttsGpu' = [xttsGpu EXCEPT ![c] = s] /\ xtts' = xtts /\ erased' = erased \ {v}
      /\ overlapped' = IF \E d \in XttsGpus : Removes(xttsGpu[d], v) THEN overlapped \cup {v} ELSE overlapped
      /\ xttsCalls < MaxXttsCalls /\ xttsCalls' = xttsCalls + 1
  BY DEF CreateXtts, Called, Become, Reference, Removes
<1>2. s \in XttsStates
  BY XttsGpuTypes, XttsNames DEF XttsStates, XttsViews
<1>3. s.pc = "validate" /\ s.voice = v /\ s.dirty = xttsGpu[c].dirty \cup {Reference(v)}
  OBVIOUS
<1>4. \A f \in s.dirty : s.view[f] = "there" /\ \E u \in XttsIds : f = Reference(u)
  BY XttsGpuTypes, XttsNames DEF GpuOK, XttsViews
<1> HIDE DEF s
<1>5. GpuOK(s)
  BY <1>3, <1>4 DEF GpuOK
<1>6. /\ xtts' \in XttsViews /\ xttsCalls' \in 0 .. MaxXttsCalls
      /\ erased' \in SUBSET XttsIds /\ overlapped' \in SUBSET XttsIds /\ overlapped \subseteq overlapped'
  BY <1>1, XttsAssumption DEF XttsInv, XttsTypes, XttsAssumption
<1>7. ASSUME NEW u \in XttsIds \ overlapped'
      PROVE  /\ WorkOK(s, xtts', u) /\ \A d \in XttsGpus \ {c} : WorkOK(xttsGpu[d], xtts', u)
             /\ \A d \in XttsGpus \ {c} : /\ ~ (Clones(s, u) /\ Removes(xttsGpu[d], u))
                                          /\ ~ (Removes(s, u) /\ Clones(xttsGpu[d], u))
             /\ MetaOK(xtts', u)
             /\ u \in erased' => /\ NoneOf(xtts', u) /\ Reference(u) \notin s.dirty
                                 /\ \A d \in XttsGpus \ {c} : Reference(u) \notin xttsGpu[d].dirty
  <2>0. u \in XttsIds \ overlapped
    BY <1>6
  <2>1. WorkOK(s, xtts', u)
    BY <1>3, XttsNames DEF WorkOK, Clones, Removes
  <2>2. \A d \in XttsGpus \ {c} : /\ ~ (Clones(s, u) /\ Removes(xttsGpu[d], u))
                                  /\ ~ (Removes(s, u) /\ Clones(xttsGpu[d], u))
    BY <1>1, <1>3 DEF Clones, Removes
  <2>3. u \in erased' => Reference(u) \notin s.dirty
    BY <1>1, <1>3, <2>0, XttsSame, XttsNames
  <2> QED BY <1>1, <2>0, <2>1, <2>2, <2>3, XttsSame
<1>8. \A u \in erased' : ~ Clones(s, u) /\ \A d \in XttsGpus \ {c} : ~ Clones(xttsGpu[d], u)
  BY <1>1, <1>3 DEF XttsInv, Clones
<1> QED BY <1>1, <1>2, <1>5, <1>6, <1>7, <1>8, XttsBecomes DEF StepOK

(* A container that does nothing, and a step that changes no other file.   *)
LEMMA XttsIdles ==
  ASSUME XttsInv, NEW c \in XttsGpus, NEW left \in XttsViews,
         \A f \in xttsGpu[c].dirty : left[f] = "there",
         xttsGpu' = [xttsGpu EXCEPT ![c] = Waiting(left, xttsGpu[c].dirty)],
         xtts' = xtts, xttsCalls' \in 0 .. MaxXttsCalls,
         erased' = erased, overlapped' \in SUBSET XttsIds, overlapped \subseteq overlapped'
  PROVE  XttsInv'
<1> DEFINE s == Waiting(left, xttsGpu[c].dirty)
<1>1. s \in XttsStates /\ s.pc = "idle" /\ s.dirty = xttsGpu[c].dirty /\ s.view = left
  BY XttsGpuTypes DEF Waiting, XttsStates
<1> HIDE DEF s
<1>2. GpuOK(s)
  BY <1>1, XttsGpuTypes DEF GpuOK
<1>3. ASSUME NEW u \in XttsIds \ overlapped'
      PROVE  /\ WorkOK(s, xtts', u) /\ \A d \in XttsGpus \ {c} : WorkOK(xttsGpu[d], xtts', u)
             /\ \A d \in XttsGpus \ {c} : /\ ~ (Clones(s, u) /\ Removes(xttsGpu[d], u))
                                          /\ ~ (Removes(s, u) /\ Clones(xttsGpu[d], u))
             /\ MetaOK(xtts', u)
             /\ u \in erased' => /\ NoneOf(xtts', u) /\ Reference(u) \notin s.dirty
                                 /\ \A d \in XttsGpus \ {c} : Reference(u) \notin xttsGpu[d].dirty
  <2>0. u \in XttsIds \ overlapped
    OBVIOUS
  <2>1. ~ Clones(s, u) /\ ~ Removes(s, u)
    BY <1>1 DEF Clones, Removes
  <2>2. WorkOK(s, xtts', u)
    BY <2>1 DEF WorkOK
  <2> QED BY <1>1, <2>0, <2>1, <2>2, XttsSame
<1>4. \A u \in erased' : ~ Clones(s, u) /\ \A d \in XttsGpus \ {c} : ~ Clones(xttsGpu[d], u)
  BY <1>1 DEF XttsInv, Clones
<1>5. xtts' \in XttsViews /\ erased' \in SUBSET XttsIds
  BY DEF XttsInv, XttsTypes
<1> QED BY <1>1, <1>2, <1>3, <1>4, <1>5, XttsBecomes DEF s, StepOK

LEMMA XttsValidates ==
  ASSUME XttsInv, NEW c \in XttsGpus, ValidateXtts(c) PROVE XttsInv'
<1>1. /\ xttsGpu[c].pc = "validate" /\ UNCHANGED <<xtts, erased, overlapped, xttsCalls>>
      /\ xttsGpu' = [xttsGpu EXCEPT ![c] = IF xttsGpu[c].voice \in Usable THEN [xttsGpu[c] EXCEPT !.pc = "warm"]
                                           ELSE Waiting(xttsGpu[c].view, xttsGpu[c].dirty)]
  BY DEF ValidateXtts, Become
<1>2. /\ xtts' \in XttsViews /\ xttsCalls' \in 0 .. MaxXttsCalls
      /\ erased' \in SUBSET XttsIds /\ overlapped' \in SUBSET XttsIds
  BY <1>1 DEF XttsInv, XttsTypes
<1>3. CASE xttsGpu[c].voice \in Usable
  <2> DEFINE s == [xttsGpu[c] EXCEPT !.pc = "warm"]
  <2>1. /\ s \in XttsStates /\ s.pc = "warm" /\ s.voice = xttsGpu[c].voice
        /\ s.view = xttsGpu[c].view /\ s.dirty = xttsGpu[c].dirty
    BY XttsGpuTypes DEF XttsStates
  <2>2. xttsGpu' = [xttsGpu EXCEPT ![c] = s]
    BY <1>1, <1>3
  <2> HIDE DEF s
  <2>3. GpuOK(s)
    BY <1>1, <1>3, <2>1, XttsGpuTypes DEF GpuOK
  <2>4. \A u \in XttsIds : (Clones(s, u) = Clones(xttsGpu[c], u)) /\ ~ Removes(s, u)
    BY <1>1, <2>1 DEF Clones, Removes
  <2>5. ASSUME NEW u \in XttsIds \ overlapped'
        PROVE  /\ WorkOK(s, xtts', u) /\ \A d \in XttsGpus \ {c} : WorkOK(xttsGpu[d], xtts', u)
               /\ \A d \in XttsGpus \ {c} : /\ ~ (Clones(s, u) /\ Removes(xttsGpu[d], u))
                                            /\ ~ (Removes(s, u) /\ Clones(xttsGpu[d], u))
               /\ MetaOK(xtts', u)
               /\ u \in erased' => /\ NoneOf(xtts', u) /\ Reference(u) \notin s.dirty
                                   /\ \A d \in XttsGpus \ {c} : Reference(u) \notin xttsGpu[d].dirty
    <3>0. u \in XttsIds \ overlapped
      BY <1>1
    <3>1. WorkOK(xttsGpu[c], xtts, u)
      BY <3>0, XttsSame
    <3>2. WorkOK(s, xtts', u)
      BY <1>1, <2>1, <2>4, <3>1 DEF WorkOK
    <3> QED BY <1>1, <2>1, <2>4, <3>0, <3>2, XttsSame
  <2>6. \A u \in erased' : ~ Clones(s, u) /\ \A d \in XttsGpus \ {c} : ~ Clones(xttsGpu[d], u)
    BY <1>1, <1>2, <2>4 DEF XttsInv
  <2> QED BY <1>1, <1>2, <2>1, <2>2, <2>3, <2>5, <2>6, XttsBecomes DEF StepOK
<1>4. CASE xttsGpu[c].voice \notin Usable
  <2>1. xttsGpu[c].view \in XttsViews /\ \A f \in xttsGpu[c].dirty : xttsGpu[c].view[f] = "there"
    BY XttsGpuTypes DEF GpuOK
  <2> QED BY <1>1, <1>2, <1>4, <2>1, XttsIdles
<1> QED BY <1>3, <1>4

LEMMA XttsReads ==
  ASSUME XttsInv, NEW c \in XttsGpus, ReadXtts(c) \/ RecycleXtts(c) PROVE XttsInv'
<1>1. CASE ReadXtts(c)
  <2>1. /\ UNCHANGED <<xtts, erased, overlapped>> /\ xttsCalls < MaxXttsCalls /\ xttsCalls' = xttsCalls + 1
        /\ xttsGpu' = [xttsGpu EXCEPT ![c] = Waiting(Reloaded(c), xttsGpu[c].dirty)]
    BY <1>1 DEF ReadXtts, Called, Become
  <2>2. xttsCalls' \in 0 .. MaxXttsCalls /\ overlapped' \in SUBSET XttsIds
    BY <2>1, XttsAssumption DEF XttsInv, XttsTypes, XttsAssumption
  <2> QED BY <2>1, <2>2, XttsReload, XttsIdles
<1>2. CASE RecycleXtts(c)
  <2>1. /\ UNCHANGED <<xtts, erased, overlapped, xttsCalls>> /\ xttsGpu[c].dirty = {}
        /\ xttsGpu' = [xttsGpu EXCEPT ![c] = Waiting(xtts, xttsGpu[c].dirty)]
    BY <1>2 DEF RecycleXtts, Become
  <2>2. xttsCalls' \in 0 .. MaxXttsCalls /\ overlapped' \in SUBSET XttsIds /\ xtts \in XttsViews
    BY <2>1 DEF XttsInv, XttsTypes
  <2> QED BY <2>1, <2>2, XttsIdles
<1> QED BY <1>1, <1>2

LEMMA XttsDeletes ==
  ASSUME XttsInv, NEW c \in XttsGpus, NEW v \in XttsIds, DeleteXtts(c, v) PROVE XttsInv'
<1> DEFINE s == [pc |-> "rmtree", voice |-> v, view |-> Reloaded(c), dirty |-> xttsGpu[c].dirty]
<1>1. /\ UNCHANGED <<xtts, erased>> /\ xttsCalls < MaxXttsCalls /\ xttsCalls' = xttsCalls + 1
      /\ xttsGpu' = [xttsGpu EXCEPT ![c] = IF Seen(Reloaded(c), XttsDir(v)) = {}
                                           THEN Waiting(Reloaded(c), xttsGpu[c].dirty) ELSE s]
      /\ overlapped' = IF Cloning(v) THEN overlapped \cup {v} ELSE overlapped
  BY DEF DeleteXtts, Called, Become
<1>2. /\ xtts' \in XttsViews /\ xttsCalls' \in 0 .. MaxXttsCalls /\ erased' \in SUBSET XttsIds
      /\ overlapped' \in SUBSET XttsIds /\ overlapped \subseteq overlapped'
  BY <1>1, XttsAssumption DEF XttsInv, XttsTypes, XttsAssumption
<1>3. CASE Seen(Reloaded(c), XttsDir(v)) = {}
  <2>1. Reloaded(c) \in XttsViews /\ \A f \in xttsGpu[c].dirty : Reloaded(c)[f] = "there"
    BY XttsReload
  <2> QED BY <1>1, <1>2, <1>3, <2>1, XttsIdles
<1>4. CASE Seen(Reloaded(c), XttsDir(v)) # {}
  <2>1. /\ s \in XttsStates /\ s.pc = "rmtree" /\ s.voice = v /\ s.view = Reloaded(c) /\ s.dirty = xttsGpu[c].dirty
    BY XttsGpuTypes, XttsReload DEF XttsStates
  <2>2. xttsGpu' = [xttsGpu EXCEPT ![c] = s]
    BY <1>1, <1>4
  <2> HIDE DEF s
  <2>3. GpuOK(s)
    BY <2>1, XttsReload, XttsGpuTypes DEF GpuOK
  <2>4. \A u \in XttsIds : ~ Clones(s, u) /\ Removes(s, u) = (u = v)
    BY <2>1 DEF Clones, Removes
  <2>5. v \notin overlapped' => \A d \in XttsGpus : ~ Clones(xttsGpu[d], v)
    BY <1>1 DEF Cloning, Clones
  <2>6. Reloaded(c)[Reference(v)] # NoFile \/ Reloaded(c)[Meta(v)] # NoFile
    BY <1>4, XttsNames DEF Seen
  <2>7. ASSUME NEW u \in XttsIds \ overlapped'
        PROVE  /\ WorkOK(s, xtts', u) /\ \A d \in XttsGpus \ {c} : WorkOK(xttsGpu[d], xtts', u)
               /\ \A d \in XttsGpus \ {c} : /\ ~ (Clones(s, u) /\ Removes(xttsGpu[d], u))
                                            /\ ~ (Removes(s, u) /\ Clones(xttsGpu[d], u))
               /\ MetaOK(xtts', u)
               /\ u \in erased' => /\ NoneOf(xtts', u) /\ Reference(u) \notin s.dirty
                                   /\ \A d \in XttsGpus \ {c} : Reference(u) \notin xttsGpu[d].dirty
    <3>0. u \in XttsIds \ overlapped
      BY <1>2
    <3>1. WorkOK(s, xtts', u)
      <4>1. CASE u = v
        <5>1. MetaOK(xtts, u)
          BY <3>0, XttsSame
        <5>2. xtts[Reference(u)] \in {NoFile, "there"} /\ xtts[Meta(u)] \in {NoFile, "there"}
          BY XttsNames DEF XttsInv, XttsTypes, XttsViews
        <5>3. Reloaded(c)[Reference(u)] = "there"
          BY <2>6, <4>1, <5>1, <5>2, XttsReload DEF MetaOK
        <5> QED BY <1>1, <2>1, <2>4, <5>3, XttsReload DEF WorkOK
      <4>2. CASE u # v
        BY <2>4, <4>2 DEF WorkOK
      <4> QED BY <4>1, <4>2
    <3> QED BY <1>1, <2>1, <2>4, <2>5, <3>0, <3>1, XttsSame
  <2>8. \A u \in erased' : ~ Clones(s, u) /\ \A d \in XttsGpus \ {c} : ~ Clones(xttsGpu[d], u)
    BY <1>1, <1>2, <2>4 DEF XttsInv
  <2> QED BY <1>2, <2>1, <2>2, <2>3, <2>7, <2>8, XttsBecomes DEF StepOK
<1> QED BY <1>3, <1>4

LEMMA XttsCommits ==
  ASSUME XttsInv, NEW c \in XttsGpus, CommitXtts(c) PROVE XttsInv'
<1> DEFINE s == [xttsGpu[c] EXCEPT !.dirty = {}]
<1>1. /\ xtts' = Reloaded(c) /\ UNCHANGED <<erased, overlapped, xttsCalls>> /\ xttsGpu' = [xttsGpu EXCEPT ![c] = s]
  BY DEF CommitXtts, Become
<1>2. /\ xtts' \in XttsViews /\ xttsCalls' \in 0 .. MaxXttsCalls /\ erased' \in SUBSET XttsIds
      /\ overlapped' \in SUBSET XttsIds
  BY <1>1, XttsReload DEF XttsInv, XttsTypes
<1>3. /\ s \in XttsStates /\ s.pc = xttsGpu[c].pc /\ s.voice = xttsGpu[c].voice
      /\ s.view = xttsGpu[c].view /\ s.dirty = {}
  BY XttsGpuTypes DEF XttsStates
<1> HIDE DEF s
<1>4. GpuOK(s)
  BY <1>3, XttsGpuTypes DEF GpuOK
<1>5. \A u \in XttsIds : (Clones(s, u) = Clones(xttsGpu[c], u)) /\ (Removes(s, u) = Removes(xttsGpu[c], u))
  BY <1>3 DEF Clones, Removes
<1>6. ASSUME NEW u \in XttsIds \ overlapped'
      PROVE  /\ WorkOK(s, xtts', u) /\ \A d \in XttsGpus \ {c} : WorkOK(xttsGpu[d], xtts', u)
             /\ \A d \in XttsGpus \ {c} : /\ ~ (Clones(s, u) /\ Removes(xttsGpu[d], u))
                                          /\ ~ (Removes(s, u) /\ Clones(xttsGpu[d], u))
             /\ MetaOK(xtts', u)
             /\ u \in erased' => /\ NoneOf(xtts', u) /\ Reference(u) \notin s.dirty
                                 /\ \A d \in XttsGpus \ {c} : Reference(u) \notin xttsGpu[d].dirty
  <2>0. u \in XttsIds \ overlapped
    BY <1>1
  <2>1. /\ xtts'[Meta(u)] = xtts[Meta(u)]
        /\ xtts'[Reference(u)] = IF Reference(u) \in xttsGpu[c].dirty THEN "there" ELSE xtts[Reference(u)]
    BY <1>1, XttsReload
  <2>2. WorkOK(s, xtts', u)
    <3>1. WorkOK(xttsGpu[c], xtts, u)
      BY <2>0, XttsSame
    <3> QED BY <1>3, <1>5, <2>1, <3>1 DEF WorkOK
  <2>3. ASSUME NEW d \in XttsGpus \ {c} PROVE WorkOK(xttsGpu[d], xtts', u)
    <3>1. WorkOK(xttsGpu[d], xtts, u)
      BY <2>0, XttsSame
    <3> QED BY <2>1, <3>1 DEF WorkOK
  <2>4. MetaOK(xtts', u)
    BY <2>0, <2>1, XttsSame DEF MetaOK
  <2>5. u \in erased' => /\ NoneOf(xtts', u) /\ Reference(u) \notin s.dirty
                         /\ \A d \in XttsGpus \ {c} : Reference(u) \notin xttsGpu[d].dirty
    BY <1>1, <1>3, <2>0, <2>1, XttsSame DEF NoneOf
  <2>6. \A d \in XttsGpus \ {c} : /\ ~ (Clones(s, u) /\ Removes(xttsGpu[d], u))
                                  /\ ~ (Removes(s, u) /\ Clones(xttsGpu[d], u))
    BY <1>5, <2>0, XttsSame
  <2> QED BY <2>2, <2>3, <2>4, <2>5, <2>6
<1>7. \A u \in erased' : ~ Clones(s, u) /\ \A d \in XttsGpus \ {c} : ~ Clones(xttsGpu[d], u)
  BY <1>1, <1>2, <1>5 DEF XttsInv
<1> QED BY <1>1, <1>2, <1>3, <1>4, <1>6, <1>7, XttsBecomes DEF StepOK

LEMMA XttsFinishes ==
  ASSUME XttsInv, NEW c \in XttsGpus, FinishXtts(c) PROVE XttsInv'
<1> DEFINE v    == xttsGpu[c].voice
           left == [xttsGpu[c].view EXCEPT ![Meta(v)] = "there"]
           s    == Waiting(left, {})
<1>1. /\ xttsGpu[c].pc = "warm" /\ UNCHANGED <<erased, overlapped, xttsCalls>>
      /\ \/ xttsGpu' = [xttsGpu EXCEPT ![c] = Waiting(xttsGpu[c].view, xttsGpu[c].dirty)] /\ xtts' = xtts
         \/ /\ xtts' = Commit(xtts, left, xttsGpu[c].dirty \cup {Meta(v)})
            /\ xttsGpu' = [xttsGpu EXCEPT ![c] = s]
  BY DEF FinishXtts, Become, Meta
<1>2. v \in XttsIds /\ v \in Usable /\ Clones(xttsGpu[c], v)
  BY <1>1, XttsGpuTypes DEF GpuOK, Clones
<1>3. /\ xttsCalls' \in 0 .. MaxXttsCalls /\ erased' \in SUBSET XttsIds /\ overlapped' \in SUBSET XttsIds
      /\ xtts \in XttsViews
  BY <1>1 DEF XttsInv, XttsTypes
<1>4. CASE xttsGpu' = [xttsGpu EXCEPT ![c] = Waiting(xttsGpu[c].view, xttsGpu[c].dirty)] /\ xtts' = xtts
  <2>1. xttsGpu[c].view \in XttsViews /\ \A f \in xttsGpu[c].dirty : xttsGpu[c].view[f] = "there"
    BY XttsGpuTypes DEF GpuOK
  <2> QED BY <1>1, <1>3, <1>4, <2>1, XttsIdles
<1>5. CASE /\ xtts' = Commit(xtts, left, xttsGpu[c].dirty \cup {Meta(v)})
           /\ xttsGpu' = [xttsGpu EXCEPT ![c] = s]
  <2>1. left \in XttsViews /\ left[Meta(v)] = "there" /\ \A f \in xttsGpu[c].dirty : left[f] = "there"
    BY <1>2, XttsGpuTypes, XttsNames DEF XttsViews, GpuOK
  <2> HIDE DEF left
  <2>2. /\ xtts' \in XttsViews
        /\ \A f \in XttsFiles : xtts'[f] = IF f \in xttsGpu[c].dirty \cup {Meta(v)} THEN "there" ELSE xtts[f]
    BY <1>3, <1>5, <2>1 DEF Commit, XttsViews
  <2>3. ASSUME NEW u \in XttsIds
        PROVE  /\ xtts'[Meta(u)] = IF u = v THEN "there" ELSE xtts[Meta(u)]
               /\ xtts'[Reference(u)] = IF Reference(u) \in xttsGpu[c].dirty THEN "there" ELSE xtts[Reference(u)]
    <3>1. Meta(u) \notin xttsGpu[c].dirty
      BY XttsGpuTypes, XttsNames DEF GpuOK
    <3>2. Meta(u) \in XttsFiles /\ Reference(u) \in XttsFiles /\ Reference(u) # Meta(v) /\ (Meta(u) = Meta(v)) = (u = v)
      BY <1>2, XttsNames
    <3> QED BY <2>2, <3>1, <3>2
  <2>4. s \in XttsStates /\ s.pc = "idle" /\ s.dirty = {}
    BY <2>1 DEF Waiting, XttsStates
  <2> HIDE DEF s
  <2>5. GpuOK(s)
    BY <2>4 DEF GpuOK
  <2>6. \A u \in XttsIds : ~ Clones(s, u) /\ ~ Removes(s, u)
    BY <2>4 DEF Clones, Removes
  <2>7. ASSUME NEW u \in XttsIds \ overlapped'
        PROVE  /\ WorkOK(s, xtts', u) /\ \A d \in XttsGpus \ {c} : WorkOK(xttsGpu[d], xtts', u)
               /\ \A d \in XttsGpus \ {c} : /\ ~ (Clones(s, u) /\ Removes(xttsGpu[d], u))
                                            /\ ~ (Removes(s, u) /\ Clones(xttsGpu[d], u))
               /\ MetaOK(xtts', u)
               /\ u \in erased' => /\ NoneOf(xtts', u) /\ Reference(u) \notin s.dirty
                                   /\ \A d \in XttsGpus \ {c} : Reference(u) \notin xttsGpu[d].dirty
    <3> HIDE DEF v
    <3>0. u \in XttsIds \ overlapped
      BY <1>1
    <3>1. WorkOK(s, xtts', u)
      BY <2>6 DEF WorkOK
    <3>2. ASSUME NEW d \in XttsGpus \ {c} PROVE WorkOK(xttsGpu[d], xtts', u)
      <4>1. WorkOK(xttsGpu[d], xtts, u) /\ ~ (Clones(xttsGpu[c], u) /\ Removes(xttsGpu[d], u))
        BY <3>0, XttsSame
      <4>2. CASE u = v
        BY <1>2, <2>3, <4>1, <4>2 DEF WorkOK
      <4>3. CASE u # v
        BY <2>3, <4>1, <4>3 DEF WorkOK
      <4> QED BY <4>2, <4>3
    <3>3. MetaOK(xtts', u)
      <4>1. MetaOK(xtts, u) /\ WorkOK(xttsGpu[c], xtts, u)
        BY <3>0, XttsSame
      <4>2. CASE u = v
        BY <1>2, <2>3, <4>1, <4>2 DEF MetaOK, WorkOK
      <4>3. CASE u # v
        BY <2>3, <4>1, <4>3 DEF MetaOK
      <4> QED BY <4>2, <4>3
    <3>4. u \in erased' => /\ NoneOf(xtts', u) /\ Reference(u) \notin s.dirty
                           /\ \A d \in XttsGpus \ {c} : Reference(u) \notin xttsGpu[d].dirty
      <4> SUFFICES ASSUME u \in erased' PROVE /\ NoneOf(xtts', u) /\ Reference(u) \notin s.dirty
                                              /\ \A d \in XttsGpus \ {c} : Reference(u) \notin xttsGpu[d].dirty
        OBVIOUS
      <4>1. u # v
        BY <1>1, <1>2 DEF XttsInv
      <4>2. NoneOf(xtts, u) /\ \A d \in XttsGpus : Reference(u) \notin xttsGpu[d].dirty
        BY <1>1, <3>0, XttsSame
      <4> QED BY <2>3, <2>4, <4>1, <4>2 DEF NoneOf
    <3> QED BY <2>6, <3>1, <3>2, <3>3, <3>4
  <2>8. \A u \in erased' : ~ Clones(s, u) /\ \A d \in XttsGpus \ {c} : ~ Clones(xttsGpu[d], u)
    BY <1>1, <1>3, <2>6 DEF XttsInv
  <2> QED BY <1>1, <1>3, <1>5, <2>2, <2>4, <2>5, <2>7, <2>8, XttsBecomes DEF StepOK
<1> QED BY <1>1, <1>4, <1>5

LEMMA XttsRemoves ==
  ASSUME XttsInv, NEW c \in XttsGpus, RemoveXtts(c) PROVE XttsInv'
<1> DEFINE v    == xttsGpu[c].voice
           gone == Seen(xttsGpu[c].view, XttsDir(v))
           left == Without(xttsGpu[c].view, XttsDir(v))
           s    == Waiting(left, {})
<1>1. /\ xttsGpu[c].pc = "rmtree" /\ xttsCalls' = xttsCalls
      /\ xtts' = Commit(xtts, left, xttsGpu[c].dirty \cup gone)
      /\ xttsGpu' = [xttsGpu EXCEPT ![c] = s]
      /\ erased' = IF Cloning(v) THEN erased ELSE erased \cup {v}
      /\ overlapped' = IF \E d \in XttsGpus \ {c} : xttsGpu[d].dirty \cap XttsDir(v) # {}
                       THEN overlapped \cup {v} ELSE overlapped
  BY DEF RemoveXtts, Become
<1>2. v \in XttsIds /\ Removes(xttsGpu[c], v)
  BY <1>1, XttsGpuTypes DEF GpuOK, Removes
<1>3. /\ xttsCalls' \in 0 .. MaxXttsCalls /\ erased' \in SUBSET XttsIds /\ overlapped' \in SUBSET XttsIds
      /\ overlapped \subseteq overlapped' /\ xtts \in XttsViews
  BY <1>1, <1>2 DEF XttsInv, XttsTypes
<1>4. v \notin overlapped' => \A d \in XttsGpus \ {c} : Reference(v) \notin xttsGpu[d].dirty
  BY <1>1, <1>2, XttsNames
<1>5. left = [f \in XttsFiles |-> IF f \in {Reference(v), Meta(v)} THEN NoFile ELSE xttsGpu[c].view[f]]
  BY <1>2, XttsGpuTypes, XttsNames DEF Without, XttsViews
<1>6. left \in XttsViews
  BY <1>5, XttsGpuTypes DEF XttsViews
<1>7. \A f \in gone : f \in {Reference(v), Meta(v)}
  BY <1>2, XttsNames DEF Seen
<1>8. /\ (Reference(v) \in gone) = (xttsGpu[c].view[Reference(v)] # NoFile)
      /\ (Meta(v) \in gone) = (xttsGpu[c].view[Meta(v)] # NoFile)
  BY <1>2, XttsNames DEF Seen
<1> HIDE DEF gone, left
<1>9. /\ xtts' \in XttsViews
      /\ \A f \in XttsFiles : xtts'[f] = IF f \in xttsGpu[c].dirty \cup gone THEN left[f] ELSE xtts[f]
  BY <1>1, <1>3, <1>6 DEF Commit, XttsViews
<1>10. s \in XttsStates /\ s.pc = "idle" /\ s.dirty = {}
  BY <1>6 DEF Waiting, XttsStates
<1> HIDE DEF s
<1>11. GpuOK(s)
  BY <1>10 DEF GpuOK
<1>12. \A u \in XttsIds : ~ Clones(s, u) /\ ~ Removes(s, u)
  BY <1>10 DEF Clones, Removes
<1> HIDE DEF v
<1>13. ASSUME NEW u \in XttsIds, u # v
       PROVE  /\ xtts'[Meta(u)] = xtts[Meta(u)]
              /\ xtts'[Reference(u)] = IF Reference(u) \in xttsGpu[c].dirty THEN "there" ELSE xtts[Reference(u)]
  <2>1. /\ Meta(u) \in XttsFiles /\ Reference(u) \in XttsFiles
        /\ Meta(u) \notin {Reference(v), Meta(v)} /\ Reference(u) \notin {Reference(v), Meta(v)}
    BY <1>2, <1>13, XttsNames
  <2>2. Meta(u) \notin xttsGpu[c].dirty /\ \A f \in xttsGpu[c].dirty : xttsGpu[c].view[f] = "there"
    BY XttsGpuTypes, XttsNames DEF GpuOK
  <2>3. left[Reference(u)] = xttsGpu[c].view[Reference(u)]
    BY <1>5, <2>1
  <2> QED BY <1>7, <1>9, <2>1, <2>2, <2>3
<1>14. v \notin overlapped' => NoneOf(xtts', v)
  <2> SUFFICES ASSUME v \notin overlapped' PROVE NoneOf(xtts', v)
    OBVIOUS
  <2>1. WorkOK(xttsGpu[c], xtts, v)
    BY <1>2, <1>3, XttsSame
  <2>2. /\ xttsGpu[c].view[Reference(v)] = "there"
        /\ xtts[Meta(v)] = "there" => xttsGpu[c].view[Meta(v)] = "there"
    BY <1>2, <2>1 DEF WorkOK
  <2>3. Reference(v) \in gone /\ (xtts[Meta(v)] = "there" => Meta(v) \in gone)
    BY <1>2, <1>8, <2>2, XttsNames
  <2>4. Reference(v) \in XttsFiles /\ Meta(v) \in XttsFiles
    BY <1>2, XttsNames
  <2>5. left[Reference(v)] = NoFile /\ left[Meta(v)] = NoFile
    BY <1>5, <2>4
  <2>6. xtts[Meta(v)] \in {NoFile, "there"}
    BY <1>3, <2>4 DEF XttsViews
  <2> QED BY <1>9, <2>3, <2>4, <2>5, <2>6 DEF NoneOf
<1>15. ASSUME NEW u \in XttsIds \ overlapped'
       PROVE  /\ WorkOK(s, xtts', u) /\ \A d \in XttsGpus \ {c} : WorkOK(xttsGpu[d], xtts', u)
              /\ \A d \in XttsGpus \ {c} : /\ ~ (Clones(s, u) /\ Removes(xttsGpu[d], u))
                                           /\ ~ (Removes(s, u) /\ Clones(xttsGpu[d], u))
              /\ MetaOK(xtts', u)
              /\ u \in erased' => /\ NoneOf(xtts', u) /\ Reference(u) \notin s.dirty
                                  /\ \A d \in XttsGpus \ {c} : Reference(u) \notin xttsGpu[d].dirty
  <2>0. u \in XttsIds \ overlapped
    BY <1>3
  <2>1. WorkOK(s, xtts', u)
    BY <1>12 DEF WorkOK
  <2>2. CASE u = v
    <3>1. ASSUME NEW d \in XttsGpus \ {c} PROVE WorkOK(xttsGpu[d], xtts', u)
      <4>1. WorkOK(xttsGpu[d], xtts, u) /\ ~ Clones(xttsGpu[d], u)
        BY <1>2, <2>0, <2>2, XttsSame
      <4>2. xtts'[Meta(u)] = NoFile
        BY <1>14, <2>2 DEF NoneOf
      <4> QED BY <4>1, <4>2, XttsNames DEF WorkOK
    <3>2. MetaOK(xtts', u)
      BY <1>14, <2>2, XttsNames DEF MetaOK, NoneOf
    <3> QED BY <1>4, <1>10, <1>12, <1>14, <2>1, <2>2, <3>1, <3>2
  <2>3. CASE u # v
    <3>1. ASSUME NEW d \in XttsGpus \ {c} PROVE WorkOK(xttsGpu[d], xtts', u)
      <4>1. WorkOK(xttsGpu[d], xtts, u)
        BY <2>0, XttsSame
      <4> QED BY <1>13, <2>3, <4>1 DEF WorkOK
    <3>2. MetaOK(xtts', u)
      BY <1>13, <2>0, <2>3, XttsSame DEF MetaOK
    <3>3. u \in erased' => /\ NoneOf(xtts', u) /\ Reference(u) \notin s.dirty
                           /\ \A d \in XttsGpus \ {c} : Reference(u) \notin xttsGpu[d].dirty
      <4> SUFFICES ASSUME u \in erased' PROVE /\ NoneOf(xtts', u) /\ Reference(u) \notin s.dirty
                                              /\ \A d \in XttsGpus \ {c} : Reference(u) \notin xttsGpu[d].dirty
        OBVIOUS
      <4>1. u \in erased
        BY <1>1, <2>3
      <4>2. NoneOf(xtts, u) /\ \A d \in XttsGpus : Reference(u) \notin xttsGpu[d].dirty
        BY <2>0, <4>1, XttsSame
      <4> QED BY <1>10, <1>13, <2>3, <4>2 DEF NoneOf
    <3> QED BY <1>12, <2>1, <3>1, <3>2, <3>3
  <2> QED BY <2>2, <2>3
<1>16. \A u \in erased' : ~ Clones(s, u) /\ \A d \in XttsGpus \ {c} : ~ Clones(xttsGpu[d], u)
  BY <1>1, <1>3, <1>12 DEF XttsInv, Cloning, Clones
<1> QED BY <1>1, <1>3, <1>9, <1>10, <1>11, <1>15, <1>16, XttsBecomes DEF StepOK

LEMMA XttsKeeps == XttsInv /\ [XttsNext]_xttsVars => XttsInv'
<1>1. CASE UNCHANGED xttsVars
  BY <1>1 DEF xttsVars, XttsInv, XttsTypes
<1> QED BY <1>1, XttsCreates, XttsValidates, XttsFinishes, XttsDeletes, XttsRemoves, XttsReads, XttsCommits DEF XttsNext

LEMMA XttsStarts == XttsInit => XttsInv
<1> SUFFICES ASSUME XttsInit PROVE XttsInv
  OBVIOUS
<1>1. NoXtts \in XttsViews /\ xtts = NoXtts
  BY DEF NoXtts, XttsViews, XttsInit
<1>2. Waiting(NoXtts, {}) \in XttsStates
  BY <1>1 DEF Waiting, XttsStates
<1>3. \A c \in XttsGpus : xttsGpu[c].pc = "idle" /\ xttsGpu[c].dirty = {}
  BY DEF XttsInit, Waiting
<1>4. XttsTypes
  BY <1>1, <1>2, XttsAssumption DEF XttsTypes, XttsInit, XttsAssumption
<1>5. \A v \in XttsIds : xtts[Meta(v)] = NoFile /\ xtts[Meta(v)] # "there"
  BY <1>1, XttsNames DEF NoXtts
<1>6. erased = {}
  BY DEF XttsInit
<1> QED BY <1>3, <1>4, <1>5, <1>6 DEF XttsInv, GpuOK, WorkOK, MetaOK, Clones, Removes

LEMMA XttsHolds == XttsInv => XttsTypeOK /\ MetaMeansVoice /\ ErasedIsGone
<1> SUFFICES ASSUME XttsInv PROVE XttsTypeOK /\ MetaMeansVoice /\ ErasedIsGone
  OBVIOUS
<1>1. XttsTypeOK
  BY XttsGpuTypes DEF XttsInv, XttsTypes, XttsTypeOK, XttsViews
<1>2. \A v \in XttsIds : /\ xtts[Meta(v)] \in {NoFile, "there"} /\ xtts[Reference(v)] \in {NoFile, "there"}
  BY XttsNames DEF XttsInv, XttsTypes, XttsViews
<1>3. ASSUME NEW v \in XttsIds \ overlapped, xtts[Meta(v)] # NoFile
      PROVE  xtts[Reference(v)] # NoFile /\ v \in Usable
  BY <1>2, <1>3, XttsNames DEF XttsInv, MetaOK
<1>4. MetaMeansVoice
  BY <1>3 DEF MetaMeansVoice, Reference, Meta
<1>5. ASSUME NEW v \in erased \ overlapped PROVE Seen(xtts, XttsDir(v)) = {}
  <2>1. v \in XttsIds
    BY DEF XttsInv, XttsTypes
  <2>2. NoneOf(xtts, v)
    BY <2>1 DEF XttsInv
  <2> QED BY <2>1, <2>2, XttsNames DEF NoneOf, Seen
<1> QED BY <1>1, <1>4, <1>5 DEF ErasedIsGone

-----------------------------------------------------------------------------
(* The voice previews.                                                     *)
Counts == [design : Designs, read : [hour : Nat, count : Nat], hour : 1 .. MaxHours + 1, count : Nat]

(* A count that was read and not stored yet.                               *)
CountOK(c) ==
  /\ submission[c.design] = "counting" /\ c.hour <= hour /\ c.read.hour <= c.hour
  /\ c.count = 1 + (IF c.read.hour = c.hour THEN c.read.count ELSE 0) /\ c.count <= Limit

CountingOK ==
  /\ counting \in [DesignWebs -> Counts \cup {NotCounting}]
  /\ \A w \in DesignWebs : counting[w] # NotCounting =>
       /\ CountOK(counting[w])
       /\ \A x \in DesignWebs \ {w} : counting[x] # NotCounting => counting[x].design # counting[w].design

(* What is stored of a preview where its submission is at place p.         *)
StoredOK(p, s) ==
  /\ p \in {"new", "counting", "body", "refused", "invalid", "unspawned"} => s = NoDesign
  /\ p \in {"spawn", "spawned"}      => s.status = "queued"
  /\ p \in {"generating", "written"} => s.status = "running"
  /\ p = "over"                      => s.status \in {"ready", "failed"} /\ (s.status = "ready" => s.audio)
  /\ p = "died"                      => s.status \in {"queued", "running"}

AdmittedIn(h) == {d \in Designs : admitted[d] = h}
Allowed(h)    == IF h > rate.hour THEN 0 ELSE IF h = rate.hour THEN rate.count ELSE Limit

RateInv ==
  /\ rate.hour <= hour /\ rate.count <= Limit
  /\ ~ crossed => \A h \in 1 .. MaxHours + 1 :
                    IsFiniteSet(AdmittedIn(h)) /\ Cardinality(AdmittedIn(h)) <= Allowed(h)

DesignInv ==
  /\ DesignTypeOK /\ CountingOK /\ RateInv
  /\ \A d \in Designs : StoredOK(submission[d], design[d])

LEMMA DesignTypes ==
  ASSUME DesignInv
  PROVE  /\ Limit \in Nat \ {0} /\ MaxHours \in Nat /\ MaxDeaths \in Nat
         /\ hour \in 1 .. MaxHours + 1 /\ rate.hour \in Nat /\ rate.count \in Nat
         /\ rate \in [hour : Nat, count : Nat] /\ crossed \in BOOLEAN /\ deaths \in 0 .. MaxDeaths
<1>1. Limit \in Nat \ {0} /\ MaxHours \in Nat /\ MaxDeaths \in Nat
  BY DesignAssumption
<1>2. /\ hour \in 1 .. MaxHours + 1 /\ rate \in [hour : Nat, count : Nat]
      /\ crossed \in BOOLEAN /\ deaths \in 0 .. MaxDeaths
  BY DEF DesignInv, DesignTypeOK
<1> QED BY <1>1, <1>2

SubmissionPlaces == {"new", "counting", "body", "refused", "invalid", "spawn", "unspawned",
                     "spawned", "generating", "written", "over", "died"}
Stored == [status : {"none", "queued", "running", "ready", "failed"}, audio : BOOLEAN]

(* What counts is as it was, when nothing of it is touched and no          *)
(* submission that is being counted moves.                                 *)
LEMMA CountsStay ==
  ASSUME DesignInv, UNCHANGED <<rate, counting, admitted, crossed, hour>>,
         \A d \in Designs : submission[d] = "counting" => submission'[d] = "counting"
  PROVE  CountingOK' /\ RateInv'
<1>1. RateInv'
  BY DEF DesignInv, RateInv, Allowed, AdmittedIn
<1>2. ASSUME NEW w \in DesignWebs, counting[w] # NotCounting
      PROVE  /\ CountOK(counting[w])'
             /\ \A x \in DesignWebs \ {w} : counting[x] # NotCounting => counting[x].design # counting[w].design
  <2>1. /\ CountOK(counting[w]) /\ counting[w] \in Counts
        /\ \A x \in DesignWebs \ {w} : counting[x] # NotCounting => counting[x].design # counting[w].design
    BY <1>2 DEF DesignInv, CountingOK
  <2>2. counting[w].design \in Designs /\ submission[counting[w].design] = "counting"
    BY <2>1 DEF Counts, CountOK
  <2> QED BY <2>1, <2>2 DEF CountOK
<1>3. CountingOK'
  BY <1>2 DEF DesignInv, CountingOK, Counts
<1> QED BY <1>1, <1>3

(* One submission moves, and what is stored of it.                         *)
LEMMA SubmissionMoves ==
  ASSUME DesignInv, NEW d \in Designs, submission[d] # "counting", NEW p \in SubmissionPlaces, NEW s \in Stored,
         submission' = [submission EXCEPT ![d] = p], design' = [design EXCEPT ![d] = s], StoredOK(p, s),
         UNCHANGED <<rate, counting, hour, admitted, crossed>>, deaths' \in 0 .. MaxDeaths
  PROVE  DesignInv'
<1>1. submission \in [Designs -> SubmissionPlaces] /\ design \in [Designs -> Stored]
  BY DEF DesignInv, DesignTypeOK, SubmissionPlaces, Stored
<1>2. CountingOK' /\ RateInv'
  <2>1. \A e \in Designs : submission[e] = "counting" => submission'[e] = "counting"
    BY <1>1
  <2> QED BY <2>1, CountsStay
<1>3. \A e \in Designs : StoredOK(submission'[e], design'[e])
  BY <1>1 DEF DesignInv
<1>4. DesignTypeOK'
  BY <1>1 DEF DesignInv, DesignTypeOK, SubmissionPlaces, Stored
<1> QED BY <1>2, <1>3, <1>4 DEF DesignInv

LEMMA PreviewStep ==
  ASSUME DesignInv, NEW d \in Designs, CreateDesign(d) \/ SpawnDesign(d) \/ GenerateStep(d) \/ DieGenerating(d)
  PROVE  DesignInv'
<1>1. /\ design \in [Designs -> Stored] /\ design[d] \in Stored /\ design[d].audio \in BOOLEAN
      /\ StoredOK(submission[d], design[d]) /\ NoDesign \in Stored /\ NoDesign.audio = FALSE
      /\ \A status \in {"none", "queued", "running", "ready", "failed"} :
           /\ [design[d] EXCEPT !.status = status] \in Stored
           /\ [design[d] EXCEPT !.status = status].status = status
      /\ \A audio \in BOOLEAN : /\ [design[d] EXCEPT !.audio = audio] \in Stored
                                /\ [design[d] EXCEPT !.audio = audio].status = design[d].status
  BY DEF DesignInv, DesignTypeOK, Stored, NoDesign
<1>0. deaths \in 0 .. MaxDeaths /\ MaxDeaths \in Nat
  BY DesignTypes
<1>10. ASSUME NEW p \in SubmissionPlaces, NEW s \in Stored, submission[d] # "counting",
              submission' = [submission EXCEPT ![d] = p], design' = [design EXCEPT ![d] = s], StoredOK(p, s),
              UNCHANGED <<rate, counting, hour, admitted, crossed, deaths>>
       PROVE  DesignInv'
  BY <1>0, <1>10, SubmissionMoves
<1>2. CASE CreateDesign(d)
  <2>1. /\ submission[d] = "body" /\ design[d] = NoDesign /\ UNCHANGED <<rate, counting, hour, admitted, crossed, deaths>>
    BY <1>1, <1>2 DEF CreateDesign, StoredOK
  <2>2. CASE submission' = [submission EXCEPT ![d] = "invalid"] /\ UNCHANGED design
    <3>1. design' = [design EXCEPT ![d] = NoDesign]
      BY <1>1, <2>1, <2>2
    <3> QED BY <1>1, <2>1, <2>2, <3>1, <1>10 DEF SubmissionPlaces, StoredOK
  <2>3. CASE submission' = [submission EXCEPT ![d] = "spawn"] /\ design' = [design EXCEPT ![d].status = "queued"]
    <3> DEFINE s == [design[d] EXCEPT !.status = "queued"]
    <3>1. design' = [design EXCEPT ![d] = s] /\ s \in Stored /\ s.status = "queued"
      BY <1>1, <2>3
    <3> HIDE DEF s
    <3> QED BY <1>1, <2>1, <2>3, <3>1, <1>10 DEF SubmissionPlaces, StoredOK
  <2> QED BY <1>2, <2>2, <2>3 DEF CreateDesign
<1>3. CASE SpawnDesign(d)
  <2>1. /\ submission[d] = "spawn" /\ design[d].status = "queued" /\ UNCHANGED <<rate, counting, hour, admitted, crossed, deaths>>
    BY <1>1, <1>3 DEF SpawnDesign, StoredOK
  <2>2. CASE submission' = [submission EXCEPT ![d] = "spawned"] /\ UNCHANGED design
    <3>1. design' = [design EXCEPT ![d] = design[d]]
      BY <1>1, <2>2
    <3> QED BY <1>1, <2>1, <2>2, <3>1, <1>10 DEF SubmissionPlaces, StoredOK
  <2>3. CASE submission' = [submission EXCEPT ![d] = "unspawned"] /\ design' = [design EXCEPT ![d] = NoDesign]
    BY <1>1, <2>1, <2>3, <1>10 DEF SubmissionPlaces, StoredOK
  <2> QED BY <1>3, <2>2, <2>3 DEF SpawnDesign
<1>4. ASSUME NEW from, NEW to \in SubmissionPlaces, NEW s \in Stored, Generation(d, from, to, s),
             from # "counting", StoredOK(to, s)
      PROVE  DesignInv'
  BY <1>4, <1>10 DEF Generation
<1>5. CASE Generate(d)
  <2> DEFINE s == [design[d] EXCEPT !.status = "running"]
  <2>1. Generation(d, "spawned", "generating", s) /\ s \in Stored /\ s.status = "running"
    BY <1>1, <1>5 DEF Generate
  <2> HIDE DEF s
  <2> QED BY <1>4, <2>1 DEF SubmissionPlaces, StoredOK
<1>6. CASE WriteAudio(d)
  <2>1. PICK committed \in BOOLEAN : Generation(d, "generating", "written", [design[d] EXCEPT !.audio = committed])
    BY <1>6 DEF WriteAudio
  <2> DEFINE s == [design[d] EXCEPT !.audio = committed]
  <2>2. Generation(d, "generating", "written", s) /\ s \in Stored /\ s.status = "running"
    BY <1>1, <2>1 DEF Generation, StoredOK
  <2> HIDE DEF s
  <2> QED BY <1>4, <2>2 DEF SubmissionPlaces, StoredOK
<1>7. CASE Ready(d)
  <2> DEFINE s == [status |-> "ready", audio |-> TRUE]
  <2>1. Generation(d, "written", "over", s) /\ s \in Stored /\ s.status = "ready" /\ s.audio
    BY <1>7 DEF Ready, Stored
  <2> HIDE DEF s
  <2> QED BY <1>4, <2>1 DEF SubmissionPlaces, StoredOK
<1>8. CASE FailDesign(d)
  <2>1. PICK from \in {"generating", "written"}, audio \in BOOLEAN :
          Generation(d, from, "over", [status |-> "failed", audio |-> design[d].audio \/ audio])
    BY <1>8 DEF FailDesign
  <2> DEFINE s == [status |-> "failed", audio |-> design[d].audio \/ audio]
  <2>2. Generation(d, from, "over", s) /\ s \in Stored /\ s.status = "failed"
    BY <1>1, <2>1 DEF Stored
  <2> HIDE DEF s
  <2> QED BY <1>4, <2>2 DEF SubmissionPlaces, StoredOK
<1>9. CASE DieGenerating(d)
  <2>1. /\ submission[d] \in {"spawned", "generating", "written"} /\ submission' = [submission EXCEPT ![d] = "died"]
        /\ deaths' \in 0 .. MaxDeaths /\ UNCHANGED <<design, rate, counting, hour, admitted, crossed>>
    BY <1>0, <1>9 DEF DieGenerating
  <2>2. design' = [design EXCEPT ![d] = design[d]]
    BY <1>1, <2>1
  <2> QED BY <1>1, <2>1, <2>2, SubmissionMoves DEF SubmissionPlaces, StoredOK
<1> QED BY <1>2, <1>3, <1>5, <1>6, <1>7, <1>8, <1>9 DEF GenerateStep

(* The counter.                                                            *)
LEMMA HourStep ==
  ASSUME DesignInv, NextHour PROVE DesignInv'
<1>1. /\ hour <= MaxHours /\ hour' = hour + 1
      /\ UNCHANGED <<design, rate, submission, counting, admitted, crossed, deaths>>
  BY DEF NextHour
<1>2. hour' \in 1 .. MaxHours + 1 /\ hour \in Nat /\ hour' \in Nat /\ rate.hour \in Nat
  BY <1>1, DesignTypes
<1>3. DesignTypeOK'
  BY <1>1, <1>2 DEF DesignInv, DesignTypeOK
<1>4. RateInv'
  <2>1. rate.hour <= hour /\ rate.hour <= hour'
    BY <1>1, <1>2 DEF DesignInv, RateInv
  <2> QED BY <1>1, <2>1 DEF DesignInv, RateInv, Allowed, AdmittedIn
<1>5. CountingOK'
  <2> SUFFICES ASSUME NEW w \in DesignWebs, counting[w] # NotCounting PROVE CountOK(counting[w])'
    BY <1>1 DEF DesignInv, CountingOK, Counts
  <2>1. CountOK(counting[w]) /\ counting[w] \in Counts
    BY DEF DesignInv, CountingOK
  <2>2. counting[w].hour \in 1 .. MaxHours + 1 /\ MaxHours \in Nat
    BY <2>1, DesignTypes DEF Counts
  <2>3. counting[w].hour <= hour'
    BY <1>1, <1>2, <2>1, <2>2 DEF CountOK
  <2> QED BY <1>1, <2>1, <2>3 DEF CountOK
<1>6. \A d \in Designs : StoredOK(submission'[d], design'[d])
  BY <1>1 DEF DesignInv
<1> QED BY <1>3, <1>4, <1>5, <1>6 DEF DesignInv

LEMMA CheckStep ==
  ASSUME DesignInv, NEW w \in DesignWebs, NEW d \in Designs, CheckRateLimit(w, d) PROVE DesignInv'
<1> DEFINE count == 1 + IF rate.hour = hour THEN rate.count ELSE 0
           k == [design |-> d, read |-> rate, hour |-> hour, count |-> count]
<1>1. /\ submission[d] = "new" /\ counting[w] = NotCounting
      /\ UNCHANGED <<design, rate, hour, admitted, crossed, deaths>>
      /\ \/ submission' = [submission EXCEPT ![d] = "refused"] /\ UNCHANGED counting
         \/ /\ submission' = [submission EXCEPT ![d] = "counting"]
            /\ counting' = [counting EXCEPT ![w] = k] /\ ~ count > Limit
  BY DEF CheckRateLimit
<1>2. /\ count \in Nat /\ Limit \in Nat /\ rate \in [hour : Nat, count : Nat] /\ hour \in 1 .. MaxHours + 1
      /\ rate.hour <= hour /\ deaths \in 0 .. MaxDeaths
  BY DesignTypes DEF DesignInv, RateInv
<1>3. design[d] = NoDesign /\ NoDesign \in Stored /\ design \in [Designs -> Stored]
      /\ submission \in [Designs -> SubmissionPlaces]
      /\ counting \in [DesignWebs -> Counts \cup {NotCounting}]
  BY <1>1 DEF DesignInv, StoredOK, DesignTypeOK, Stored, SubmissionPlaces, NoDesign, CountingOK
<1>4. CASE submission' = [submission EXCEPT ![d] = "refused"] /\ UNCHANGED counting
  <2>1. design' = [design EXCEPT ![d] = NoDesign]
    BY <1>1, <1>3
  <2>2. submission[d] # "counting" /\ "refused" \in SubmissionPlaces /\ StoredOK("refused", NoDesign)
    BY <1>1 DEF SubmissionPlaces, StoredOK
  <2>3. UNCHANGED <<rate, counting, hour, admitted, crossed>> /\ deaths' \in 0 .. MaxDeaths
    BY <1>1, <1>2, <1>4
  <2> QED BY <1>3, <1>4, <2>1, <2>2, <2>3, SubmissionMoves
<1>5. CASE /\ submission' = [submission EXCEPT ![d] = "counting"]
           /\ counting' = [counting EXCEPT ![w] = k] /\ ~ count > Limit
  <2>1. k \in Counts /\ k.design = d /\ k.read = rate /\ k.hour = hour /\ k.count = count /\ k # NotCounting
    <3>1. k.hour # 0
      BY <1>2, DesignTypes
    <3> QED BY <1>2, <3>1 DEF Counts, NotCounting
  <2>2. count = 1 + (IF rate.hour = hour THEN rate.count ELSE 0) /\ count <= Limit
    BY <1>2, <1>5
  <2> HIDE DEF k, count
  <2>3. /\ submission'[d] = "counting" /\ \A e \in Designs \ {d} : submission'[e] = submission[e]
        /\ counting'[w] = k /\ \A x \in DesignWebs \ {w} : counting'[x] = counting[x]
    BY <1>3, <1>5
  <2>4. \A x \in DesignWebs : counting[x] # NotCounting => counting[x].design \in Designs \ {d}
    <3> SUFFICES ASSUME NEW x \in DesignWebs, counting[x] # NotCounting
                 PROVE  counting[x].design \in Designs \ {d}
      OBVIOUS
    <3>1. counting[x] \in Counts /\ submission[counting[x].design] = "counting"
      BY <1>3 DEF DesignInv, CountingOK, CountOK
    <3> QED BY <1>1, <3>1 DEF Counts
  <2>5. CountingOK'
    <3>1. counting' \in [DesignWebs -> Counts \cup {NotCounting}]
      BY <1>3, <1>5, <2>1
    <3>2. ASSUME NEW x \in DesignWebs, counting'[x] # NotCounting
          PROVE  /\ CountOK(counting[x])'
                 /\ \A y \in DesignWebs \ {x} : counting'[y] # NotCounting => counting'[y].design # counting'[x].design
      <4>1. CASE x = w
        <5>1. CountOK(counting[x])'
          BY <1>1, <1>2, <2>1, <2>2, <2>3, <4>1, DesignTypes DEF CountOK
        <5> QED BY <2>1, <2>3, <2>4, <4>1, <5>1
      <4>2. CASE x # w
        <5>1. /\ counting'[x] = counting[x] /\ CountOK(counting[x])
              /\ \A y \in DesignWebs \ {x} : counting[y] # NotCounting => counting[y].design # counting[x].design
          BY <2>3, <3>2, <4>2 DEF DesignInv, CountingOK
        <5>2. submission'[counting[x].design] = "counting"
          BY <2>3, <2>4, <3>2, <5>1 DEF CountOK
        <5>3. CountOK(counting[x])'
          BY <1>1, <5>1, <5>2 DEF CountOK
        <5> QED BY <2>1, <2>3, <2>4, <3>2, <5>1, <5>3
      <4> QED BY <4>1, <4>2
    <3> QED BY <3>1, <3>2 DEF CountingOK
  <2>6. RateInv'
    BY <1>1 DEF DesignInv, RateInv, Allowed, AdmittedIn
  <2>7. \A e \in Designs : StoredOK(submission'[e], design'[e])
    BY <1>1, <1>3, <2>3 DEF DesignInv, StoredOK
  <2>8. submission' \in [Designs -> SubmissionPlaces]
    BY <1>3, <1>5 DEF SubmissionPlaces
  <2>9. DesignTypeOK'
    BY <1>1, <2>8 DEF DesignInv, DesignTypeOK, SubmissionPlaces
  <2> QED BY <2>5, <2>6, <2>7, <2>9 DEF DesignInv
<1> QED BY <1>1, <1>4, <1>5

(* What an hour has admitted after one more of it, or of another hour.     *)
LEMMA OneMoreAdmitted ==
  ASSUME NEW S, NEW T, NEW d, IsFiniteSet(S), T \subseteq S \cup {d}
  PROVE  /\ IsFiniteSet(T) /\ Cardinality(T) \in Nat /\ Cardinality(S) \in Nat
         /\ Cardinality(T) <= Cardinality(S) + 1
         /\ T \subseteq S => Cardinality(T) <= Cardinality(S)
<1>1. IsFiniteSet(S \cup {d}) /\ Cardinality(S \cup {d}) <= Cardinality(S) + 1
      /\ Cardinality(S) \in Nat /\ Cardinality(S \cup {d}) \in Nat
  BY FS_AddElement, FS_CardinalityType
<1>2. IsFiniteSet(T) /\ Cardinality(T) <= Cardinality(S \cup {d}) /\ Cardinality(T) \in Nat
  BY <1>1, FS_Subset, FS_CardinalityType
<1>3. T \subseteq S => Cardinality(T) <= Cardinality(S)
  BY FS_Subset
<1> QED BY <1>1, <1>2, <1>3

LEMMA StoreStep ==
  ASSUME DesignInv, NEW w \in DesignWebs, StoreCount(w) PROVE DesignInv'
<1> DEFINE k == counting[w]
           d == k.design
<1>1. /\ k # NotCounting /\ rate' = [hour |-> k.hour, count |-> k.count]
      /\ crossed' = (crossed \/ rate # k.read)
      /\ admitted' = [admitted EXCEPT ![d] = k.hour]
      /\ submission' = [submission EXCEPT ![d] = "body"]
      /\ counting' = [counting EXCEPT ![w] = NotCounting]
      /\ UNCHANGED <<design, hour, deaths>>
  BY DEF StoreCount
<1>2. /\ k \in Counts /\ CountOK(k) /\ counting \in [DesignWebs -> Counts \cup {NotCounting}]
      /\ \A x \in DesignWebs \ {w} : counting[x] # NotCounting => counting[x].design # d
  BY <1>1 DEF DesignInv, CountingOK
<1>3. /\ d \in Designs /\ k.hour \in 1 .. MaxHours + 1 /\ k.count \in Nat /\ submission[d] = "counting"
      /\ k.hour <= hour /\ k.count <= Limit /\ k.read \in [hour : Nat, count : Nat]
      /\ k.read.hour <= k.hour /\ k.count = 1 + (IF k.read.hour = k.hour THEN k.read.count ELSE 0)
  BY <1>2 DEF Counts, CountOK
<1> HIDE DEF k, d
<1>4. /\ submission \in [Designs -> SubmissionPlaces] /\ admitted \in [Designs -> 0 .. MaxHours + 1]
      /\ crossed \in BOOLEAN /\ MaxHours \in Nat /\ Limit \in Nat
  BY DesignTypes DEF DesignInv, DesignTypeOK, SubmissionPlaces
<1>5. DesignTypeOK'
  <2>1. rate' \in [hour : Nat, count : Nat]
    BY <1>1, <1>3, <1>4
  <2>2. admitted' \in [Designs -> 0 .. MaxHours + 1]
    BY <1>1, <1>3, <1>4
  <2>3. submission' \in [Designs -> SubmissionPlaces]
    BY <1>1, <1>4 DEF SubmissionPlaces
  <2>4. crossed' \in BOOLEAN
    BY <1>1, <1>4
  <2> QED BY <1>1, <2>1, <2>2, <2>3, <2>4 DEF DesignInv, DesignTypeOK, SubmissionPlaces
<1>6. \A e \in Designs : StoredOK(submission'[e], design'[e])
  <2>1. design[d] = NoDesign
    BY <1>3 DEF DesignInv, StoredOK
  <2> QED BY <1>1, <1>3, <1>4, <2>1 DEF DesignInv, StoredOK
<1>7. CountingOK'
  <2>1. counting' \in [DesignWebs -> Counts \cup {NotCounting}]
    BY <1>1, <1>2
  <2>2. ASSUME NEW x \in DesignWebs, counting'[x] # NotCounting
        PROVE  /\ CountOK(counting[x])'
               /\ \A y \in DesignWebs \ {x} : counting'[y] # NotCounting => counting'[y].design # counting'[x].design
    <3>1. x # w /\ \A y \in DesignWebs : counting'[y] # NotCounting => counting'[y] = counting[y]
      BY <1>1, <1>2, <2>2
    <3>2. /\ counting[x] \in Counts /\ CountOK(counting[x]) /\ counting[x].design # d
          /\ \A y \in DesignWebs \ {x} : counting[y] # NotCounting => counting[y].design # counting[x].design
      BY <1>2, <2>2, <3>1 DEF DesignInv, CountingOK
    <3>3. submission'[counting[x].design] = "counting"
      BY <1>1, <1>4, <3>2 DEF Counts, CountOK
    <3>4. CountOK(counting[x])'
      BY <1>1, <2>2, <3>1, <3>2, <3>3 DEF CountOK
    <3> QED BY <2>2, <3>1, <3>2, <3>4
  <2> QED BY <2>1, <2>2 DEF CountingOK
<1>8. RateInv'
  <2>1. rate'.hour = k.hour /\ rate'.count = k.count
    BY <1>1
  <2>2. ASSUME ~ crossed', NEW h \in 1 .. MaxHours + 1
        PROVE  IsFiniteSet(AdmittedIn(h)') /\ Cardinality(AdmittedIn(h)') <= Allowed(h)'
    <3>1. /\ IsFiniteSet(AdmittedIn(h)) /\ Cardinality(AdmittedIn(h)) <= Allowed(h)
          /\ k.read = rate /\ rate.count <= Limit /\ rate.hour \in Nat /\ rate.count \in Nat
      BY <1>1, <2>2, DesignTypes DEF DesignInv, RateInv
    <3>2. AdmittedIn(h)' \subseteq AdmittedIn(h) \cup {d} /\ (h # k.hour => AdmittedIn(h)' \subseteq AdmittedIn(h))
      BY <1>1, <1>3, <1>4 DEF AdmittedIn
    <3>3. /\ IsFiniteSet(AdmittedIn(h)') /\ Cardinality(AdmittedIn(h)') \in Nat /\ Cardinality(AdmittedIn(h)) \in Nat
          /\ Cardinality(AdmittedIn(h)') <= Cardinality(AdmittedIn(h)) + 1
          /\ h # k.hour => Cardinality(AdmittedIn(h)') <= Cardinality(AdmittedIn(h))
      BY <3>1, <3>2, OneMoreAdmitted
    <3>4. Allowed(h) = (IF h > rate.hour THEN 0 ELSE IF h = rate.hour THEN rate.count ELSE Limit)
          /\ Allowed(h)' = (IF h > k.hour THEN 0 ELSE IF h = k.hour THEN k.count ELSE Limit)
      BY <2>1 DEF Allowed
    <3>5. h \in Nat /\ k.hour \in Nat
      BY <1>3, <1>4
    <3>6. CASE h = k.hour
      BY <1>3, <1>4, <3>1, <3>3, <3>4, <3>5, <3>6
    <3>7. CASE h # k.hour
      BY <1>3, <1>4, <3>1, <3>3, <3>4, <3>5, <3>7
    <3> QED BY <3>6, <3>7, <3>3
  <2>3. rate'.hour <= hour' /\ rate'.count <= Limit
    BY <1>1, <1>3, <2>1
  <2> QED BY <2>2, <2>3 DEF RateInv
<1> QED BY <1>5, <1>6, <1>7, <1>8 DEF DesignInv

LEMMA DesignStarts == DesignInit => DesignInv
<1> SUFFICES ASSUME DesignInit PROVE DesignInv
  OBVIOUS
<1>1. Limit \in Nat \ {0} /\ MaxHours \in Nat /\ MaxDeaths \in Nat
  BY DesignAssumption
<1>2. /\ design = [d \in Designs |-> NoDesign] /\ rate = [hour |-> 0, count |-> 0]
      /\ submission = [d \in Designs |-> "new"] /\ counting = [w \in DesignWebs |-> NotCounting]
      /\ hour = 1 /\ admitted = [d \in Designs |-> 0] /\ crossed = FALSE /\ deaths = 0
  BY DEF DesignInit
<1>3. DesignTypeOK
  <2>1. NoDesign \in Stored
    BY DEF NoDesign, Stored
  <2>2. hour \in 1 .. MaxHours + 1 /\ 0 \in 0 .. MaxHours + 1 /\ deaths \in 0 .. MaxDeaths
    BY <1>1, <1>2
  <2> QED BY <1>2, <2>1, <2>2 DEF DesignTypeOK, Stored
<1>4. RateInv
  <2>1. ASSUME NEW h \in 1 .. MaxHours + 1 PROVE AdmittedIn(h) = {}
    BY <1>1, <1>2 DEF AdmittedIn
  <2>2. ASSUME NEW h \in 1 .. MaxHours + 1 PROVE Allowed(h) = 0
    BY <1>1, <1>2 DEF Allowed
  <2> QED BY <1>1, <1>2, <2>1, <2>2, FS_EmptySet DEF RateInv
<1>5. CountingOK /\ \A d \in Designs : StoredOK(submission[d], design[d])
  BY <1>2 DEF CountingOK, StoredOK
<1> QED BY <1>3, <1>4, <1>5 DEF DesignInv

LEMMA DesignKeeps == DesignInv /\ [DesignNext]_designVars => DesignInv'
<1> SUFFICES ASSUME DesignInv, [DesignNext]_designVars PROVE DesignInv'
  OBVIOUS
<1>1. CASE UNCHANGED designVars
  <2>1. UNCHANGED <<design, rate, submission, counting, hour, admitted, crossed, deaths>>
    BY <1>1 DEF designVars
  <2>2. DesignTypeOK' /\ \A d \in Designs : StoredOK(submission'[d], design'[d])
    BY <2>1 DEF DesignInv, DesignTypeOK
  <2> QED BY <2>1, <2>2, CountsStay DEF DesignInv
<1> QED BY <1>1, HourStep, CheckStep, StoreStep, PreviewStep DEF DesignNext

LEMMA DesignHolds == DesignInv => DesignTypeOK /\ ReadyHasAudio /\ RateHolds
<1> SUFFICES ASSUME DesignInv PROVE DesignTypeOK /\ ReadyHasAudio /\ RateHolds
  OBVIOUS
<1>1. ReadyHasAudio
  <2> SUFFICES ASSUME NEW d \in Designs, design[d].status = "ready" PROVE design[d].audio
    BY DEF ReadyHasAudio
  <2>1. StoredOK(submission[d], design[d]) /\ submission[d] \in SubmissionPlaces
    BY DEF DesignInv, DesignTypeOK, SubmissionPlaces
  <2> QED BY <2>1 DEF StoredOK, SubmissionPlaces, NoDesign
<1>2. RateHolds
  <2> SUFFICES ASSUME ~ crossed, NEW h \in 1 .. MaxHours + 1 PROVE Cardinality(AdmittedIn(h)) <= Limit
    BY DEF RateHolds, AdmittedIn
  <2>1. IsFiniteSet(AdmittedIn(h)) /\ Cardinality(AdmittedIn(h)) <= Allowed(h) /\ rate.count <= Limit
    BY DEF DesignInv, RateInv
  <2>2. Cardinality(AdmittedIn(h)) \in Nat /\ rate.count \in Nat /\ Limit \in Nat
    BY <2>1, FS_CardinalityType, DesignTypes
  <2> QED BY <2>1, <2>2 DEF Allowed
<1> QED BY <1>1, <1>2 DEF DesignInv

(* What whoever polls is shown of the previews.                            *)
Previews == [d \in Designs |-> DesignPhase(d)]

(* A step of one submission moves what is shown of that one.               *)
LEMMA PreviewMoves ==
  ASSUME NEW d \in Designs, \A e \in Designs \ {d} : submission'[e] = submission[e] /\ design'[e] = design[e]
  PROVE  Previews' = [Previews EXCEPT ![d] = DesignPhase(d)']
BY DEF Previews, DesignPhase

(* Every step is one of the promise or shows nothing.                      *)
LEMMA DesignShows ==
  ASSUME DesignInv, [DesignNext]_designVars
  PROVE  \/ Previews' = Previews
         \/ \E d \in Designs : Previews[d] = "none" /\ Previews' = [Previews EXCEPT ![d] = "queued"]
         \/ \E d \in Designs : Previews[d] = "queued" /\ Previews' = [Previews EXCEPT ![d] = "running"]
         \/ \E d \in Designs, p \in {"done", "failed"} :
              Previews[d] = "running" /\ Previews' = [Previews EXCEPT ![d] = p]
         \/ \E d \in Designs : Previews[d] = "queued" /\ Previews' = [Previews EXCEPT ![d] = "gone"]
<1> DEFINE Goal == \/ Previews' = Previews
                   \/ \E d \in Designs : Previews[d] = "none" /\ Previews' = [Previews EXCEPT ![d] = "queued"]
                   \/ \E d \in Designs : Previews[d] = "queued" /\ Previews' = [Previews EXCEPT ![d] = "running"]
                   \/ \E d \in Designs, p \in {"done", "failed"} :
                        Previews[d] = "running" /\ Previews' = [Previews EXCEPT ![d] = p]
                   \/ \E d \in Designs : Previews[d] = "queued" /\ Previews' = [Previews EXCEPT ![d] = "gone"]
<1>0. /\ submission \in [Designs -> SubmissionPlaces]
      /\ design \in [Designs -> [status : {"none", "queued", "running", "ready", "failed"}, audio : BOOLEAN]]
  BY DEF DesignInv, DesignTypeOK, SubmissionPlaces
<1>1. \A d \in Designs : StoredOK(submission[d], design[d])
  BY DEF DesignInv
<1>2. ASSUME NEW d \in Designs, NEW p, submission[d] # "unspawned", p # "unspawned",
             submission' = [submission EXCEPT ![d] = p], design' = design
      PROVE  Previews' = Previews
  <2>1. \A e \in Designs : DesignPhase(e)' = DesignPhase(e)
    BY <1>0, <1>2 DEF DesignPhase
  <2> QED BY <2>1 DEF Previews
<1>3. ASSUME UNCHANGED <<submission, design>> PROVE Previews' = Previews
  BY <1>3 DEF Previews, DesignPhase
<1>4. CASE NextHour \/ UNCHANGED designVars
  BY <1>3, <1>4 DEF NextHour, designVars
<1>5. ASSUME NEW w \in DesignWebs, StoreCount(w) PROVE Goal
  <2>1. /\ counting[w] # NotCounting /\ design' = design
        /\ submission' = [submission EXCEPT ![counting[w].design] = "body"]
    BY <1>5 DEF StoreCount
  <2>2. counting[w] \in Counts /\ submission[counting[w].design] = "counting"
    BY <2>1 DEF DesignInv, CountingOK, CountOK
  <2>3. counting[w].design \in Designs
    BY <2>2 DEF Counts
  <2> QED BY <1>2, <2>1, <2>2, <2>3
<1>6. ASSUME NEW w \in DesignWebs, NEW d \in Designs, CheckRateLimit(w, d) PROVE Goal
  <2>1. PICK p \in {"refused", "counting"} :
          submission[d] = "new" /\ submission' = [submission EXCEPT ![d] = p] /\ design' = design
    BY <1>6 DEF CheckRateLimit
  <2> QED BY <1>2, <2>1
<1>7. ASSUME NEW d \in Designs, CreateDesign(d) PROVE Goal
  <2>1. submission[d] = "body"
    BY <1>7 DEF CreateDesign
  <2>2. CASE submission' = [submission EXCEPT ![d] = "invalid"] /\ UNCHANGED design
    BY <1>2, <2>1, <2>2
  <2>3. CASE submission' = [submission EXCEPT ![d] = "spawn"] /\ design' = [design EXCEPT ![d].status = "queued"]
    <3>1. design[d] = NoDesign
      BY <1>1, <2>1 DEF StoredOK
    <3>2. DesignPhase(d) = "none" /\ DesignPhase(d)' = "queued"
      BY <1>0, <2>1, <2>3, <3>1 DEF DesignPhase, NoDesign
    <3>3. \A e \in Designs \ {d} : submission'[e] = submission[e] /\ design'[e] = design[e]
      BY <1>0, <2>3
    <3> QED BY <3>2, <3>3, PreviewMoves DEF Previews
  <2> QED BY <1>7, <2>2, <2>3 DEF CreateDesign
<1>8. ASSUME NEW d \in Designs, SpawnDesign(d) PROVE Goal
  <2>1. submission[d] = "spawn"
    BY <1>8 DEF SpawnDesign
  <2>2. CASE submission' = [submission EXCEPT ![d] = "spawned"] /\ UNCHANGED design
    BY <1>2, <2>1, <2>2
  <2>3. CASE submission' = [submission EXCEPT ![d] = "unspawned"] /\ design' = [design EXCEPT ![d] = NoDesign]
    <3>1. design[d].status = "queued"
      BY <1>1, <2>1 DEF StoredOK
    <3>2. DesignPhase(d) = "queued" /\ DesignPhase(d)' = "gone"
      BY <1>0, <2>1, <2>3, <3>1 DEF DesignPhase
    <3>3. \A e \in Designs \ {d} : submission'[e] = submission[e] /\ design'[e] = design[e]
      BY <1>0, <2>3
    <3> QED BY <3>2, <3>3, PreviewMoves DEF Previews
  <2> QED BY <1>8, <2>2, <2>3 DEF SpawnDesign
<1>9. ASSUME NEW d \in Designs, NEW from, NEW to \in SubmissionPlaces \ {"unspawned"}, NEW status, Generation(d, from, to, status),
             from # "unspawned"
      PROVE  /\ submission[d] = from /\ StoredOK(from, design[d])
             /\ DesignPhase(d) = (IF design[d].status = "ready" THEN "done" ELSE design[d].status)
             /\ DesignPhase(d)' = (IF status.status = "ready" THEN "done" ELSE status.status)
             /\ Previews' = [Previews EXCEPT ![d] = DesignPhase(d)']
  <2>1. /\ submission[d] = from /\ submission' = [submission EXCEPT ![d] = to] /\ design' = [design EXCEPT ![d] = status]
    BY <1>9 DEF Generation
  <2>2. submission'[d] = to /\ design'[d] = status
    BY <1>0, <2>1
  <2>3. \A e \in Designs \ {d} : submission'[e] = submission[e] /\ design'[e] = design[e]
    BY <1>0, <2>1
  <2> QED BY <1>1, <1>9, <2>1, <2>2, <2>3, PreviewMoves DEF DesignPhase
<1> USE DEF SubmissionPlaces
<1>10. ASSUME NEW d \in Designs, Generate(d) PROVE Goal
  <2>1. Generation(d, "spawned", "generating", [design[d] EXCEPT !.status = "running"])
    BY <1>10 DEF Generate
  <2>2. [design[d] EXCEPT !.status = "running"].status = "running"
    BY <1>0
  <2>3. DesignPhase(d) = "queued" /\ DesignPhase(d)' = "running" /\ Previews' = [Previews EXCEPT ![d] = DesignPhase(d)']
    BY <1>9, <2>1, <2>2 DEF StoredOK
  <2> QED BY <2>3 DEF Previews
<1>11. ASSUME NEW d \in Designs, WriteAudio(d) PROVE Goal
  <2>1. PICK committed \in BOOLEAN : Generation(d, "generating", "written", [design[d] EXCEPT !.audio = committed])
    BY <1>11 DEF WriteAudio
  <2>2. [design[d] EXCEPT !.audio = committed].status = design[d].status
    BY <1>0
  <2> DEFINE s == [design[d] EXCEPT !.audio = committed]
  <2>3. Generation(d, "generating", "written", s) /\ s.status = design[d].status
    BY <2>1, <2>2
  <2> HIDE DEF s
  <2>4. DesignPhase(d)' = DesignPhase(d) /\ Previews' = [Previews EXCEPT ![d] = DesignPhase(d)']
    BY <1>9, <2>3
  <2>5. Previews' = Previews
    BY <2>4 DEF Previews
  <2> QED BY <2>5
<1>12. ASSUME NEW d \in Designs, Ready(d) PROVE Goal
  <2>1. Generation(d, "written", "over", [status |-> "ready", audio |-> TRUE])
    BY <1>12 DEF Ready
  <2>2. DesignPhase(d) = "running" /\ DesignPhase(d)' = "done" /\ Previews' = [Previews EXCEPT ![d] = DesignPhase(d)']
    BY <1>9, <2>1 DEF StoredOK
  <2> QED BY <2>2 DEF Previews
<1>13. ASSUME NEW d \in Designs, FailDesign(d) PROVE Goal
  <2>1. PICK from \in {"generating", "written"}, audio \in BOOLEAN :
          Generation(d, from, "over", [status |-> "failed", audio |-> design[d].audio \/ audio])
    BY <1>13 DEF FailDesign
  <2> DEFINE s == [status |-> "failed", audio |-> design[d].audio \/ audio]
  <2>2. Generation(d, from, "over", s) /\ s.status = "failed"
    BY <2>1
  <2> HIDE DEF s
  <2>3. DesignPhase(d) = "running" /\ DesignPhase(d)' = "failed" /\ Previews' = [Previews EXCEPT ![d] = DesignPhase(d)']
    BY <1>9, <2>2 DEF StoredOK
  <2> QED BY <2>3 DEF Previews
<1>14. ASSUME NEW d \in Designs, DieGenerating(d) PROVE Goal
  BY <1>2, <1>14 DEF DieGenerating
<1> QED
  BY <1>4, <1>5, <1>6, <1>7, <1>8, <1>10, <1>11, <1>12, <1>13, <1>14 DEF DesignNext, GenerateStep

(* What is shown of the previews is what JobPromise says of any job        *)
(* service: also what could not be spawned is gone and stays so.           *)
LEMMA DesignPromised ==
  /\ DesignInit => DesignPromise!Init
  /\ DesignInv /\ [DesignNext]_designVars => [DesignPromise!Next]_<<Previews, 0>>
<1>1. ASSUME DesignInit PROVE DesignPromise!Init
  <2>1. \A d \in Designs : DesignPhase(d) = "none"
    BY <1>1 DEF DesignInit, NoDesign, DesignPhase
  <2> QED BY <2>1 DEF DesignPromise!Init
<1>2. ASSUME DesignInv, [DesignNext]_designVars PROVE [DesignPromise!Next]_<<Previews, 0>>
  <2>1. CASE Previews' = Previews
    BY <2>1
  <2>2. CASE \E d \in Designs : Previews[d] = "none" /\ Previews' = [Previews EXCEPT ![d] = "queued"]
    BY <2>2 DEF DesignPromise!Next, DesignPromise!Accept, DesignPromise!Become, Previews
  <2>3. CASE \E d \in Designs : Previews[d] = "queued" /\ Previews' = [Previews EXCEPT ![d] = "running"]
    BY <2>3 DEF DesignPromise!Next, DesignPromise!Start, DesignPromise!Become, Previews
  <2>4. CASE \E d \in Designs, p \in {"done", "failed"} :
               Previews[d] = "running" /\ Previews' = [Previews EXCEPT ![d] = p]
    BY <2>4 DEF DesignPromise!Next, DesignPromise!Settle, DesignPromise!Become, Previews
  <2>5. CASE \E d \in Designs : Previews[d] = "queued" /\ Previews' = [Previews EXCEPT ![d] = "gone"]
    BY <2>5 DEF DesignPromise!Next, DesignPromise!Remove, DesignPromise!Become, Previews
  <2> QED BY <1>2, <2>1, <2>2, <2>3, <2>4, <2>5, DesignShows
<1> QED BY <1>1, <1>2

-----------------------------------------------------------------------------
(* The services side by side, as MCJobs runs them: each behaves as it does *)
(* alone.                                                                  *)
XttsSpec   == XttsInit /\ [][XttsNext]_xttsVars
FishSpec   == FishInit /\ [][FishNext]_fishVars
DesignSpec == DesignInit /\ [][DesignNext]_designVars

LEMMA EachServes ==
  Spec => ConvertSpec /\ DubSpec /\ IntakeSpec /\ DesignSpec /\ XttsSpec /\ FishSpec
<1>1. Init => ConvertInit /\ DubInit /\ IntakeInit /\ DesignInit /\ XttsInit /\ FishInit
  BY DEF Init
<1>2. [Next]_vars => [ConvertNext]_convertVars
  BY DEF Next, vars, Convert, Dub, Intake, Design, Xtts, Fish
<1>3. [Next]_vars => [DubNext]_dubVars
  BY DEF Next, vars, Convert, Dub, Intake, Design, Xtts, Fish
<1>4. [Next]_vars => [IntakeNext]_intakeVars
  BY DEF Next, vars, Convert, Dub, Intake, Design, Xtts, Fish
<1>5. [Next]_vars => [DesignNext]_designVars
  BY DEF Next, vars, Convert, Dub, Intake, Design, Xtts, Fish, drafts
<1>6. [Next]_vars => [XttsNext]_xttsVars
  BY DEF Next, vars, Convert, Dub, Intake, Design, Xtts, Fish, drafts
<1>7. [Next]_vars => [FishNext]_fishVars
  BY DEF Next, vars, Convert, Dub, Intake, Design, Xtts, Fish, drafts
<1> QED
  BY <1>1, <1>2, <1>3, <1>4, <1>5, <1>6, <1>7, PTL
     DEF Spec, ConvertSpec, DubSpec, IntakeSpec, DesignSpec, XttsSpec, FishSpec

(* A preview that is ready has its audio; an hour admits no more previews  *)
(* than the limit unless two containers stored their counts across each    *)
(* other; an XTTS voice that reads ready can speak and one whose deletion  *)
(* was confirmed stays deleted unless a container still held a clone of    *)
(* it; and Fish speaks no recording with the text of another.              *)
THEOREM DraftsAreHeld == Spec => []DraftsHold
<1>1. FishInv => FishTypeOK /\ SpokenAsGiven
  <2> SUFFICES ASSUME FishInv PROVE FishTypeOK /\ SpokenAsGiven
    OBVIOUS
  <2>1. \A c \in FishGpus : fish[c].cache \in [References -> Pairs] /\ fish[c].dirty \in SUBSET References
    BY FishTypes
  <2> QED BY <2>1 DEF FishInv, FishTypeOK, Pairs
<1>2. DesignInv /\ XttsInv /\ FishInv => DraftsHold
  BY <1>1, DesignHolds, XttsHolds DEF DraftsHold
<1>3. DesignSpec => []DesignInv
  BY DesignStarts, DesignKeeps, PTL DEF DesignSpec
<1>4. XttsSpec => []XttsInv
  BY XttsStarts, XttsKeeps, PTL DEF XttsSpec
<1>5. FishSpec => []FishInv
  BY FishStarts, FishKeeps, PTL DEF FishSpec
<1> QED
  BY <1>2, <1>3, <1>4, <1>5, EachServes, PTL

(* The three services whose jobs are polled keep the one promise that      *)
(* JobPromise states; only dubbing may go back on done.                    *)
THEOREM PromisesAreKept == Spec => JobsKeepPromise
<1>1. DesignSpec => DesignKeepsPromise
  BY DesignStarts, DesignKeeps, DesignPromised, PTL
     DEF DesignSpec, DesignKeepsPromise, DesignPromise!Spec, Previews
<1> QED
  BY <1>1, EachServes, ConvertIsPromised, DubbingIsPromised DEF JobsKeepPromise
=============================================================================
