------------------------ MODULE PersistedQueue_proofs ------------------------
(***************************************************************************)
(* Proofs about PersistedQueue, for all items, sizes, limits and faults.   *)
(***************************************************************************)
EXTENDS PersistedQueue, DataLemmas

Pushing == {"limit", "room", "write"}

(* What every step of the queue preserves, whoever calls it.  An entry has *)
(* one file; the entry being pushed has none yet; a returned entry has     *)
(* none any more.                                                          *)
OneFile == \A f, g \in disk : f.item = g.item => f = g
CallHasNoFile == \A f \in disk \cup ToSet(entries) : f.item # call.item
HandedHasNoFile == call.item \notin handed /\ \A f \in disk : f.item \notin handed
CallShape ==
    /\ pc \in Pushing => call.item \in Items /\ DiskSize[call.item] <= MaxOnDiskBytes
    /\ pc \notin Pushing => call = NoCall

DiskInv ==
    /\ TypeOK
    /\ IsFiniteSet(disk)
    /\ Distinct(entries)
    /\ NoUnderflow
    /\ OneFile
    /\ CallHasNoFile
    /\ HandedHasNoFile
    /\ CallShape

(* The entries the queue has to do with. *)
Known == ItemsOf(disk) \cup ItemsOf(ToSet(entries)) \cup handed

-----------------------------------------------------------------------------
(* The facts about byte counts that the proofs use. *)

LEMMA FileSizeType == FileSize \in [Files -> Nat]
  BY DEF FileSize, Files

LEMMA BytesOfType ==
  ASSUME NEW D \in SUBSET Files, IsFiniteSet(D)
  PROVE  BytesOf(D) \in Nat
  BY FileSizeType, WeighType DEF BytesOf

LEMMA BytesOfAdd ==
  ASSUME NEW D \in SUBSET Files, IsFiniteSet(D), NEW f \in Files, f \notin D
  PROVE  BytesOf(D \cup {f}) = BytesOf(D) + f.size
<1>1. FileSize[f] = f.size
  BY DEF FileSize
<1> QED BY <1>1, FileSizeType, WeighAdd DEF BytesOf

LEMMA BytesOfRemove ==
  ASSUME NEW D \in SUBSET Files, IsFiniteSet(D), NEW f \in D
  PROVE  BytesOf(D \ {f}) = BytesOf(D) - f.size
<1>1. FileSize[f] = f.size
  BY DEF FileSize
<1> QED BY <1>1, FileSizeType, WeighRemove DEF BytesOf

LEMMA BytesOfEmpty == BytesOf({}) = 0
  BY WeighEmpty DEF BytesOf

(* A scan lists every file of the directory exactly once. *)
LEMMA ScanProperties ==
  ASSUME NEW D \in SUBSET Files, IsFiniteSet(D), NEW s \in Scans(D)
  PROVE  /\ s \in Seq(Files)
         /\ Distinct(s)
         /\ ToSet(s) = D
<1> DEFINE n == Cardinality(D)
<1>1. n \in Nat
  BY FS_CardinalityType
<1>2. s \in [1 .. n -> D] /\ \A i, j \in 1 .. n : i # j => s[i] # s[j]
  BY DEF Scans, SetToSeqs
<1>3. s \in Seq(Files) /\ Len(s) = n
  BY <1>1, <1>2
<1>4. Distinct(s)
  BY <1>2, <1>3 DEF Distinct
<1>5. ToSet(s) = D
  <2>1. s \in Injection(1 .. n, D)
    BY <1>2 DEF Injection, IsInjective
  <2>2. IsFiniteSet(1 .. n) /\ Cardinality(1 .. n) = n
    BY <1>1, FS_Interval
  <2>3. s \in Surjection(1 .. n, D)
    BY <2>1, <2>2, FS_Injection
  <2>4. \A f \in D : \E i \in 1 .. n : s[i] = f
    BY <2>3 DEF Surjection
  <2> QED BY <2>4, <1>2 DEF ToSet
<1> QED BY <1>3, <1>4, <1>5

LEMMA LimitType ==
  ASSUME DiskInv, NEW other \in OtherUse
  PROVE  /\ OnDiskBytesLimit(other) \in Nat
         /\ OnDiskBytesLimit(other) <= MaxOnDiskBytes
<1>1. BytesOf(disk) \in Nat
  BY BytesOfType DEF DiskInv, TypeOK
<1> DEFINE available == VolumeBudget - other - BytesOf(disk)
           clamped == IF available < 0 THEN 0 ELSE available
<1>2. /\ MaxOnDiskBytes \in Nat
      /\ clamped \in Nat
  BY <1>1, ConstantsAssumption
<1>3. OnDiskBytesLimit(other) = Min({MaxOnDiskBytes, clamped})
  BY DEF OnDiskBytesLimit
<1>4. \A a, b \in Nat : Min({a, b}) \in Nat /\ Min({a, b}) <= a
  BY DEF Min
<1> HIDE DEF clamped
<1> QED BY <1>2, <1>3, <1>4

-----------------------------------------------------------------------------
(* Each step keeps DiskInv. *)

LEMMA HeadLeaves ==
  ASSUME DiskInv, entries # <<>>, Dequeue
  PROVE  /\ Head(entries) \in Files
         /\ Head(entries) \in ToSet(entries)
         /\ entries' \in Seq(Files)
         /\ Distinct(entries')
         /\ ToSet(entries') = ToSet(entries) \ {Head(entries)}
         /\ BytesOf(ToSet(entries)) \in Nat
         /\ BytesOf(ToSet(entries')) = BytesOf(ToSet(entries)) - Head(entries).size
<1>1. entries \in Seq(Files) /\ Distinct(entries)
  BY DEF DiskInv, TypeOK
<1>2. ToSet(entries) \in SUBSET Files /\ IsFiniteSet(ToSet(entries))
  BY <1>1, ToSetElements, ToSetFinite
<1>3. /\ Head(entries) \in ToSet(entries)
      /\ Tail(entries) \in Seq(Files)
      /\ ToSet(Tail(entries)) = ToSet(entries) \ {Head(entries)}
      /\ Distinct(Tail(entries))
  BY <1>1, ToSetTail
<1>4. /\ BytesOf(ToSet(entries)) \in Nat
      /\ BytesOf(ToSet(entries) \ {Head(entries)}) = BytesOf(ToSet(entries)) - Head(entries).size
  BY <1>2, <1>3, BytesOfType, BytesOfRemove
<1> QED BY <1>2, <1>3, <1>4 DEF Dequeue

LEMMA PushTooLargeKeeps ==
  ASSUME DiskInv, NEW i \in Items, PushTooLarge(i)
  PROVE  DiskInv'
  BY ConstantsAssumption
  DEF DiskInv, TypeOK, NoUnderflow, OneFile, CallHasNoFile, HandedHasNoFile, CallShape,
      PushTooLarge, Return, NoCall, Pushing, Running, queueVars, Files

LEMMA PushBeginKeeps ==
  ASSUME DiskInv, NEW i \in Items, i \notin Known, PushBegin(i)
  PROVE  DiskInv'
<1>1. TypeOK'
  BY ConstantsAssumption DEF DiskInv, TypeOK, PushBegin, NoCall, Running, queueVars
<1>2. CallHasNoFile' /\ HandedHasNoFile'
  BY DEF DiskInv, CallHasNoFile, HandedHasNoFile, Known, ItemsOf, PushBegin, NoCall, queueVars
<1> QED
  BY <1>1, <1>2 DEF DiskInv, NoUnderflow, OneFile, CallShape, PushBegin, NoCall, Pushing, queueVars

LEMMA LimitReadKeeps ==
  ASSUME DiskInv, LimitRead
  PROVE  DiskInv'
<1>1. PICK other \in OtherUse : call' = [call EXCEPT !.limit = OnDiskBytesLimit(other)]
  BY DEF LimitRead
<1>2. OnDiskBytesLimit(other) \in Nat
  BY LimitType
<1>3. TypeOK' /\ call'.item = call.item
  BY <1>1, <1>2 DEF DiskInv, TypeOK, LimitRead, Running, queueVars, history
<1> QED
  BY <1>3 DEF DiskInv, NoUnderflow, OneFile, CallHasNoFile, HandedHasNoFile, CallShape, LimitRead,
              Pushing, queueVars, history

LEMMA LimitFailsKeeps ==
  ASSUME DiskInv, LimitFails
  PROVE  DiskInv'
<1>1. call.item \in Items /\ NoCall.item \notin Items
  BY ConstantsAssumption DEF DiskInv, CallShape, LimitFails, Pushing, NoCall
<1>2. TypeOK'
  BY <1>1 DEF DiskInv, TypeOK, LimitFails, Return, NoCall, Running, queueVars
<1>3. CallHasNoFile' /\ HandedHasNoFile'
  <2>1. \A f \in disk \cup ToSet(entries) : f \in Files
    BY ToSetElements DEF DiskInv, TypeOK
  <2> QED BY <1>1, <2>1 DEF DiskInv, TypeOK, CallHasNoFile, HandedHasNoFile, LimitFails, Return, queueVars, Files
<1> QED
  BY <1>2, <1>3 DEF DiskInv, NoUnderflow, OneFile, CallShape, LimitFails, Return, Pushing, queueVars

LEMMA EvictKeeps ==
  ASSUME DiskInv, Evict
  PROVE  DiskInv'
<1> DEFINE e == Head(entries)
<1>1. entries # <<>> /\ Dequeue /\ pc' = pc /\ handed' = handed /\ ret' = ret /\ now' = now /\ pushed' = pushed /\ lost' = lost
  BY DEF Evict, MustEvict
<1>2. /\ e \in Files
      /\ e \in ToSet(entries)
      /\ entries' \in Seq(Files)
      /\ Distinct(entries')
      /\ ToSet(entries') = ToSet(entries) \ {e}
      /\ BytesOf(ToSet(entries)) \in Nat
      /\ BytesOf(ToSet(entries')) = BytesOf(ToSet(entries)) - e.size
  BY <1>1, HeadLeaves
<1>3. /\ disk' \subseteq disk
      /\ total_on_disk_bytes' \in {total_on_disk_bytes, total_on_disk_bytes - e.size}
      /\ call'.item = call.item
      /\ call' \in [item : Items \cup {NoItem}, ts : Nat, limit : Nat, evicted : SUBSET Items]
      /\ entries_dropped' \subseteq Items
      /\ told' \subseteq Items
  BY <1>2 DEF Evict, Consumed, Missing, Unusable, RemoveFile, DiskInv, TypeOK, Files
<1>4. pc \in Pushing
  BY DEF Evict, Pushing
<1>5. IsFiniteSet(disk')
  BY <1>3, FS_Subset DEF DiskInv
<1>6. NoUnderflow' /\ total_on_disk_bytes' \in Int
  <2>1. e.size \in Nat /\ total_on_disk_bytes \in Int
    BY <1>2 DEF Files, DiskInv, TypeOK
  <2> QED BY <2>1, <1>2, <1>3 DEF DiskInv, NoUnderflow
<1>7. TypeOK'
  BY <1>1, <1>2, <1>3, <1>6 DEF DiskInv, TypeOK
<1> QED
  BY <1>1, <1>2, <1>3, <1>4, <1>5, <1>6, <1>7
  DEF DiskInv, OneFile, CallHasNoFile, HandedHasNoFile, CallShape

LEMMA RoomReadyKeeps ==
  ASSUME DiskInv, RoomReady
  PROVE  DiskInv'
  BY DEF DiskInv, TypeOK, NoUnderflow, OneFile, CallHasNoFile, HandedHasNoFile, CallShape, RoomReady,
         Pushing, Running, queueVars, history

(* Between calls there is no item in progress that could have a file. *)
LEMMA NoCallFits ==
  /\ \A f \in Files : f.item # NoCall.item
  /\ NoCall.item \notin Items
  /\ NoCall \in [item : Items \cup {NoItem}, ts : Nat, limit : Nat, evicted : SUBSET Items]
  BY ConstantsAssumption DEF NoCall, Files

LEMMA EntriesAreFiles ==
  ASSUME DiskInv
  PROVE  /\ ToSet(entries) \in SUBSET Files
         /\ IsFiniteSet(ToSet(entries))
         /\ BytesOf(ToSet(entries)) \in Nat
<1>1. entries \in Seq(Files)
  BY DEF DiskInv, TypeOK
<1>2. ToSet(entries) \in SUBSET Files /\ IsFiniteSet(ToSet(entries))
  BY <1>1, ToSetElements, ToSetFinite
<1> QED BY <1>2, BytesOfType

LEMMA WriteOkKeeps ==
  ASSUME DiskInv, WriteOk
  PROVE  DiskInv'
<1> DEFINE f == FileOf(call.item, call.ts, DiskSize[call.item])
<1>1. call.item \in Items
  BY DEF WriteOk, DiskInv, CallShape, Pushing
<1>2. f \in Files /\ f.item = call.item /\ f.size \in Nat
  BY <1>1, ConstantsAssumption DEF DiskInv, TypeOK, FileOf, Files
<1>3. f \notin disk /\ f \notin ToSet(entries)
  BY <1>2 DEF DiskInv, CallHasNoFile
<1>4. /\ disk' = disk \cup {f}
      /\ entries' = Append(entries, f)
      /\ total_on_disk_bytes' = total_on_disk_bytes + f.size
      /\ pc' = "idle" /\ call' = NoCall /\ ret' = "ok"
      /\ told' = told \cup call.evicted
      /\ UNCHANGED <<entries_dropped, now, pushed, handed, lost>>
  BY DEF WriteOk, Enlist, Return, PushResult
<1> HIDE DEF f
<1>5. /\ entries' \in Seq(Files)
      /\ Distinct(entries')
      /\ ToSet(entries') = ToSet(entries) \cup {f}
  BY <1>2, <1>3, <1>4, ToSetAppend DEF DiskInv, TypeOK
<1>6. BytesOf(ToSet(entries')) = BytesOf(ToSet(entries)) + f.size
  BY <1>2, <1>3, <1>5, EntriesAreFiles, BytesOfAdd
<1>7. NoUnderflow' /\ total_on_disk_bytes' \in Int
  BY <1>2, <1>4, <1>6, EntriesAreFiles DEF DiskInv, NoUnderflow, TypeOK
<1>8. IsFiniteSet(disk')
  BY <1>4, FS_AddElement DEF DiskInv
<1>9. TypeOK'
  BY <1>2, <1>4, <1>5, <1>7, NoCallFits DEF DiskInv, TypeOK
<1>10. OneFile'
  BY <1>2, <1>4 DEF DiskInv, OneFile, CallHasNoFile
<1>11. CallHasNoFile' /\ HandedHasNoFile'
  BY <1>2, <1>4, <1>5, NoCallFits, EntriesAreFiles
  DEF DiskInv, TypeOK, CallHasNoFile, HandedHasNoFile
<1>12. CallShape'
  BY <1>4 DEF CallShape, Pushing
<1> QED BY <1>5, <1>7, <1>8, <1>9, <1>10, <1>11, <1>12 DEF DiskInv

(* A file left by an interrupted write is the only one of its entry. *)
LEMMA WriteLeavesFits ==
  ASSUME DiskInv, pc = "write", NEW D \in WriteLeaves
  PROVE  /\ D \subseteq Files
         /\ IsFiniteSet(D)
         /\ \A f, g \in D : f.item = g.item => f = g
         /\ \A f \in D : f.item \notin handed
<1>1. call.item \in Items /\ call.item \notin handed
  BY DEF DiskInv, CallShape, HandedHasNoFile, Pushing
<1>2. CASE D = disk
  BY <1>2 DEF DiskInv, TypeOK, OneFile, HandedHasNoFile
<1>3. ASSUME NEW n \in 0 .. DiskSize[call.item], D = disk \cup {FileOf(call.item, call.ts, n)}
      PROVE  /\ D \subseteq Files
             /\ IsFiniteSet(D)
             /\ \A f, g \in D : f.item = g.item => f = g
             /\ \A f \in D : f.item \notin handed
  <2> DEFINE f == FileOf(call.item, call.ts, n)
  <2>1. f \in Files /\ f.item = call.item
    BY <1>1, ConstantsAssumption DEF DiskInv, TypeOK, FileOf, Files
  <2>2. D = disk \cup {f}
    BY <1>3
  <2> HIDE DEF f
  <2>3. D \subseteq Files /\ IsFiniteSet(D)
    BY <2>1, <2>2, FS_AddElement DEF DiskInv, TypeOK
  <2>4. \A g \in disk : g.item # f.item
    BY <2>1 DEF DiskInv, CallHasNoFile
  <2> QED BY <1>1, <2>1, <2>2, <2>3, <2>4 DEF DiskInv, OneFile, HandedHasNoFile
<1> QED BY <1>2, <1>3 DEF WriteLeaves

LEMMA WriteFailsKeeps ==
  ASSUME DiskInv, WriteFails
  PROVE  DiskInv'
<1>1. /\ disk' \subseteq Files
      /\ IsFiniteSet(disk')
      /\ OneFile'
      /\ \A f \in disk' : f.item \notin handed
  BY WriteLeavesFits DEF WriteFails, OneFile
<1>2. call.item \in Items
  BY DEF WriteFails, DiskInv, CallShape, Pushing
<1>3. /\ pc' = "idle" /\ call' = NoCall /\ ret' = "err"
      /\ told' = told \cup {call.item}
      /\ UNCHANGED <<queueVars, now, pushed, handed, lost>>
  BY DEF WriteFails, Return
<1>4. TypeOK'
  BY <1>1, <1>2, <1>3, NoCallFits DEF DiskInv, TypeOK, queueVars
<1>5. CallHasNoFile' /\ HandedHasNoFile'
  BY <1>1, <1>3, NoCallFits, EntriesAreFiles
  DEF DiskInv, TypeOK, CallHasNoFile, HandedHasNoFile, queueVars
<1> QED
  BY <1>1, <1>3, <1>4, <1>5 DEF DiskInv, NoUnderflow, CallShape, Pushing, queueVars

LEMMA PopBeginKeeps ==
  ASSUME DiskInv, PopBegin
  PROVE  DiskInv'
  BY DEF DiskInv, TypeOK, NoUnderflow, OneFile, CallHasNoFile, HandedHasNoFile, CallShape, PopBegin,
         Pushing, Running, queueVars, history

LEMMA PopHeadKeeps ==
  ASSUME DiskInv, PopHead
  PROVE  DiskInv'
<1> DEFINE e == Head(entries)
<1>1. /\ entries # <<>> /\ Dequeue /\ pc = "pop"
      /\ now' = now /\ pushed' = pushed /\ lost' = lost
  BY DEF PopHead
<1>2. /\ e \in Files
      /\ entries' \in Seq(Files)
      /\ Distinct(entries')
      /\ ToSet(entries') = ToSet(entries) \ {e}
      /\ BytesOf(ToSet(entries)) \in Nat
      /\ BytesOf(ToSet(entries')) = BytesOf(ToSet(entries)) - e.size
  BY <1>1, HeadLeaves
<1>3. call = NoCall
  BY <1>1 DEF DiskInv, CallShape, Pushing
<1>4. /\ disk' \subseteq disk
      /\ total_on_disk_bytes' \in {total_on_disk_bytes, total_on_disk_bytes - e.size}
      /\ call' = NoCall
      /\ pc' \in {"idle", "pop", "refresh"} /\ ret' \in {"none", ret}
      /\ entries_dropped' \subseteq Items
      /\ told' \subseteq Items
      /\ \/ handed' = handed
         \/ handed' = handed \cup {e.item} /\ e \in disk /\ disk' = disk \ {e}
  BY <1>1, <1>2, <1>3 DEF PopHead, Consumed, Missing, Unusable, RemoveFile, Return, DiskInv, TypeOK, Files
<1>5. IsFiniteSet(disk')
  BY <1>4, FS_Subset DEF DiskInv
<1>6. NoUnderflow' /\ total_on_disk_bytes' \in Int
  <2>1. e.size \in Nat /\ total_on_disk_bytes \in Int
    BY <1>2 DEF Files, DiskInv, TypeOK
  <2> QED BY <2>1, <1>2, <1>4 DEF DiskInv, NoUnderflow
<1>7. handed' \subseteq Items /\ \A f \in disk' : f.item \notin handed'
  BY <1>2, <1>4 DEF DiskInv, TypeOK, Files, HandedHasNoFile, OneFile
<1>8. TypeOK'
  <2>1. pc' \in Running \cup {"idle", "down"} /\ ret' \in {"none", "ok", "err"}
    BY <1>4 DEF Running, DiskInv, TypeOK
  <2> QED BY <2>1, <1>1, <1>2, <1>4, <1>6, <1>7, NoCallFits DEF DiskInv, TypeOK
<1>9. CallHasNoFile' /\ HandedHasNoFile' /\ OneFile'
  BY <1>2, <1>4, <1>7, NoCallFits, EntriesAreFiles
  DEF DiskInv, TypeOK, CallHasNoFile, HandedHasNoFile, OneFile
<1>10. CallShape'
  BY <1>4 DEF CallShape, Pushing
<1> QED BY <1>2, <1>5, <1>6, <1>8, <1>9, <1>10 DEF DiskInv

(* A scan of the directory replaces the list and the counter. *)
LEMMA RefreshFits ==
  ASSUME NEW D \in SUBSET Files, IsFiniteSet(D), Refresh(D)
  PROVE  /\ entries' \in Seq(Files)
         /\ Distinct(entries')
         /\ ToSet(entries') = D
         /\ total_on_disk_bytes' \in Nat
         /\ total_on_disk_bytes' = BytesOf(ToSet(entries'))
<1>1. /\ entries' \in Seq(Files)
      /\ Distinct(entries')
      /\ ToSet(entries') = D
  BY ScanProperties DEF Refresh
<1>2. BytesOf(D) \in Nat
  BY BytesOfType
<1> QED BY <1>1, <1>2 DEF Refresh

LEMMA PopRefreshKeeps ==
  ASSUME DiskInv, PopRefresh
  PROVE  DiskInv'
<1>1. disk \in SUBSET Files /\ IsFiniteSet(disk)
  BY DEF DiskInv, TypeOK
<1>2. /\ entries' \in Seq(Files)
      /\ Distinct(entries')
      /\ ToSet(entries') = disk
      /\ total_on_disk_bytes' \in Nat
      /\ total_on_disk_bytes' = BytesOf(ToSet(entries'))
  BY <1>1, RefreshFits DEF PopRefresh
<1>3. /\ pc = "refresh" /\ pc' = "pop"
      /\ UNCHANGED <<disk, entries_dropped, now, call, ret, pushed, handed, told, lost>>
  BY DEF PopRefresh, history
<1>4. TypeOK'
  BY <1>2, <1>3 DEF DiskInv, TypeOK, Running
<1> QED
  BY <1>2, <1>3, <1>4
  DEF DiskInv, NoUnderflow, OneFile, CallHasNoFile, HandedHasNoFile, CallShape, Pushing

(* The steps that only end a pop, and those of the surroundings. *)
LEMMA PopEndKeeps ==
  ASSUME DiskInv, PopEmpty \/ RefreshFails
  PROVE  DiskInv'
<1>1. call = NoCall
  BY DEF DiskInv, CallShape, PopEmpty, RefreshFails, Pushing
<1>2. /\ pc' = "idle" /\ call' = call /\ ret' = "none"
      /\ UNCHANGED <<disk, queueVars, now, history>>
  BY <1>1 DEF PopEmpty, RefreshFails, Return
<1> QED
  BY <1>1, <1>2
  DEF DiskInv, TypeOK, NoUnderflow, OneFile, CallHasNoFile, HandedHasNoFile, CallShape,
      Pushing, Running, queueVars, history

LEMMA TakeEntriesDroppedKeeps ==
  ASSUME DiskInv, TakeEntriesDropped
  PROVE  DiskInv'
  BY DEF DiskInv, TypeOK, NoUnderflow, OneFile, CallHasNoFile, HandedHasNoFile, CallShape,
         TakeEntriesDropped, Pushing, history

LEMMA TickKeeps ==
  ASSUME DiskInv, Tick
  PROVE  DiskInv'
<1>1. now' \in Nat
  BY DEF Tick, DiskInv, TypeOK
<1> QED
  BY <1>1 DEF DiskInv, TypeOK, NoUnderflow, OneFile, CallHasNoFile, HandedHasNoFile, CallShape,
              Tick, Pushing, queueVars, history

LEMMA ExternalRemoveKeeps ==
  ASSUME DiskInv, ExternalRemove
  PROVE  DiskInv'
<1>1. disk' \subseteq disk /\ lost' \subseteq Items
  BY DEF ExternalRemove, DiskInv, TypeOK, Files
<1>2. IsFiniteSet(disk')
  BY <1>1, FS_Subset DEF DiskInv
<1> QED
  BY <1>1, <1>2
  DEF DiskInv, TypeOK, NoUnderflow, OneFile, CallHasNoFile, HandedHasNoFile, CallShape,
      ExternalRemove, Pushing, queueVars

LEMMA CrashKeeps ==
  ASSUME DiskInv, NEW inMemory \in SUBSET Items, Crash(inMemory)
  PROVE  DiskInv'
<1>1. /\ disk' \subseteq Files
      /\ IsFiniteSet(disk')
      /\ \A f, g \in disk' : f.item = g.item => f = g
      /\ \A f \in disk' : f.item \notin handed
  <2>1. CASE pc = "write"
    <3>1. disk' \in WriteLeaves
      BY <2>1 DEF Crash, CrashLeaves
    <3> QED BY <2>1, <3>1, WriteLeavesFits
  <2>2. CASE pc # "write"
    <3>1. disk' \in {disk, disk \ {Head(entries)}}
      BY <2>2 DEF Crash, CrashLeaves
    <3>2. IsFiniteSet(disk')
      BY <3>1, FS_Subset DEF DiskInv
    <3> QED BY <3>1, <3>2 DEF DiskInv, TypeOK, OneFile, HandedHasNoFile
  <2> QED BY <2>1, <2>2
<1>2. /\ pc' = "down" /\ call' = NoCall /\ ret' = "none"
      /\ entries' = <<>> /\ total_on_disk_bytes' = 0 /\ entries_dropped' = {}
      /\ UNCHANGED <<now, pushed, handed, told>>
  BY DEF Crash, Forget
<1>3. ToSet(entries') = {} /\ Distinct(entries') /\ entries' \in Seq(Files)
  BY <1>2, ToSetEmpty
<1>4. NoUnderflow'
  <2>1. BytesOf(ToSet(entries')) = 0
    BY <1>3, BytesOfEmpty
  <2> QED BY <1>2, <2>1 DEF NoUnderflow
<1>5. lost' \subseteq Items
  BY <1>1 DEF Crash, DiskInv, TypeOK, ItemsOf, Files
<1>6. TypeOK'
  BY <1>1, <1>2, <1>3, <1>5, NoCallFits DEF DiskInv, TypeOK
<1>7. CallHasNoFile' /\ HandedHasNoFile' /\ OneFile' /\ CallShape'
  BY <1>1, <1>2, <1>3, NoCallFits
  DEF DiskInv, TypeOK, CallHasNoFile, HandedHasNoFile, OneFile, CallShape, Pushing
<1> QED BY <1>1, <1>3, <1>4, <1>6, <1>7 DEF DiskInv

(* A start, with its cleanup or without, removes files and lists what a    *)
(* scan saw.                                                               *)
LEMMA StartFits ==
  ASSUME DiskInv, Start \/ StartUncleaned
  PROVE  /\ disk' \subseteq disk
         /\ entries' \in Seq(Files)
         /\ Distinct(entries')
         /\ ToSet(entries') \subseteq disk
         /\ total_on_disk_bytes' \in Nat
         /\ total_on_disk_bytes' = BytesOf(ToSet(entries'))
         /\ told' \subseteq told \cup ItemsOf(disk)
<1>1. PICK D \in SUBSET Outdated :
        /\ disk' = disk \ D
        /\ Refresh(disk \ D) \/ Refresh(disk)
        /\ told' \subseteq told \cup ItemsOf(D)
  <2>1. CASE Start
    BY <2>1 DEF Start
  <2>2. CASE StartUncleaned
    BY <2>2 DEF StartUncleaned
  <2> QED BY <2>1, <2>2
<1>2. /\ disk \in SUBSET Files /\ IsFiniteSet(disk)
      /\ disk \ D \in SUBSET Files /\ IsFiniteSet(disk \ D)
  BY FS_Subset DEF DiskInv, TypeOK
<1>3. /\ entries' \in Seq(Files)
      /\ Distinct(entries')
      /\ ToSet(entries') \subseteq disk
      /\ total_on_disk_bytes' \in Nat
      /\ total_on_disk_bytes' = BytesOf(ToSet(entries'))
  BY <1>1, <1>2, RefreshFits
<1>4. ItemsOf(D) \subseteq ItemsOf(disk)
  BY DEF ItemsOf, Outdated
<1> QED BY <1>1, <1>3, <1>4

LEMMA StartKeeps ==
  ASSUME DiskInv, Start \/ StartUncleaned
  PROVE  DiskInv'
<1>1. /\ disk' \subseteq disk
      /\ entries' \in Seq(Files)
      /\ Distinct(entries')
      /\ ToSet(entries') \subseteq disk
      /\ total_on_disk_bytes' \in Nat
      /\ total_on_disk_bytes' = BytesOf(ToSet(entries'))
      /\ told' \subseteq told \cup ItemsOf(disk)
  BY StartFits
<1>2. disk \subseteq Files /\ IsFiniteSet(disk')
  BY <1>1, FS_Subset DEF DiskInv, TypeOK
<1>3. /\ pc = "down" /\ pc' = "idle"
      /\ UNCHANGED <<entries_dropped, now, call, ret, pushed, handed, lost>>
  BY DEF Start, StartUncleaned, Opened
<1>4. call = NoCall
  BY <1>3 DEF DiskInv, CallShape, Pushing
<1>5. told' \subseteq Items
  BY <1>1, <1>2 DEF DiskInv, TypeOK, ItemsOf, Files
<1>6. TypeOK'
  BY <1>1, <1>2, <1>3, <1>5 DEF DiskInv, TypeOK
<1>7. CallHasNoFile' /\ HandedHasNoFile' /\ OneFile' /\ CallShape'
  BY <1>1, <1>2, <1>3, <1>4, NoCallFits
  DEF DiskInv, TypeOK, CallHasNoFile, HandedHasNoFile, OneFile, CallShape, Pushing
<1> QED BY <1>1, <1>2, <1>6, <1>7 DEF DiskInv, NoUnderflow

LEMMA StepKeeps ==
  ASSUME DiskInv, PushStep \/ PopBegin \/ PopStep \/ TakeEntriesDropped \/ Tick
                  \/ ExternalRemove \/ Start \/ StartUncleaned
  PROVE  DiskInv'
<1>1. CASE PushStep
  BY <1>1, LimitReadKeeps, LimitFailsKeeps, EvictKeeps, RoomReadyKeeps, WriteOkKeeps, WriteFailsKeeps
  DEF PushStep
<1>2. CASE PopStep
  BY <1>2, PopEndKeeps, PopHeadKeeps, PopRefreshKeeps DEF PopStep
<1> QED
  BY <1>1, <1>2, PopBeginKeeps, TakeEntriesDroppedKeeps, TickKeeps, ExternalRemoveKeeps, StartKeeps

LEMMA StutterKeeps ==
  ASSUME DiskInv, UNCHANGED pqVars
  PROVE  DiskInv'
  BY DEF DiskInv, TypeOK, NoUnderflow, OneFile, CallHasNoFile, HandedHasNoFile, CallShape,
         pqVars, queueVars, history

-----------------------------------------------------------------------------
(* The queue by itself: only new items are pushed. *)

KnownIsPushed == Known \cup ({call.item} \cap Items) \subseteq pushed

IInv == DiskInv /\ KnownIsPushed

LEMMA InitEstablishes == PqInit => IInv
<1> SUFFICES ASSUME PqInit PROVE IInv
  OBVIOUS
<1>1. /\ disk = {FileOf(i, 0, DiskSize[i]) : i \in Preexisting}
      /\ entries = <<>> /\ total_on_disk_bytes = 0
      /\ pc = "down" /\ call = NoCall /\ handed = {} /\ pushed = Preexisting
  BY DEF PqInit
<1>2. disk \subseteq Files
  BY <1>1, ConstantsAssumption DEF FileOf, Files
<1>3. IsFiniteSet(disk)
  <2>1. IsFiniteSet(Preexisting)
    BY ConstantsAssumption, FS_Subset
  <2> DEFINE m == [i \in Preexisting |-> FileOf(i, 0, DiskSize[i])]
  <2>2. m \in Surjection(Preexisting, disk)
    BY <1>1 DEF Surjection
  <2> QED BY <2>1, <2>2, FS_Surjection
<1>4. ToSet(entries) = {} /\ Distinct(entries) /\ entries \in Seq(Files)
  BY <1>1, ToSetEmpty
<1>5. TypeOK
  BY <1>1, <1>2, <1>4, NoCallFits, ConstantsAssumption DEF PqInit, TypeOK
<1>6. NoUnderflow
  <2>1. BytesOf(ToSet(entries)) = 0
    BY <1>4, BytesOfEmpty
  <2> QED BY <1>1, <2>1 DEF NoUnderflow
<1>7. OneFile
  BY <1>1 DEF OneFile, FileOf
<1>8. CallHasNoFile /\ HandedHasNoFile /\ CallShape
  BY <1>1, <1>2, <1>4, NoCallFits DEF CallHasNoFile, HandedHasNoFile, CallShape, Pushing
<1>9. KnownIsPushed
  BY <1>1, <1>4, NoCallFits DEF KnownIsPushed, Known, ItemsOf, FileOf
<1> QED BY <1>3, <1>4, <1>5, <1>6, <1>7, <1>8, <1>9 DEF IInv, DiskInv

(* What a step does to the items it deals with: only a push brings in a    *)
(* new one.                                                                *)
LEMMA NothingNew ==
  ASSUME DiskInv, PushStep \/ PopBegin \/ PopStep \/ TakeEntriesDropped \/ Tick
                  \/ ExternalRemove \/ Crash({}) \/ Start \/ StartUncleaned
  PROVE  /\ pushed' = pushed
         /\ Known' \cup ({call'.item} \cap Items) \subseteq Known \cup ({call.item} \cap Items)
<1> USE DEF Known, ItemsOf
<1>1. CASE LimitRead \/ LimitFails \/ RoomReady \/ PopBegin \/ PopEmpty \/ RefreshFails
           \/ TakeEntriesDropped \/ Tick
  BY <1>1, NoCallFits
  DEF LimitRead, LimitFails, RoomReady, PopBegin, PopEmpty, RefreshFails, TakeEntriesDropped, Tick,
      Return, queueVars, history, DiskInv, TypeOK
<1>2. CASE Evict
  <2>1. entries # <<>> /\ Dequeue
    BY <1>2 DEF Evict, MustEvict
  <2>2. ToSet(entries') \subseteq ToSet(entries) /\ disk' \subseteq disk
        /\ handed' = handed /\ call'.item = call.item /\ pushed' = pushed
    BY <1>2, <2>1, HeadLeaves
    DEF Evict, Consumed, Missing, Unusable, RemoveFile, DiskInv, TypeOK
  <2> QED BY <2>2
<1>3. CASE WriteOk
  <2> DEFINE f == FileOf(call.item, call.ts, DiskSize[call.item])
  <2>1. call.item \in Items /\ f \in Files /\ f.item = call.item
    BY <1>3, ConstantsAssumption DEF WriteOk, DiskInv, CallShape, Pushing, TypeOK, FileOf, Files
  <2>2. disk' = disk \cup {f} /\ entries' = Append(entries, f)
        /\ handed' = handed /\ call' = NoCall /\ pushed' = pushed
    BY <1>3 DEF WriteOk, Enlist, Return
  <2> HIDE DEF f
  <2>3. ToSet(entries') = ToSet(entries) \cup {f}
    BY <2>1, <2>2, ToSetAppend DEF DiskInv, TypeOK
  <2> QED BY <2>1, <2>2, <2>3, NoCallFits
<1>4. CASE WriteFails
  <2>1. disk' \in WriteLeaves /\ pc = "write" /\ entries' = entries
        /\ handed' = handed /\ call' = NoCall /\ pushed' = pushed
    BY <1>4 DEF WriteFails, Return, queueVars
  <2>2. ItemsOf(disk') \subseteq ItemsOf(disk) \cup ({call.item} \cap Items)
    BY <2>1 DEF WriteLeaves, FileOf, DiskInv, CallShape, Pushing
  <2> QED BY <2>1, <2>2, NoCallFits
<1>5. CASE PopHead
  <2>1. entries # <<>> /\ Dequeue /\ pc = "pop"
    BY <1>5 DEF PopHead
  <2>2. call = NoCall
    BY <2>1 DEF DiskInv, CallShape, Pushing
  <2>3. ToSet(entries') \subseteq ToSet(entries) /\ disk' \subseteq disk
        /\ handed' \subseteq handed \cup ItemsOf(disk) /\ call' = NoCall /\ pushed' = pushed
    BY <1>5, <2>1, <2>2, HeadLeaves
    DEF PopHead, Consumed, Missing, Unusable, RemoveFile, Return
  <2> QED BY <2>3, NoCallFits
<1>6. CASE PopRefresh
  <2>1. ToSet(entries') = disk
    BY <1>6, RefreshFits DEF PopRefresh, DiskInv, TypeOK
  <2>2. disk' = disk /\ handed' = handed /\ call' = call /\ pushed' = pushed
    BY <1>6 DEF PopRefresh, history
  <2> QED BY <2>1, <2>2
<1>7. CASE ExternalRemove
  BY <1>7 DEF ExternalRemove, queueVars
<1>8. CASE Crash({})
  <2>1. ToSet(entries') = {} /\ handed' = handed /\ call' = NoCall /\ pushed' = pushed
    BY <1>8, ToSetEmpty DEF Crash, Forget
  <2>2. ItemsOf(disk') \subseteq ItemsOf(disk) \cup ({call.item} \cap Items)
    BY <1>8 DEF Crash, CrashLeaves, WriteLeaves, FileOf, DiskInv, CallShape, Pushing
  <2> QED BY <2>1, <2>2, NoCallFits
<1>9. CASE Start \/ StartUncleaned
  <2>1. ToSet(entries') \subseteq disk /\ disk' \subseteq disk
    BY <1>9, StartFits
  <2>2. handed' = handed /\ call' = call /\ pushed' = pushed
    BY <1>9 DEF Start, StartUncleaned, Opened
  <2> QED BY <2>1, <2>2
<1> QED BY <1>1, <1>2, <1>3, <1>4, <1>5, <1>6, <1>7, <1>8, <1>9 DEF PushStep, PopStep

LEMMA NextPreserves == IInv /\ [PqNext]_pqVars => IInv'
<1> SUFFICES ASSUME IInv, [PqNext]_pqVars PROVE IInv'
  OBVIOUS
<1>1. DiskInv /\ KnownIsPushed
  BY DEF IInv
<1>2. ASSUME NEW i \in Items \ pushed, PushTooLarge(i) PROVE IInv'
  <2>1. DiskInv'
    BY <1>1, <1>2, PushTooLargeKeeps
  <2>2. KnownIsPushed'
    BY <1>1, <1>2, NoCallFits DEF KnownIsPushed, Known, ItemsOf, PushTooLarge, Return, queueVars
  <2> QED BY <2>1, <2>2 DEF IInv
<1>3. ASSUME NEW i \in Items \ pushed, PushBegin(i) PROVE IInv'
  <2>1. DiskInv'
    BY <1>1, <1>3, PushBeginKeeps DEF KnownIsPushed
  <2>2. KnownIsPushed'
    BY <1>1, <1>3 DEF KnownIsPushed, Known, ItemsOf, PushBegin, NoCall, queueVars
  <2> QED BY <2>1, <2>2 DEF IInv
<1>4. CASE PushStep \/ PopBegin \/ PopStep \/ TakeEntriesDropped \/ Tick
           \/ ExternalRemove \/ Crash({}) \/ Start \/ StartUncleaned
  <2>1. DiskInv'
    BY <1>1, <1>4, StepKeeps, CrashKeeps
  <2>2. KnownIsPushed'
    BY <1>1, <1>4, NothingNew DEF KnownIsPushed
  <2> QED BY <2>1, <2>2 DEF IInv
<1>5. CASE UNCHANGED pqVars
  BY <1>1, <1>5, StutterKeeps DEF IInv, KnownIsPushed, Known, ItemsOf, pqVars, queueVars, history
<1> QED BY <1>2, <1>3, <1>4, <1>5 DEF PqNext

THEOREM Invariance == PqSpec => []IInv
  BY InitEstablishes, NextPreserves, PTL DEF PqSpec

(* Every step of the queue, failing or not, leaves its state well formed. *)
THEOREM TypeCorrect == PqSpec => []TypeOK
<1>1. IInv => TypeOK
  BY DEF IInv, DiskInv
<1> QED BY <1>1, Invariance, PTL

(* pop deletes the file before it returns the entry: no entry is returned  *)
(* twice, by this process or by a later one, whatever fails in between.    *)
THEOREM NeverHandedTwice == PqSpec => []HandedOnce
<1>1. IInv => HandedOnce
  BY DEF IInv, DiskInv, HandedHasNoFile, HandedOnce, Live, ItemsOf
<1> QED BY <1>1, Invariance, PTL

(* No subtraction from the counter of bytes on disk ever wraps around. *)
THEOREM CounterNeverWraps == PqSpec => []NoUnderflow
<1>1. IInv => NoUnderflow
  BY DEF IInv, DiskInv
<1> QED BY <1>1, Invariance, PTL

-----------------------------------------------------------------------------
(* Losses and limits.  The list of what a push has evicted only exists     *)
(* while it looks for room and writes; the limit it computed is at most    *)
(* the maximum; and it writes only once nothing more must be evicted.      *)

RoomInv ==
    /\ pc \notin {"room", "write"} => call.evicted = {}
    /\ pc \in {"room", "write"} => call.limit <= MaxOnDiskBytes
    /\ pc = "write" => ~MustEvict

LEMMA RoomStep ==
  ASSUME IInv, RoomInv, [PqNext]_pqVars
  PROVE  RoomInv'
<1> USE DEF RoomInv
<1>1. DiskInv
  BY DEF IInv
<1>2. ASSUME NEW i \in Items \ pushed, PushTooLarge(i) \/ PushBegin(i)
      PROVE  RoomInv'
  <2>1. pc' \in {"idle", "limit"} /\ call'.evicted = {}
    <3>1. CASE PushTooLarge(i)
      BY <3>1 DEF PushTooLarge, Return, NoCall
    <3>2. CASE PushBegin(i)
      BY <3>2 DEF PushBegin, NoCall
    <3> QED BY <1>2, <3>1, <3>2
  <2> QED BY <2>1
<1>3. CASE LimitRead
  <2>1. PICK other \in OtherUse : call' = [call EXCEPT !.limit = OnDiskBytesLimit(other)]
    BY <1>3 DEF LimitRead
  <2>2. call'.limit = OnDiskBytesLimit(other)
    BY <1>1, <2>1 DEF DiskInv, TypeOK
  <2>3. call'.limit <= MaxOnDiskBytes
    BY <1>1, <2>2, LimitType
  <2> QED BY <1>3, <2>3 DEF LimitRead
<1>4. CASE LimitFails \/ WriteOk \/ WriteFails \/ PopEmpty \/ RefreshFails
  BY <1>4 DEF LimitFails, WriteOk, WriteFails, PopEmpty, RefreshFails, Return, NoCall
<1>5. CASE RoomReady
  BY <1>5 DEF RoomReady, queueVars, MustEvict
<1>6. CASE Evict
  <2>1. call'.limit = call.limit /\ pc = "room" /\ pc' = "room"
    BY <1>1, <1>6 DEF Evict, DiskInv, TypeOK
  <2> QED BY <2>1
<1>7. CASE PopBegin \/ PopHead \/ PopRefresh \/ Start \/ StartUncleaned
  <2>1. call = NoCall
    BY <1>1, <1>7
    DEF PopBegin, PopHead, PopRefresh, Start, StartUncleaned, Opened, DiskInv, CallShape, Pushing
  <2> QED BY <1>7, <2>1 DEF PopBegin, PopHead, PopRefresh, Start, StartUncleaned, Opened, Return, NoCall
<1>8. CASE TakeEntriesDropped \/ Tick \/ ExternalRemove
  BY <1>8 DEF TakeEntriesDropped, Tick, ExternalRemove, queueVars, MustEvict
<1>9. CASE Crash({})
  BY <1>9 DEF Crash, Forget, NoCall
<1>10. CASE UNCHANGED pqVars
  BY <1>10 DEF pqVars, queueVars, MustEvict
<1> QED
  BY <1>2, <1>3, <1>4, <1>5, <1>6, <1>7, <1>8, <1>9, <1>10 DEF PqNext, PushStep, PopStep

THEOREM RoomInvariance == PqSpec => []RoomInv
<1>1. PqInit => RoomInv
  BY DEF PqInit, RoomInv, NoCall
<1>2. IInv /\ RoomInv /\ [PqNext]_pqVars => RoomInv'
  BY RoomStep
<1> QED BY <1>1, <1>2, Invariance, PTL DEF PqSpec

Told == PqStored \ PqStored' \subseteq handed' \cup told' \cup lost' \cup Unreported

LEMMA LossStep ==
  ASSUME IInv, RoomInv, PqNext
  PROVE  Told
<1> USE DEF Told, PqStored, Live, ItemsOf
<1>1. DiskInv /\ (pc \notin {"room", "write"} => call.evicted = {})
  BY DEF IInv, RoomInv
<1>2. ASSUME NEW i \in Items \ pushed, PushTooLarge(i) \/ PushBegin(i)
      PROVE  Told
  <2>1. call = NoCall
    BY <1>1, <1>2 DEF PushTooLarge, PushBegin, DiskInv, CallShape, Pushing
  <2>2. NoCall.item \notin Items /\ NoCall.evicted = {}
    BY NoCallFits DEF NoCall
  <2> QED BY <1>2, <2>1, <2>2 DEF PushTooLarge, PushBegin, Return
<1>3. CASE LimitRead
  BY <1>1, <1>3 DEF LimitRead, queueVars, history, DiskInv, TypeOK
<1>4. CASE LimitFails \/ RoomReady
  BY <1>1, <1>4 DEF LimitFails, RoomReady, Return, NoCall, queueVars, history
<1>5. CASE Evict
  <2> DEFINE e == Head(entries)
  <2>1. entries # <<>> /\ Dequeue
    BY <1>5 DEF Evict, MustEvict
  <2>2. e \in Files
    BY <1>1, <2>1, HeadLeaves
  <2>3. call \in [item : Items \cup {NoItem}, ts : Nat, limit : Nat, evicted : SUBSET Items]
    BY <1>1 DEF DiskInv, TypeOK
  <2>4. CASE Consumed(e) /\ call' = [call EXCEPT !.evicted = @ \cup {e.item}] /\ told' = told
    <3>1. call'.item = call.item /\ call'.evicted = call.evicted \cup {e.item} /\ disk' = disk \ {e}
      BY <2>3, <2>4 DEF Consumed, RemoveFile
    <3> QED BY <3>1
  <2>5. CASE Missing(e) /\ call' = call /\ told' = told
    BY <2>5 DEF Missing
  <2>6. CASE Unusable(e) /\ call' = call
    BY <2>6 DEF Unusable, RemoveFile
  <2> QED BY <1>5, <2>4, <2>5, <2>6 DEF Evict
<1>6. CASE WriteOk
  <2> DEFINE f == FileOf(call.item, call.ts, DiskSize[call.item])
  <2>1. f.item = call.item /\ Intact(f)
    BY DEF FileOf, Intact
  <2>2. disk' = disk \cup {f} /\ told' = told \cup call.evicted
    BY <1>6 DEF WriteOk, Enlist, Return, PushResult
  <2> HIDE DEF f
  <2> QED BY <2>1, <2>2
<1>7. CASE PopBegin \/ PopEmpty \/ PopRefresh \/ RefreshFails \/ TakeEntriesDropped \/ Tick
  <2>1. disk' = disk /\ call' = call
    BY <1>1, <1>7
    DEF PopBegin, PopEmpty, PopRefresh, RefreshFails, TakeEntriesDropped, Tick, Return,
        DiskInv, CallShape, Pushing
  <2> QED BY <2>1
<1>8. CASE PopHead
  <2>1. call = NoCall /\ entries # <<>>
    BY <1>1, <1>8 DEF PopHead, DiskInv, CallShape, Pushing
  <2> QED BY <1>8, <2>1 DEF PopHead, Consumed, Missing, Unusable, RemoveFile, Return
<1>9. CASE ExternalRemove
  BY <1>9 DEF ExternalRemove
<1>10. CASE Crash({})
  <2>1. /\ Live \ Live' \subseteq lost'
        /\ {call.item} \cap Items \subseteq lost' \cup Live' /\ call.evicted \subseteq lost' \cup Live'
    BY <1>10 DEF Crash
  <2> QED BY <2>1
<1>11. CASE Start
  BY <1>11 DEF Start, Opened
<1>12. CASE StartUncleaned
  <2>1. PICK D \in SUBSET Outdated : disk' = disk \ D
    BY <1>12 DEF StartUncleaned
  <2>2. call' = call
    BY <1>12 DEF StartUncleaned, Opened
  <2>3. ItemsOf(Outdated) \subseteq Unreported
    BY <1>12 DEF Unreported
  <2> QED BY <2>1, <2>2, <2>3
<1>13. CASE WriteFails
  <2>1. disk \subseteq disk' /\ told' = told \cup {call.item}
    BY <1>13 DEF WriteFails, WriteLeaves
  <2>2. call.evicted \subseteq Unreported
    BY <1>13 DEF Unreported
  <2> QED BY <2>1, <2>2
<1> QED
  BY <1>2, <1>3, <1>4, <1>5, <1>6, <1>7, <1>8, <1>9, <1>10, <1>11, <1>12, <1>13
  DEF PqNext, PushStep, PopStep

(* The queue forgets nothing but what was evicted for a push whose write   *)
(* fails and the outdated files of a cleanup that fails: any other entry   *)
(* that a step loses is returned or reported as dropped by that step, or   *)
(* the step is a crash or another program's doing.                         *)
THEOREM EveryLossIsTold == PqSpec => LossesAreTold
<1>1. IInv /\ RoomInv /\ [PqNext]_pqVars
        => [PqStored \ PqStored' \subseteq handed' \cup told' \cup lost' \cup Unreported]_pqVars
  BY LossStep DEF Told
<1> QED BY <1>1, Invariance, RoomInvariance, PTL DEF PqSpec, LossesAreTold

(* A successful push leaves entries of at most the maximum size listed: it *)
(* writes when they fit in the limit, or when none is left.                *)
THEOREM PushStaysWithinMax == PqSpec => PushKeepsMax
<1>1. ASSUME IInv, RoomInv, WriteOk PROVE BytesOf(ToSet(entries')) <= MaxOnDiskBytes
  <2> DEFINE f == FileOf(call.item, call.ts, DiskSize[call.item])
             n == DiskSize[call.item]
             b == BytesOf(ToSet(entries))
  <2>1. /\ DiskInv /\ call.item \in Items /\ n <= MaxOnDiskBytes
        /\ call.limit <= MaxOnDiskBytes /\ ~MustEvict
    BY <1>1 DEF WriteOk, IInv, DiskInv, CallShape, Pushing, RoomInv
  <2>2. f \in Files /\ f.item = call.item /\ f.size = n
    BY <2>1, ConstantsAssumption DEF DiskInv, TypeOK, FileOf, Files
  <2>3. f \notin ToSet(entries) /\ entries' = Append(entries, f)
    BY <1>1, <2>1, <2>2 DEF WriteOk, Enlist, DiskInv, CallHasNoFile
  <2> HIDE DEF f
  <2>4. ToSet(entries') = ToSet(entries) \cup {f}
    BY <2>1, <2>2, <2>3, ToSetAppend DEF DiskInv, TypeOK
  <2>5. BytesOf(ToSet(entries')) = b + n
    BY <2>1, <2>2, <2>3, <2>4, EntriesAreFiles, BytesOfAdd
  <2>6. /\ n \in Nat /\ MaxOnDiskBytes \in Nat /\ b \in Nat
        /\ total_on_disk_bytes \in Int /\ total_on_disk_bytes >= b /\ call.limit \in Nat
    BY <2>1, EntriesAreFiles, ConstantsAssumption DEF DiskInv, TypeOK, NoUnderflow
  <2>7. CASE entries = <<>>
    <3>1. b = 0
      <4>1. ToSet(entries) = {}
        BY <2>7, ToSetEmpty
      <4> QED BY <4>1, BytesOfEmpty
    <3> QED BY <2>1, <2>5, <2>6, <3>1
  <2>8. CASE entries # <<>>
    <3>1. total_on_disk_bytes + n <= call.limit
      BY <2>1, <2>6, <2>8 DEF MustEvict
    <3> HIDE DEF b, n
    <3> QED BY <2>1, <2>5, <2>6, <3>1
  <2> QED BY <2>7, <2>8
<1>2. IInv /\ RoomInv /\ [PqNext]_pqVars
        => [WriteOk => BytesOf(ToSet(entries')) <= MaxOnDiskBytes]_pqVars
  BY <1>1
<1> QED BY <1>2, Invariance, RoomInvariance, PTL DEF PqSpec, PushKeepsMax
=============================================================================
