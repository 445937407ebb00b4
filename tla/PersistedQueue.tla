--------------------------- MODULE PersistedQueue ---------------------------
(***************************************************************************)
(* The on-disk half of the forwarder's retry queue                         *)
(* (lib/saluki-io/src/net/util/retry/queue/persisted.rs).                  *)
(*                                                                         *)
(* One entry is one file.  A call of push or pop is a sequence of steps,   *)
(* one per await of the code that touches the disk, so that an I/O error   *)
(* or the end of the process can fall between any two of them.  Only       *)
(* `disk` survives a crash.                                                *)
(*                                                                         *)
(* An element of Items is one push: a transaction that is retried is       *)
(* pushed again as another item, under another file name (the code draws a *)
(* fresh timestamp and nonce).  A file is the prefix of `size` bytes of    *)
(* its item's serialized form; a proper prefix does not deserialize.       *)
(***************************************************************************)
EXTENDS Integers, Sequences, FiniteSets, SequencesExt, Weights

CONSTANTS
    Items,            \* the entries that may be pushed
    NoItem,           \* no entry
    DiskSize,         \* serialized size of each item
    MaxOnDiskBytes,   \* max_on_disk_bytes
    VolumeBudget,     \* ceil(total_space * storage_max_disk_ratio)
    OtherUse,         \* bytes of the volume used by other programs, when asked
    MaxAge,           \* max_age_days
    MaxClock,         \* bound: the last tick of the wall clock
    Preexisting,      \* items persisted by an earlier process
    Faults            \* what may go wrong: a subset of FaultKinds

FaultKinds == {"write", "unlink", "read", "limit", "refresh", "external", "crash", "clock"}

ASSUME ConstantsAssumption ==
    /\ NoItem \notin Items
    /\ IsFiniteSet(Items)
    /\ DiskSize \in [Items -> Nat \ {0}]
    /\ MaxOnDiskBytes \in Nat
    /\ VolumeBudget \in Nat
    /\ OtherUse \subseteq Nat
    /\ OtherUse # {}
    /\ MaxAge \in Nat
    /\ MaxClock \in Nat
    /\ Preexisting \subseteq Items
    /\ Faults \subseteq FaultKinds

VARIABLES
    disk,                 \* the files in the queue's directory
    entries,              \* what the queue believes is there, oldest first
    total_on_disk_bytes,
    entries_dropped,      \* items counted as dropped because of an error
    now,                  \* the wall clock
    pc,                   \* where the call in progress is, "down" without a process
    call,                 \* its locals
    ret,                  \* how the last push ended
    pushed, handed, told, lost \* history: see below

(* History of the items: pushed so far; returned by pop; reported to the   *)
(* caller as dropped (PushResult, entries_dropped, an Err, the count of    *)
(* outdated files); taken away by a crash or by another program.           *)
history == <<pushed, handed, told, lost>>
queueVars == <<entries, total_on_disk_bytes, entries_dropped>>
pqVars == <<disk, queueVars, now, pc, call, ret, history>>

Files == [item : Items, ts : Nat, size : Nat]
Intact(f) == f.size = DiskSize[f.item]
FileSize == [f \in Files |-> f.size]
BytesOf(D) == Weigh(D, FileSize)
ItemsOf(D) == {f.item : f \in D}
FileOf(i, t, n) == [item |-> i, ts |-> t, size |-> n]

NoCall == [item |-> NoItem, ts |-> 0, limit |-> 0, evicted |-> {}]

-----------------------------------------------------------------------------
(* Definitions named after a defect are deliberately wrong variants of the *)
(* definition that follows them: each breaks one of the properties below.  *)
ScansUnsorted(D) == SetToSeqs(D)

(* refresh_entry_state: the files of the directory by timestamp; files of  *)
(* equal timestamp come in directory order, that is, in any order.         *)
Scans(D) ==
    {s \in SetToSeqs(D) : \A i, j \in DOMAIN s : i < j => s[i].ts <= s[j].ts}

RefreshKeepsTotal(D) == entries' \in Scans(D) /\ UNCHANGED total_on_disk_bytes

Refresh(D) ==
    /\ entries' \in Scans(D)
    /\ total_on_disk_bytes' = BytesOf(D)

OnDiskBytesLimitUnclamped(other) ==
    Min({MaxOnDiskBytes, VolumeBudget - other - BytesOf(disk)})

(* on_disk_bytes_limit: the space left on the volume is what its budget    *)
(* leaves after other programs and the queue's own files.                  *)
OnDiskBytesLimit(other) ==
    LET available == VolumeBudget - other - BytesOf(disk)
    IN  Min({MaxOnDiskBytes, IF available < 0 THEN 0 ELSE available})

-----------------------------------------------------------------------------
(* try_deserialize_entry on the oldest entry.  The three ways it returns:  *)
(* Consumed: Ok(Some), the file is gone; Missing: Ok(None), the file was   *)
(* not there; Unusable: Err, for a file that does not deserialize (it is   *)
(* then removed if that works), that cannot be read or removed, or that    *)
(* another program removes between the read and the removal.               *)
RemoveFileLate(e) == UNCHANGED disk

RemoveFile(e) == disk' = disk \ {e}

Consumed(e) ==
    /\ e \in disk /\ Intact(e)
    /\ RemoveFile(e)
    /\ total_on_disk_bytes' = total_on_disk_bytes - e.size
    /\ UNCHANGED entries_dropped

Missing(e) ==
    /\ e \notin disk
    /\ UNCHANGED <<disk, total_on_disk_bytes, entries_dropped>>

Unusable(e) ==
    /\ e \in disk
    /\ \/ ~Intact(e) /\ RemoveFile(e)
       \/ Faults \cap {"read", "unlink"} # {} /\ disk' = disk
       \/ "external" \in Faults /\ disk' = disk \ {e}
    /\ total_on_disk_bytes' = total_on_disk_bytes - e.size
    /\ entries_dropped' = entries_dropped \cup {e.item}
    /\ told' = told \cup {e.item}

DequeueOnlyFound == entries' = IF Head(entries) \in disk THEN Tail(entries) ELSE entries

(* The oldest entry leaves the list whatever becomes of it. *)
Dequeue == entries' = Tail(entries)

-----------------------------------------------------------------------------
(* push *)

Return(result) ==
    /\ pc' = "idle"
    /\ call' = NoCall
    /\ ret' = result

(* The serialized entry is larger than the queue may ever hold. *)
PushTooLarge(i) ==
    /\ pc = "idle"
    /\ DiskSize[i] > MaxOnDiskBytes
    /\ Return("err")
    /\ pushed' = pushed \cup {i}
    /\ told' = told \cup {i}
    /\ UNCHANGED <<disk, queueVars, now, handed, lost>>

(* The file is named after the current time, then the space is sought. *)
PushBegin(i) ==
    /\ pc = "idle"
    /\ DiskSize[i] <= MaxOnDiskBytes
    /\ pc' = "limit"
    /\ call' = [NoCall EXCEPT !.item = i, !.ts = now]
    /\ ret' = "none"
    /\ pushed' = pushed \cup {i}
    /\ UNCHANGED <<disk, queueVars, now, handed, told, lost>>

LimitRead ==
    /\ pc = "limit"
    /\ \E other \in OtherUse : call' = [call EXCEPT !.limit = OnDiskBytesLimit(other)]
    /\ pc' = "room"
    /\ UNCHANGED <<disk, queueVars, now, ret, history>>

LimitFails ==
    /\ pc = "limit" /\ "limit" \in Faults
    /\ Return("err")
    /\ told' = told \cup {call.item}
    /\ UNCHANGED <<disk, queueVars, now, pushed, handed, lost>>

MustEvictIgnoresNew == entries # <<>> /\ total_on_disk_bytes > call.limit

(* remove_until_available_space, one entry. *)
MustEvict ==
    /\ entries # <<>>
    /\ total_on_disk_bytes + DiskSize[call.item] > call.limit

Evict ==
    /\ pc = "room" /\ MustEvict
    /\ LET e == Head(entries) IN
         \/ /\ Consumed(e)
            /\ call' = [call EXCEPT !.evicted = @ \cup {e.item}]
            /\ UNCHANGED told
         \/ Missing(e) /\ UNCHANGED <<call, told>>
         \/ Unusable(e) /\ UNCHANGED call
    /\ Dequeue
    /\ UNCHANGED <<now, pc, ret, pushed, handed, lost>>

RoomReady ==
    /\ pc = "room" /\ ~MustEvict
    /\ pc' = "write"
    /\ UNCHANGED <<disk, queueVars, now, call, ret, history>>

EnlistUnseen(f) ==
    /\ total_on_disk_bytes' = total_on_disk_bytes + f.size
    /\ UNCHANGED entries

Enlist(f) ==
    /\ entries' = Append(entries, f)
    /\ total_on_disk_bytes' = total_on_disk_bytes + f.size

PushResultEmpty == {}

(* The PushResult: what was evicted to make room. *)
PushResult == call.evicted

WriteOk ==
    /\ pc = "write"
    /\ LET f == FileOf(call.item, call.ts, DiskSize[call.item]) IN
         /\ disk' = disk \cup {f}
         /\ Enlist(f)
    /\ Return("ok")
    /\ told' = told \cup PushResult
    /\ UNCHANGED <<entries_dropped, now, pushed, handed, lost>>

(* A failed write may leave no file, or any prefix of the entry. *)
WriteLeaves ==
    {disk} \cup {disk \cup {FileOf(call.item, call.ts, n)} : n \in 0 .. DiskSize[call.item]}

WriteFails ==
    /\ pc = "write" /\ "write" \in Faults
    /\ disk' \in WriteLeaves
    /\ Return("err")
    /\ told' = told \cup {call.item}
    /\ UNCHANGED <<queueVars, now, pushed, handed, lost>>

-----------------------------------------------------------------------------
(* pop *)

PopBegin ==
    /\ pc = "idle"
    /\ pc' = "pop"
    /\ ret' = "none"
    /\ UNCHANGED <<disk, queueVars, now, call, history>>

PopEmpty ==
    /\ pc = "pop" /\ entries = <<>>
    /\ Return("none")
    /\ UNCHANGED <<disk, queueVars, now, history>>

PopHead ==
    /\ pc = "pop" /\ entries # <<>>
    /\ LET e == Head(entries) IN
         \/ /\ Consumed(e)
            /\ Return("none")
            /\ handed' = handed \cup {e.item}
            /\ UNCHANGED told
         \/ /\ Missing(e)
            /\ pc' = "refresh"
            /\ UNCHANGED <<call, ret, handed, told>>
         \/ Unusable(e) /\ UNCHANGED <<pc, call, ret, handed>>
    /\ Dequeue
    /\ UNCHANGED <<now, pushed, lost>>

PopRefresh ==
    /\ pc = "refresh"
    /\ Refresh(disk)
    /\ pc' = "pop"
    /\ UNCHANGED <<disk, entries_dropped, now, call, ret, history>>

RefreshFails ==
    /\ pc = "refresh" /\ "refresh" \in Faults
    /\ Return("none")
    /\ UNCHANGED <<disk, queueVars, now, history>>

(* take_entries_dropped *)
TakeEntriesDropped ==
    /\ pc = "idle" /\ entries_dropped # {}
    /\ entries_dropped' = {}
    /\ UNCHANGED <<disk, entries, total_on_disk_bytes, now, pc, call, ret, history>>

-----------------------------------------------------------------------------
(* The surroundings *)

Tick ==
    /\ \/ now < MaxClock /\ now' = now + 1
       \/ "clock" \in Faults /\ now' \in 0 .. now
    /\ UNCHANGED <<disk, queueVars, pc, call, ret, history>>

(* Another program removes a file of the directory. *)
ExternalRemove ==
    /\ "external" \in Faults
    /\ \E f \in disk :
         /\ disk' = disk \ {f}
         /\ lost' = lost \cup {f.item}
    /\ UNCHANGED <<queueVars, now, pc, call, ret, pushed, handed, told>>

(* What a crash in the middle of the current await may leave on disk: a    *)
(* prefix of the file being written, or the oldest entry already removed   *)
(* and not yet returned.  The entries the caller holds are lost with it.   *)
CrashLeaves ==
    CASE pc = "write" -> WriteLeaves
      [] pc = "room" /\ MustEvict -> {disk, disk \ {Head(entries)}}
      [] pc = "pop" /\ entries # <<>> -> {disk, disk \ {Head(entries)}}
      [] OTHER -> {disk}

Forget ==
    /\ pc' = "down"
    /\ call' = NoCall
    /\ ret' = "none"
    /\ entries' = <<>>
    /\ total_on_disk_bytes' = 0
    /\ entries_dropped' = {}

Crash(inMemory) ==
    /\ pc # "down" /\ "crash" \in Faults
    /\ disk' \in CrashLeaves
    /\ lost' = lost \cup
         ((({call.item} \cap Items) \cup call.evicted \cup inMemory \cup ItemsOf(disk \ disk'))
             \ ItemsOf({f \in disk' : Intact(f)}))
    /\ Forget
    /\ UNCHANGED <<now, pushed, handed, told>>

(* remove_outdated_retry_files: the files older than the cutoff go. *)
Outdated == {f \in disk : f.ts < now - MaxAge}

Opened ==
    /\ pc = "down"
    /\ pc' = "idle"
    /\ UNCHANGED <<entries_dropped, now, call, ret, pushed, handed, lost>>

(* with_disk_persistence: from_root_path scans the directory, then         *)
(* remove_stale_files removes the outdated files it can, scans again and   *)
(* returns their number, which is reported.                                *)
Start ==
    /\ Opened
    /\ \E D \in SUBSET Outdated :
         /\ D = Outdated \/ "unlink" \in Faults
         /\ disk' = disk \ D
         /\ told' = told \cup ItemsOf(D)
         /\ Refresh(disk \ D)

(* The cleanup fails at reading the directory, at any file of it, or at    *)
(* the scan that follows.  The queue is used all the same, with the list   *)
(* of the first scan; the number of files removed so far is discarded with *)
(* the error.                                                              *)
StartUncleaned ==
    /\ Opened /\ "refresh" \in Faults
    /\ \E D \in SUBSET Outdated : disk' = disk \ D
    /\ Refresh(disk)
    /\ UNCHANGED told

-----------------------------------------------------------------------------
PqInit ==
    /\ disk = {FileOf(i, 0, DiskSize[i]) : i \in Preexisting}
    /\ entries = <<>>
    /\ total_on_disk_bytes = 0
    /\ entries_dropped = {}
    /\ now = 0
    /\ pc = "down"
    /\ call = NoCall
    /\ ret = "none"
    /\ pushed = Preexisting
    /\ handed = {} /\ told = {} /\ lost = {}

(* The steps of a push once it has begun, and of a pop. *)
PushStep == LimitRead \/ LimitFails \/ Evict \/ RoomReady \/ WriteOk \/ WriteFails
PopStep == PopEmpty \/ PopHead \/ PopRefresh \/ RefreshFails

PqNext ==
    \/ \E i \in Items \ pushed : PushTooLarge(i) \/ PushBegin(i)
    \/ PushStep
    \/ PopBegin \/ PopStep
    \/ TakeEntriesDropped
    \/ Tick \/ ExternalRemove \/ Crash({}) \/ Start \/ StartUncleaned

PqSpec == PqInit /\ [][PqNext]_pqVars

-----------------------------------------------------------------------------
(* Properties *)

Live == ItemsOf({f \in disk : Intact(f)})
Running == {"limit", "room", "write", "pop", "refresh"}

(* Every variable has its type. *)
TypeOK ==
    /\ disk \subseteq Files
    /\ entries \in Seq(Files)
    /\ total_on_disk_bytes \in Int
    /\ entries_dropped \subseteq Items
    /\ now \in Nat
    /\ pc \in Running \cup {"idle", "down"}
    /\ call \in [item : Items \cup {NoItem}, ts : Nat, limit : Nat, evicted : SUBSET Items]
    /\ ret \in {"none", "ok", "err"}
    /\ pushed \subseteq Items /\ handed \subseteq Items
    /\ told \subseteq Items /\ lost \subseteq Items

(* "Delete the entry from disk before returning, so that we don't risk     *)
(* sending duplicates": whatever fails or crashes, an entry that pop has   *)
(* returned has no file from which a later pop, of this process or of the  *)
(* next one, could return it again.                                        *)
HandedOnce == Live \cap handed = {}

(* The counter of bytes on disk is an unsigned integer from which the size *)
(* of every consumed entry is subtracted: it never falls below the sizes   *)
(* of the entries still listed, so no subtraction can wrap around.         *)
NoUnderflow == total_on_disk_bytes >= BytesOf(ToSet(entries))

(* The entries that may still be returned. *)
PqStored == Live \cup ({call.item} \cap Items) \cup call.evicted

(* What the code reports to nobody: the entries already evicted for a push *)
(* whose write then fails (persisted.rs:245), and the outdated files that  *)
(* a cleanup removed before it failed (persisted.rs:214).                  *)
Unreported ==
    (IF WriteFails THEN call.evicted ELSE {}) \cup (IF StartUncleaned THEN ItemsOf(Outdated) ELSE {})

(* Apart from these two, the queue accounts for every entry it removes: a  *)
(* step that loses an entry returns it, reports it as dropped, or is a     *)
(* crash or the work of another program.                                   *)
LossesAreTold ==
    [][PqStored \ PqStored' \subseteq handed' \cup told' \cup lost' \cup Unreported]_pqVars

(* The running queue knows of every file in its directory except the ones  *)
(* it has already reported as dropped, so that nothing that could be sent  *)
(* waits for the next restart.                                             *)
NoOrphans ==
    pc # "down" => \A f \in disk : f \in ToSet(entries) \/ f.item \in told

(* pop consumes, and push evicts, the oldest entry first as long as the    *)
(* wall clock does not run backwards.                                      *)
OldestFirst == \A i, j \in DOMAIN entries : i < j => entries[i].ts <= entries[j].ts

(* A push that succeeds leaves entries of at most the maximum size on its  *)
(* list, whatever the directory held at startup and however far the        *)
(* counter of bytes has drifted from the files.                            *)
PushKeepsMax == [][WriteOk => BytesOf(ToSet(entries')) <= MaxOnDiskBytes]_pqVars

(* available_capacity_bytes reports the limit "minus the bytes currently   *)
(* used by persisted entries": whenever it can be called, that is, between *)
(* calls, the counter is the sum of their sizes.                           *)
TotalIsExact == pc = "idle" => total_on_disk_bytes = BytesOf(ToSet(entries))

(* PushResult "tracks the total number of items dropped" by a push: no     *)
(* entry that was pushed is gone without a trace.                          *)
NoSilentLoss == pushed \subseteq handed \cup told \cup lost \cup PqStored
=============================================================================
