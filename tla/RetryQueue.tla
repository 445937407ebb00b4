----------------------------- MODULE RetryQueue -----------------------------
(***************************************************************************)
(* The forwarder's retry queue (lib/saluki-io/.../retry/queue/mod.rs): a   *)
(* bounded queue in memory that overflows into a PersistedQueue, or drops  *)
(* its oldest entries when there is none.  A push that overflows is a      *)
(* sequence of calls of the persisted queue, each of which may fail.       *)
(*                                                                         *)
(* The persisted queue exists while pc # "down"; the process is up while   *)
(* rpc # "down".                                                           *)
(***************************************************************************)
EXTENDS PersistedQueue

CONSTANTS
    MemSize,            \* in-memory size of each item
    MaxInMemoryBytes,   \* max_in_memory_bytes
    FlushPercent        \* flush_to_disk_mem_ratio, in percent

ASSUME MemoryAssumption ==
    /\ MemSize \in [Items -> Nat \ {0}]
    /\ MaxInMemoryBytes \in Nat
    /\ FlushPercent \in Nat

VARIABLES
    pending,                 \* the entries in memory, oldest first
    total_in_memory_bytes,
    rpc,                     \* where the call in progress is
    cur                      \* its locals

memVars == <<pending, total_in_memory_bytes>>
rqVars == <<pqVars, memVars, rpc, cur>>

NoCur == [item |-> NoItem, victim |-> NoItem, to_remove |-> 0, removed |-> 0]
UsingDisk == pc # "down"
MemBytes(S) == Weigh(S, MemSize)

-----------------------------------------------------------------------------
(* push *)

RPushTooLarge(i) ==
    /\ rpc = "idle"
    /\ MemSize[i] > MaxInMemoryBytes
    /\ pushed' = pushed \cup {i}
    /\ told' = told \cup {i}
    /\ UNCHANGED <<disk, queueVars, now, pc, call, ret, handed, lost, memVars, rpc, cur>>

flush_to_disk_bytes == (MaxInMemoryBytes * FlushPercent) \div 100

NoBytesRequired(i) == 0
RequiredUnsaturated(i) == total_in_memory_bytes + MemSize[i] - MaxInMemoryBytes

(* The bytes the new entry needs beyond the cap. *)
required_bytes(i) == Max({0, total_in_memory_bytes + MemSize[i] - MaxInMemoryBytes})

bytes_to_remove(i) ==
    IF UsingDisk /\ required_bytes(i) > 0
    THEN Max({required_bytes(i), flush_to_disk_bytes})
    ELSE required_bytes(i)

RPush(i) ==
    /\ rpc = "idle"
    /\ MemSize[i] <= MaxInMemoryBytes
    /\ rpc' = "evict"
    /\ cur' = [NoCur EXCEPT !.item = i, !.to_remove = bytes_to_remove(i)]
    /\ pushed' = pushed \cup {i}
    /\ UNCHANGED <<disk, queueVars, now, pc, call, ret, handed, told, lost, memVars>>

TakeCopy == UNCHANGED pending

(* The oldest entry leaves the queue in memory. *)
TakeOldest == pending' = Tail(pending)

NeedsRoom == pending # <<>> /\ cur.removed < cur.to_remove

(* The oldest entry is given to the persisted queue ... *)
EvictToDisk ==
    /\ rpc = "evict" /\ NeedsRoom /\ UsingDisk
    /\ PushTooLarge(Head(pending)) \/ PushBegin(Head(pending))
    /\ TakeOldest
    /\ rpc' = "persist"
    /\ cur' = [cur EXCEPT !.victim = Head(pending)]
    /\ UNCHANGED total_in_memory_bytes

ReleasedLate(i) == UNCHANGED total_in_memory_bytes

Released(i) == total_in_memory_bytes' = total_in_memory_bytes - MemSize[i]

(* ... and leaves memory however that call ends: on an error it counts as  *)
(* dropped, and the eviction goes on.                                      *)
Persisted ==
    /\ rpc = "persist" /\ pc = "idle"
    /\ Released(cur.victim)
    /\ rpc' = "evict"
    /\ cur' = [cur EXCEPT !.victim = NoItem, !.removed = @ + MemSize[cur.victim]]
    /\ UNCHANGED <<pqVars, pending>>

EvictDrop ==
    /\ rpc = "evict" /\ NeedsRoom /\ ~UsingDisk
    /\ LET i == Head(pending) IN
         /\ told' = told \cup {i}
         /\ Released(i)
         /\ cur' = [cur EXCEPT !.removed = @ + MemSize[i]]
    /\ TakeOldest
    /\ UNCHANGED <<disk, queueVars, now, pc, call, ret, pushed, handed, lost, rpc>>

RPushDone ==
    /\ rpc = "evict" /\ ~NeedsRoom
    /\ pending' = Append(pending, cur.item)
    /\ total_in_memory_bytes' = total_in_memory_bytes + MemSize[cur.item]
    /\ rpc' = "idle"
    /\ cur' = NoCur
    /\ UNCHANGED pqVars

-----------------------------------------------------------------------------
(* pop *)

RPopMemory ==
    /\ rpc = "idle" /\ pending # <<>>
    /\ TakeOldest
    /\ Released(Head(pending))
    /\ handed' = handed \cup {Head(pending)}
    /\ UNCHANGED <<disk, queueVars, now, pc, call, ret, pushed, told, lost, rpc, cur>>

RPopDisk ==
    /\ rpc = "idle" /\ pending = <<>> /\ UsingDisk
    /\ PopBegin
    /\ rpc' = "pop"
    /\ UNCHANGED <<memVars, cur>>

RPopDone ==
    /\ rpc = "pop" /\ pc = "idle"
    /\ rpc' = "idle"
    /\ UNCHANGED <<pqVars, memVars, cur>>

-----------------------------------------------------------------------------
(* flush, which consumes the queue *)

FlushBegin ==
    /\ rpc = "idle"
    /\ rpc' = "flush"
    /\ UNCHANGED <<pqVars, memVars, cur>>

FlushEntry ==
    /\ rpc = "flush" /\ pending # <<>> /\ UsingDisk
    /\ PushTooLarge(Head(pending)) \/ PushBegin(Head(pending))
    /\ TakeOldest
    /\ rpc' = "flush_persist"
    /\ UNCHANGED <<total_in_memory_bytes, cur>>

(* The first error ends the flush, and the entries still in memory go with *)
(* the queue.                                                              *)
FlushReturned ==
    /\ rpc = "flush_persist" /\ pc = "idle"
    /\ \/ ret = "ok" /\ rpc' = "flush" /\ UNCHANGED pending
       \/ ret = "err" /\ rpc' = "stopped" /\ pending' = <<>>
    /\ UNCHANGED <<pqVars, total_in_memory_bytes, cur>>

FlushDrop ==
    /\ rpc = "flush" /\ pending # <<>> /\ ~UsingDisk
    /\ told' = told \cup {Head(pending)}
    /\ TakeOldest
    /\ UNCHANGED <<disk, queueVars, now, pc, call, ret, pushed, handed, lost,
                   total_in_memory_bytes, rpc, cur>>

FlushDone ==
    /\ rpc = "flush" /\ pending = <<>>
    /\ rpc' = "stopped"
    /\ UNCHANGED <<pqVars, memVars, cur>>

-----------------------------------------------------------------------------
(* The life of the process *)

Clear ==
    /\ pending' = <<>>
    /\ total_in_memory_bytes' = 0
    /\ rpc' = "down"
    /\ cur' = NoCur

Exit ==
    /\ rpc = "stopped"
    /\ Clear /\ Forget
    /\ UNCHANGED <<disk, now, history>>

InMemory == ToSet(pending) \cup ({cur.item} \cap Items)

RCrash ==
    /\ rpc # "down" /\ "crash" \in Faults
    /\ \/ UsingDisk /\ Crash(InMemory)
       \/ /\ ~UsingDisk
          /\ lost' = lost \cup InMemory
          /\ UNCHANGED <<disk, queueVars, now, pc, call, ret, pushed, handed, told>>
    /\ Clear

(* with_disk_persistence, when a storage size is configured. *)
RStart ==
    /\ rpc = "down" /\ MaxOnDiskBytes > 0
    /\ Start \/ StartUncleaned
    /\ rpc' = "idle"
    /\ UNCHANGED <<memVars, cur>>

(* Without it, or when it fails, the queue lives in memory only. *)
RStartMemoryOnly ==
    /\ rpc = "down"
    /\ MaxOnDiskBytes = 0 \/ "refresh" \in Faults
    /\ rpc' = "idle"
    /\ UNCHANGED <<pqVars, memVars, cur>>

-----------------------------------------------------------------------------
RqInit ==
    /\ PqInit
    /\ pending = <<>> /\ total_in_memory_bytes = 0
    /\ rpc = "down" /\ cur = NoCur

DiskStep == (PushStep \/ PopStep) /\ UNCHANGED <<memVars, rpc, cur>>
CallStep ==
    \/ DiskStep
    \/ EvictToDisk \/ Persisted \/ EvictDrop \/ RPushDone
    \/ RPopDone
    \/ FlushEntry \/ FlushReturned \/ FlushDrop \/ FlushDone

RqNext ==
    \/ \E i \in Items \ pushed : RPushTooLarge(i) \/ RPush(i)
    \/ RPopMemory \/ RPopDisk \/ FlushBegin
    \/ CallStep
    \/ rpc = "idle" /\ TakeEntriesDropped /\ UNCHANGED <<memVars, rpc, cur>>
    \/ (Tick \/ ExternalRemove) /\ UNCHANGED <<memVars, rpc, cur>>
    \/ Exit \/ RCrash \/ RStart \/ RStartMemoryOnly

RqSpec == RqInit /\ [][RqNext]_rqVars

(* The task that runs the call is scheduled, and disk operations end. *)
RqFairSpec == RqSpec /\ WF_rqVars(CallStep)

-----------------------------------------------------------------------------
(* Properties *)

CallRunning == {"evict", "persist", "pop", "flush", "flush_persist"}

RqTypeOK ==
    /\ TypeOK
    /\ pending \in Seq(Items)
    /\ total_in_memory_bytes \in Int
    /\ rpc \in CallRunning \cup {"idle", "stopped", "down"}
    /\ cur \in [item : Items \cup {NoItem}, victim : Items \cup {NoItem},
                to_remove : Nat, removed : Nat]

(* push asserts "retry queue in-memory bytes within cap": the bytes really *)
(* held in memory, the entry on its way to disk included, never exceed it. *)
MemoryCap == MemBytes(ToSet(pending) \cup ({cur.victim} \cap Items)) <= MaxInMemoryBytes

(* The counter of bytes in memory is the sum of the sizes of the entries   *)
(* there, so that its unsigned subtractions cannot wrap around and the cap *)
(* is a cap on memory.  (flush consumes the queue and stops counting.)     *)
MemoryAccounting ==
    rpc \notin {"flush", "flush_persist", "stopped"} =>
        total_in_memory_bytes = MemBytes(ToSet(pending) \cup ({cur.victim} \cap Items))

(* An entry is in memory, in a file or handed out, but never in two of     *)
(* these places, so that it cannot be delivered twice.                     *)
OnePlace ==
    /\ InMemory \cap (Live \cup handed \cup ItemsOf(ToSet(entries))) = {}
    /\ HandedOnce

(* The entries that may still be handed out. *)
Stored == InMemory \cup Live \cup ({call.item} \cap Items) \cup call.evicted

Ledger == INSTANCE ItemLedger WITH stored <- Stored

(* The steps in which the code forgets entries: those of Unreported, and   *)
(* a flush that ends at an entry it cannot persist, with the entries still *)
(* in memory.                                                              *)
Forgets ==
    /\ Stored' \subseteq Stored
    /\ told \subseteq told' /\ lost \subseteq lost' /\ handed' = handed
    /\ Stored \ Stored' \subseteq told' \cup lost' \cup Unreported
          \cup (IF FlushReturned /\ ret = "err" THEN ToSet(pending) ELSE {})


(* A call returns, however many entries it has to move or finds unusable.  *)
RCallsReturn == rpc \in CallRunning ~> rpc \notin CallRunning

(* flush: "When disk persistence is configured, this will flush all        *)
(* in-memory entries to disk."                                             *)
FlushLosesNothing == pushed \subseteq handed \cup told \cup lost \cup Stored
=============================================================================
