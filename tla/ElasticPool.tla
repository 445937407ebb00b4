---------------------------- MODULE ElasticPool ----------------------------
(***************************************************************************)
(* The elastic object pool (lib/saluki-core/src/pooling/elastic.rs).       *)
(* Clients acquire and return items on their own threads while a shrinker  *)
(* removes idle ones.  Each step below is one access to shared memory, or  *)
(* one critical section.  active and enabled change only under the         *)
(* shrink_state lock; reclaim also reads the permits there, which the lock *)
(* does not protect, so its section is two steps.                          *)
(*                                                                         *)
(* The semaphore is tokio's: a permit released while someone is queued is  *)
(* assigned to the head of the queue, and a waiter that goes away returns  *)
(* the permit assigned to it.                                              *)
(***************************************************************************)
EXTENDS Naturals, Sequences, FiniteSets, SequencesExt

CONSTANTS
    Procs,            \* the threads that use the pool
    min_capacity, max_capacity,
    MaxAcquires       \* bound: how often an item is acquired

ASSUME PoolAssumption ==
    /\ IsFiniteSet(Procs) /\ MaxAcquires \in Nat
    /\ min_capacity \in Nat /\ max_capacity \in Nat /\ min_capacity <= max_capacity

VARIABLES
    items,        \* the number of idle items
    permits,      \* the semaphore's available permits
    queue,        \* the semaphore's waiters, first come first served
    assigned,     \* waiters that have been given a permit and not seen it yet
    active,       \* the number of items there are
    enabled,      \* shrinking_enabled
    recent,       \* last_growth is within the grace period
    pc,           \* where each thread is
    seen,         \* the active count that each thread has loaded
    notified,     \* threads whose active_decreased future has fired
    left,         \* how many acquires the bound leaves
    shrinker,     \* where the shrinker is
    batch         \* how many more items the shrinker removes

semVars == <<permits, queue, assigned>>
growVars == <<active, enabled, recent>>
procVars == <<seen, notified, left>>
shrinkVars == <<shrinker, batch>>
vars == <<items, semVars, growVars, pc, procVars, shrinkVars>>

Goto(p, l) == pc' = [pc EXCEPT ![p] = l]

(* Nobody is between the two steps of reclaim's critical section. *)
Unlocked == \A p \in Procs : pc[p] # "decide"

-----------------------------------------------------------------------------
(* The semaphore and the notification. *)

(* A released permit goes to the next in the queue q, or back. *)
ReleaseTo(q, a) ==
    IF q = <<>> THEN queue' = q /\ assigned' = a /\ permits' = permits + 1
                ELSE queue' = Tail(q) /\ assigned' = a \cup {Head(q)} /\ permits' = permits

add_permit == ReleaseTo(queue, assigned)

LeaveWithPermit(p) ==
    \/ p \in assigned /\ assigned' = assigned \ {p} /\ UNCHANGED <<permits, queue>>
    \/ /\ p \notin assigned
       /\ \E i \in DOMAIN queue : queue[i] = p /\ queue' = RemoveAt(queue, i)
       /\ UNCHANGED <<permits, assigned>>

(* A waiter drops its place in the queue, or the permit assigned to it. *)
LeaveQueue(p) ==
    \/ p \in assigned /\ ReleaseTo(queue, assigned \ {p})
    \/ /\ p \notin assigned
       /\ \E i \in DOMAIN queue : queue[i] = p /\ queue' = RemoveAt(queue, i)
       /\ UNCHANGED <<permits, assigned>>

NotifyParked == notified' = notified \cup {p \in Procs : pc[p] = "parked"}

(* notify_waiters reaches every acquire future that exists, polled or not. *)
notify_waiters == notified' = notified \cup {p \in Procs : pc[p] \in {"fast", "load", "cas", "wait", "poll", "parked"}}

-----------------------------------------------------------------------------
(* acquire, and the poll of its future. *)

acquire(p) ==
    /\ pc[p] = "idle" /\ left > 0
    /\ left' = left - 1
    /\ notified' = notified \ {p}
    /\ Goto(p, "fast")
    /\ UNCHANGED <<items, semVars, growVars, seen, shrinkVars>>

TryAcquire(p) ==
    /\ pc[p] = "fast"
    /\ \/ permits > 0 /\ permits' = permits - 1 /\ Goto(p, "permit")
       \/ permits = 0 /\ permits' = permits /\ Goto(p, "load")
    /\ UNCHANGED <<items, queue, assigned, growVars, procVars, shrinkVars>>

acquire_item(p) ==
    /\ pc[p] = "permit"
    /\ items' = items - 1
    /\ Goto(p, "holding")
    /\ UNCHANGED <<semVars, growVars, procVars, shrinkVars>>

LoadActive(p) ==
    /\ pc[p] = "load"
    /\ seen' = [seen EXCEPT ![p] = active]
    /\ Goto(p, IF active = max_capacity THEN "wait" ELSE "cas")
    /\ UNCHANGED <<items, semVars, growVars, notified, left, shrinkVars>>

GrowStale(p) == TRUE

GrowExact(p) == active = seen[p]

try_increase_active_for_growth(p) ==
    /\ pc[p] = "cas" /\ Unlocked /\ GrowExact(p)
    /\ active' = active + 1
    /\ recent' = TRUE
    /\ enabled' = FALSE
    /\ Goto(p, "holding")
    /\ UNCHANGED <<items, semVars, procVars, shrinkVars>>

(* The exchange may also fail for no reason. *)
GrowFails(p) ==
    /\ pc[p] = "cas" /\ Unlocked
    /\ Goto(p, "fast")
    /\ UNCHANGED <<items, semVars, growVars, procVars, shrinkVars>>

PollSemaphore(p) ==
    /\ pc[p] = "wait"
    /\ \/ /\ p \in assigned
          /\ assigned' = assigned \ {p}
          /\ UNCHANGED <<permits, queue>>
          /\ Goto(p, "permit")
       \/ /\ p \notin assigned /\ permits > 0
          /\ permits' = permits - 1
          /\ UNCHANGED <<assigned, queue>>
          /\ Goto(p, "permit")
       \/ /\ p \notin assigned /\ permits = 0
          /\ queue' = IF p \in ToSet(queue) THEN queue ELSE Append(queue, p)
          /\ UNCHANGED <<permits, assigned>>
          /\ Goto(p, "poll")
    /\ UNCHANGED <<items, growVars, procVars, shrinkVars>>

PollNotified(p) ==
    /\ pc[p] = "poll"
    /\ \/ /\ p \in notified
          /\ notified' = notified \ {p}
          /\ LeaveQueue(p)
          /\ Goto(p, "fast")
       \/ /\ p \notin notified
          /\ Goto(p, "parked")
          /\ UNCHANGED <<notified, semVars>>
    /\ UNCHANGED <<items, growVars, seen, left, shrinkVars>>

Wake(p) ==
    /\ pc[p] = "parked" /\ p \in assigned \cup notified
    /\ Goto(p, "wait")
    /\ UNCHANGED <<items, semVars, growVars, procVars, shrinkVars>>

(* The caller drops the future instead of waiting on. *)
Cancel(p) ==
    /\ pc[p] = "parked"
    /\ LeaveQueue(p)
    /\ Goto(p, "idle")
    /\ UNCHANGED <<items, growVars, procVars, shrinkVars>>

-----------------------------------------------------------------------------
(* reclaim, when an item is dropped. *)

ShrinkAnyway == TRUE

shrinking_is_current == enabled /\ ~recent

try_decrease_active == active > min_capacity

DroppedAndPushed == "push"

(* A deleted item is not pushed as well. *)
Dropped == "deleted"

Reclaim(p) ==
    /\ pc[p] = "holding"
    /\ Goto(p, IF enabled THEN "lock" ELSE "push")
    /\ UNCHANGED <<items, semVars, growVars, procVars, shrinkVars>>

ReclaimLocked(p) ==
    /\ pc[p] = "lock" /\ Unlocked
    /\ Goto(p, IF shrinking_is_current /\ permits >= min_capacity THEN "decide" ELSE "push")
    /\ UNCHANGED <<items, semVars, growVars, procVars, shrinkVars>>

(* Still under the lock; the permits may be others by now. *)
ReclaimDecides(p) ==
    /\ pc[p] = "decide"
    /\ IF try_decrease_active
         THEN active' = active - 1 /\ Goto(p, Dropped)
         ELSE active' = active /\ Goto(p, "push")
    /\ UNCHANGED <<items, semVars, enabled, recent, procVars, shrinkVars>>

record_deletion(p) ==
    /\ pc[p] = "deleted"
    /\ notify_waiters
    /\ Goto(p, "idle")
    /\ UNCHANGED <<items, semVars, growVars, seen, left, shrinkVars>>

PushForgotten(p) == pc[p] = "push" /\ Goto(p, "add") /\ UNCHANGED <<items, semVars, growVars, procVars, shrinkVars>>

PushItem(p) ==
    /\ pc[p] = "push"
    /\ items' = items + 1
    /\ Goto(p, "add")
    /\ UNCHANGED <<semVars, growVars, procVars, shrinkVars>>

AddForgotten(p) == pc[p] = "add" /\ Goto(p, "idle") /\ UNCHANGED <<items, semVars, growVars, procVars, shrinkVars>>

AddPermit(p) ==
    /\ pc[p] = "add"
    /\ add_permit
    /\ Goto(p, "idle")
    /\ UNCHANGED <<items, growVars, procVars, shrinkVars>>

-----------------------------------------------------------------------------
(* run_background_shrinker. *)

Monus(a, b) == IF a > b THEN a - b ELSE 0

excess_idle_capacity ==
    LET idle == Monus(permits, min_capacity)
        capacity == Monus(active, min_capacity)
    IN  IF idle < capacity THEN idle ELSE capacity

SHRINK_BATCH_DIVISOR == 4

GraceElapses ==
    /\ recent
    /\ recent' = FALSE
    /\ UNCHANGED <<items, semVars, active, enabled, pc, procVars, shrinkVars>>

enable_shrinking_if_grace_elapsed ==
    /\ shrinker = "sleep" /\ Unlocked /\ ~recent
    /\ enabled' = TRUE
    /\ shrinker' = "plan"
    /\ UNCHANGED <<items, semVars, active, recent, pc, procVars, batch>>

PlanBatch ==
    /\ shrinker = "plan"
    /\ batch' = (excess_idle_capacity + SHRINK_BATCH_DIVISOR - 1) \div SHRINK_BATCH_DIVISOR
    /\ shrinker' = IF excess_idle_capacity = 0 THEN "sleep" ELSE "check"
    /\ UNCHANGED <<items, semVars, growVars, pc, procVars>>

CheckExcess ==
    /\ shrinker = "check"
    /\ shrinker' = IF batch = 0 \/ excess_idle_capacity = 0 THEN "sleep" ELSE "take"
    /\ UNCHANGED <<items, semVars, growVars, pc, procVars, batch>>

TakePermit ==
    /\ shrinker = "take"
    /\ \/ permits > 0 /\ permits' = permits - 1 /\ shrinker' = "remove"
       \/ permits = 0 /\ permits' = permits /\ shrinker' = "sleep"
    /\ UNCHANGED <<items, queue, assigned, growVars, pc, procVars, batch>>

try_shrink_available_item ==
    /\ shrinker = "remove" /\ Unlocked
    /\ IF shrinking_is_current /\ try_decrease_active
         THEN /\ active' = active - 1 /\ items' = items - 1
              /\ shrinker' = "deleted"
              /\ UNCHANGED semVars
         ELSE /\ add_permit
              /\ shrinker' = "sleep"
              /\ UNCHANGED <<active, items>>
    /\ UNCHANGED <<enabled, recent, pc, procVars, batch>>

ShrinkerNotifies ==
    /\ shrinker = "deleted"
    /\ notify_waiters
    /\ batch' = batch - 1
    /\ shrinker' = "check"
    /\ UNCHANGED <<items, semVars, growVars, pc, seen, left>>

-----------------------------------------------------------------------------
Init ==
    /\ items = min_capacity /\ permits = min_capacity /\ queue = <<>> /\ assigned = {}
    /\ active = min_capacity /\ enabled = FALSE /\ recent = TRUE
    /\ pc = [p \in Procs |-> "idle"] /\ seen = [p \in Procs |-> 0]
    /\ notified = {} /\ left = MaxAcquires
    /\ shrinker = "sleep" /\ batch = 0

(* What a thread does once it has begun, except to give up. *)
Progress(p) ==
    \/ TryAcquire(p) \/ acquire_item(p) \/ LoadActive(p)
    \/ try_increase_active_for_growth(p) \/ GrowFails(p)
    \/ PollSemaphore(p) \/ PollNotified(p) \/ Wake(p)
    \/ Reclaim(p) \/ ReclaimLocked(p) \/ ReclaimDecides(p) \/ record_deletion(p) \/ PushItem(p) \/ AddPermit(p)

ShrinkerNext ==
    \/ enable_shrinking_if_grace_elapsed \/ PlanBatch \/ CheckExcess \/ TakePermit
    \/ try_shrink_available_item \/ ShrinkerNotifies

Next ==
    \/ \E p \in Procs : acquire(p) \/ Progress(p) \/ Cancel(p)
    \/ ShrinkerNext \/ GraceElapses

Spec == Init /\ [][Next]_vars

(* Threads and the shrinker's task run, items are dropped in the end, and   *)
(* an exchange does not fail for ever without reason.                       *)
FairSpec ==
    /\ Spec
    /\ WF_vars(ShrinkerNext)
    /\ \A p \in Procs : WF_vars(Progress(p)) /\ SF_vars(try_increase_active_for_growth(p))

-----------------------------------------------------------------------------
(* Every variable has its type. *)
PoolTypeOK ==
    /\ items \in Nat /\ permits \in Nat /\ active \in Nat /\ batch \in Nat
    /\ queue \in Seq(Procs) /\ assigned \subseteq Procs /\ notified \subseteq Procs
    /\ enabled \in BOOLEAN /\ recent \in BOOLEAN
    /\ pc \in [Procs -> {"idle", "fast", "load", "cas", "wait", "poll", "parked", "permit",
                         "holding", "lock", "decide", "deleted", "push", "add"}]
    /\ seen \in [Procs -> Nat] /\ left \in Nat
    /\ shrinker \in {"sleep", "plan", "check", "take", "remove", "deleted"}

At(S) == {p \in Procs : pc[p] \in S}

(* The threads that have a permit in hand, and those that have an item. *)
Claims == Cardinality(At({"permit", "add"}))
InUse == Cardinality(At({"holding", "lock", "decide", "push"}))

(* Every permit, wherever it is, has its item: the unwrap in acquire_item  *)
(* and in the shrinker never finds the pool empty.                         *)
PermitsAreBacked ==
    items = permits + Cardinality(assigned) + Claims + (IF shrinker = "remove" THEN 1 ELSE 0)

(* active counts the items that exist, idle or in use. *)
ActiveIsExact == active = items + InUse

(* The pool keeps to its minimum and maximum capacity. *)
WithinCapacity == active \in min_capacity..max_capacity

(* No wakeup is lost: a thread that is parked and has not been woken has   *)
(* nothing to wait for but the items that others hold, or a deletion whose *)
(* notification is on its way.                                             *)
NoneStranded ==
    \A p \in Procs : pc[p] = "parked" /\ p \notin assigned \cup notified =>
      /\ permits = 0
      /\ active = max_capacity \/ At({"deleted"}) # {} \/ shrinker = "deleted"

(* No item is removed within the grace period of a growth. *)
GraceIsKept == [][active' < active => ~recent]_vars

(* Everyone who waits is served in the end, as long as items come back:    *)
(* the waiters of a pool at its maximum never wait for one another.        *)
AllServed == []<>(\A p \in Procs : pc[p] = "idle")

=============================================================================
