------------------------- MODULE ElasticPool_proofs -------------------------
(***************************************************************************)
(* Proofs about the elastic object pool, for any number of threads and any *)
(* capacities.                                                             *)
(***************************************************************************)
EXTENDS ElasticPool, DataLemmas

(* Nobody is queued twice, or queued with a permit already assigned. *)
QueueOK == Distinct(queue) /\ ToSet(queue) \cap assigned = {}

(* A thread that is about to grow the pool has not seen it full, and the   *)
(* shrinker has work left when it removes an item.                         *)
PlansOK ==
    /\ \A p \in Procs : pc[p] = "cas" => seen[p] # max_capacity
    /\ shrinker \in {"take", "remove", "deleted"} => batch # 0

(* The inductive invariant. *)
PoolInv ==
    /\ PoolTypeOK /\ PermitsAreBacked /\ ActiveIsExact /\ WithinCapacity
    /\ QueueOK /\ PlansOK

Where(f, S) == {p \in Procs : f[p] \in S}

(* When one thread moves, the number of threads at some of the places      *)
(* changes by that thread alone.                                           *)
LEMMA MoveCount ==
  ASSUME NEW f, f = [q \in Procs |-> f[q]], NEW p \in Procs, NEW l, NEW S
  PROVE  /\ Cardinality(Where(f, S)) \in Nat
         /\ Cardinality(Where([f EXCEPT ![p] = l], S))
              = IF f[p] \in S
                  THEN IF l \in S THEN Cardinality(Where(f, S)) ELSE Cardinality(Where(f, S)) - 1
                  ELSE IF l \in S THEN Cardinality(Where(f, S)) + 1 ELSE Cardinality(Where(f, S))
         /\ f[p] \in S => Cardinality(Where(f, S)) > 0
<1> DEFINE W == Where(f, S)
           V == Where([f EXCEPT ![p] = l], S)
<1>1. IsFiniteSet(W) /\ W \subseteq Procs
  <2>1. W \subseteq Procs
    BY DEF Where
  <2> QED BY <2>1, FS_Subset, PoolAssumption
<1>2. Cardinality(W) \in Nat
  BY <1>1, FS_CardinalityType
<1>3. p \in W <=> f[p] \in S
  BY DEF Where
<1>4. l \in S => V = W \cup {p}
  BY DEF Where
<1>5. l \notin S => V = W \ {p}
  BY DEF Where
<1>6. p \in W => Cardinality(W) > 0
  <2>1. p \in W => W # {}
    OBVIOUS
  <2> QED BY <1>1, <1>2, <2>1, FS_EmptySet
<1>7. Cardinality(W \cup {p}) = IF p \in W THEN Cardinality(W) ELSE Cardinality(W) + 1
  BY <1>1, FS_AddElement
<1>8. Cardinality(W \ {p}) = IF p \in W THEN Cardinality(W) - 1 ELSE Cardinality(W)
  BY <1>1, FS_RemoveElement
<1> DEFINE n == Cardinality(W)
<1> HIDE DEF W, V
<1>9. Cardinality(V) = IF l \in S THEN IF p \in W THEN n ELSE n + 1
                                  ELSE IF p \in W THEN n - 1 ELSE n
  <2>1. CASE l \in S
    <3>1. Cardinality(V) = Cardinality(W \cup {p})
      BY <2>1, <1>4
    <3> QED BY <2>1, <3>1, <1>7
  <2>2. CASE l \notin S
    <3>1. Cardinality(V) = Cardinality(W \ {p})
      BY <2>2, <1>5
    <3> QED BY <2>2, <3>1, <1>8
  <2> QED BY <2>1, <2>2
<1>10. Cardinality(V) = IF f[p] \in S THEN IF l \in S THEN n ELSE n - 1
                                      ELSE IF l \in S THEN n + 1 ELSE n
  <2> HIDE DEF n
  <2>1. CASE p \in W
    BY <2>1, <1>3, <1>9
  <2>2. CASE p \notin W
    BY <2>2, <1>3, <1>9
  <2> QED BY <2>1, <2>2
<1> QED BY <1>2, <1>3, <1>6, <1>10 DEF W, V

(* Taking someone out of the middle of a queue removes just that one. *)
LEMMA QueueRemoveAt ==
  ASSUME NEW T, NEW s \in Seq(T), NEW i \in DOMAIN s, Distinct(s)
  PROVE  /\ RemoveAt(s, i) \in Seq(T)
         /\ Distinct(RemoveAt(s, i))
         /\ ToSet(RemoveAt(s, i)) \subseteq ToSet(s)
<1> DEFINE r == RemoveAt(s, i)
<1>1. /\ i \in 1 .. Len(s) /\ Len(s) \in Nat
      /\ DOMAIN s = 1 .. Len(s)
  OBVIOUS
<1>2. /\ r \in Seq(T)
      /\ Len(r) = Len(s) - 1
      /\ \A j \in 1 .. Len(s) - 1 : r[j] = IF j < i THEN s[j] ELSE s[j + 1]
  <2> DEFINE x == SubSeq(s, 1, i - 1)
             y == SubSeq(s, i + 1, Len(s))
  <2>1. /\ x \in Seq(T) /\ Len(x) = i - 1
        /\ \A j \in 1 .. i - 1 : x[j] = s[j]
    BY <1>1
  <2>2. /\ y \in Seq(T) /\ Len(y) = Len(s) - i
        /\ \A j \in 1 .. Len(s) - i : y[j] = s[i + j]
    BY <1>1
  <2>3. r = x \o y
    BY DEF RemoveAt
  <2> HIDE DEF x, y, r
  <2>4. /\ r \in Seq(T) /\ Len(r) = Len(x) + Len(y)
        /\ \A j \in 1 .. Len(x) + Len(y) : r[j] = IF j <= Len(x) THEN x[j] ELSE y[j - Len(x)]
    BY <2>1, <2>2, <2>3, ConcatProperties
  <2>5. /\ Len(r) = Len(s) - 1
        /\ \A j \in 1 .. Len(s) - 1 : r[j] = IF j <= i - 1 THEN x[j] ELSE y[j - (i - 1)]
    BY <1>1, <2>1, <2>2, <2>4
  <2>6. ASSUME NEW j \in 1 .. Len(s) - 1
        PROVE  r[j] = IF j < i THEN s[j] ELSE s[j + 1]
    <3>1. CASE j < i
      BY <3>1, <1>1, <2>1, <2>5
    <3>2. CASE ~(j < i)
      <4>1. j - (i - 1) \in 1 .. Len(s) - i /\ i + (j - (i - 1)) = j + 1
        BY <3>2, <1>1
      <4>2. r[j] = y[j - (i - 1)]
        BY <3>2, <1>1, <2>5
      <4> QED BY <3>2, <4>1, <4>2, <2>2
    <3> QED BY <3>1, <3>2
  <2> QED BY <2>4, <2>5, <2>6
<1> HIDE DEF r
<1>3. Distinct(r)
  BY <1>1, <1>2 DEF Distinct
<1>4. ToSet(r) \subseteq ToSet(s)
  <2>1. ToSet(r) = {r[j] : j \in 1 .. Len(r)} /\ ToSet(s) = {s[j] : j \in 1 .. Len(s)}
    BY <1>2, ToSetElements
  <2> QED BY <2>1, <1>1, <1>2
<1> QED BY <1>2, <1>3, <1>4 DEF r

(* What a thread's move does to the counts in the invariant. *)
LEMMA GotoCounts ==
  ASSUME PoolTypeOK, NEW p \in Procs, NEW l, Goto(p, l)
  PROVE  /\ Claims \in Nat /\ InUse \in Nat
         /\ Claims' = IF pc[p] \in {"permit", "add"}
                        THEN IF l \in {"permit", "add"} THEN Claims ELSE Claims - 1
                        ELSE IF l \in {"permit", "add"} THEN Claims + 1 ELSE Claims
         /\ InUse' = IF pc[p] \in {"holding", "lock", "decide", "push"}
                       THEN IF l \in {"holding", "lock", "decide", "push"} THEN InUse ELSE InUse - 1
                       ELSE IF l \in {"holding", "lock", "decide", "push"} THEN InUse + 1 ELSE InUse
         /\ pc[p] \in {"permit", "add"} => Claims > 0
         /\ pc[p] \in {"holding", "lock", "decide", "push"} => InUse > 0
<1>1. pc = [q \in Procs |-> pc[q]]
  BY DEF PoolTypeOK
<1>2. pc' = [pc EXCEPT ![p] = l]
  BY DEF Goto
<1>3. /\ Claims = Cardinality(Where(pc, {"permit", "add"}))
      /\ Claims' = Cardinality(Where(pc', {"permit", "add"}))
      /\ InUse = Cardinality(Where(pc, {"holding", "lock", "decide", "push"}))
      /\ InUse' = Cardinality(Where(pc', {"holding", "lock", "decide", "push"}))
  BY DEF Claims, InUse, At, Where
<1>4. /\ Claims \in Nat
      /\ Claims' = IF pc[p] \in {"permit", "add"}
                     THEN IF l \in {"permit", "add"} THEN Claims ELSE Claims - 1
                     ELSE IF l \in {"permit", "add"} THEN Claims + 1 ELSE Claims
      /\ pc[p] \in {"permit", "add"} => Claims > 0
  <2> DEFINE S == {"permit", "add"}
  <2> HIDE DEF S
  <2>1. /\ Cardinality(Where(pc, S)) \in Nat
        /\ Cardinality(Where([pc EXCEPT ![p] = l], S))
             = IF pc[p] \in S
                 THEN IF l \in S THEN Cardinality(Where(pc, S)) ELSE Cardinality(Where(pc, S)) - 1
                 ELSE IF l \in S THEN Cardinality(Where(pc, S)) + 1 ELSE Cardinality(Where(pc, S))
        /\ pc[p] \in S => Cardinality(Where(pc, S)) > 0
    BY <1>1, MoveCount
  <2>2. Claims = Cardinality(Where(pc, S)) /\ Claims' = Cardinality(Where([pc EXCEPT ![p] = l], S))
    BY <1>2, <1>3 DEF S
  <2>3. /\ Claims \in Nat
        /\ Claims' = IF pc[p] \in S THEN IF l \in S THEN Claims ELSE Claims - 1
                                    ELSE IF l \in S THEN Claims + 1 ELSE Claims
        /\ pc[p] \in S => Claims > 0
    BY <2>1, <2>2
  <2> QED BY <2>3 DEF S
<1>5. /\ InUse \in Nat
      /\ InUse' = IF pc[p] \in {"holding", "lock", "decide", "push"}
                    THEN IF l \in {"holding", "lock", "decide", "push"} THEN InUse ELSE InUse - 1
                    ELSE IF l \in {"holding", "lock", "decide", "push"} THEN InUse + 1 ELSE InUse
      /\ pc[p] \in {"holding", "lock", "decide", "push"} => InUse > 0
  BY <1>1, <1>2, <1>3, MoveCount
<1> QED BY <1>4, <1>5

(* The counts when no thread moves. *)
LEMMA StayCounts ==
  ASSUME PoolTypeOK, UNCHANGED pc
  PROVE  Claims \in Nat /\ InUse \in Nat /\ Claims' = Claims /\ InUse' = InUse
<1>1. Claims' = Claims /\ InUse' = InUse
  BY DEF Claims, InUse, At
<1>2. /\ IsFiniteSet(At({"permit", "add"}))
      /\ IsFiniteSet(At({"holding", "lock", "decide", "push"}))
  <2>1. At({"permit", "add"}) \subseteq Procs /\ At({"holding", "lock", "decide", "push"}) \subseteq Procs
    BY DEF At
  <2> QED BY <2>1, FS_Subset, PoolAssumption
<1> QED BY <1>1, <1>2, FS_CardinalityType DEF Claims, InUse

(* A released permit is neither lost nor doubled. *)
LEMMA ReleaseCounts ==
  ASSUME PoolTypeOK, QueueOK, NEW a \in SUBSET assigned, ReleaseTo(queue, a)
  PROVE  /\ permits' \in Nat /\ queue' \in Seq(Procs) /\ assigned' \subseteq Procs
         /\ permits' + Cardinality(assigned') = permits + Cardinality(a) + 1
         /\ Cardinality(a) \in Nat /\ Cardinality(assigned') \in Nat
         /\ QueueOK'
<1>1. IsFiniteSet(a) /\ Cardinality(a) \in Nat
  <2>1. a \in SUBSET Procs
    BY DEF PoolTypeOK
  <2> QED BY <2>1, FS_Subset, FS_CardinalityType, PoolAssumption
<1>2. permits \in Nat /\ queue \in Seq(Procs) /\ assigned \subseteq Procs
  BY DEF PoolTypeOK
<1>3. CASE queue = <<>>
  <2>1. queue' = queue /\ assigned' = a /\ permits' = permits + 1
    BY <1>3 DEF ReleaseTo
  <2>2. QueueOK'
    BY <2>1 DEF QueueOK
  <2> QED BY <2>1, <2>2, <1>1, <1>2
<1>4. CASE queue # <<>>
  <2>1. queue' = Tail(queue) /\ assigned' = a \cup {Head(queue)} /\ permits' = permits
    BY <1>4 DEF ReleaseTo
  <2>2. /\ Head(queue) \in ToSet(queue) /\ Tail(queue) \in Seq(Procs)
        /\ ToSet(Tail(queue)) = ToSet(queue) \ {Head(queue)}
        /\ Distinct(Tail(queue))
    BY <1>2, <1>4, ToSetTail DEF QueueOK
  <2>3. Head(queue) \notin a /\ Head(queue) \in Procs
    BY <1>2, <2>2, ToSetElements DEF QueueOK
  <2>4. Cardinality(assigned') = Cardinality(a) + 1
    <3>1. Cardinality(a \cup {Head(queue)})
            = IF Head(queue) \in a THEN Cardinality(a) ELSE Cardinality(a) + 1
      BY <1>1, FS_AddElement
    <3> QED BY <2>1, <2>3, <3>1
  <2>5. QueueOK'
    BY <2>1, <2>2 DEF QueueOK
  <2>6. assigned' \subseteq Procs
    BY <1>2, <2>1, <2>3
  <2> QED BY <2>1, <2>2, <2>4, <2>5, <2>6, <1>1, <1>2
<1> QED BY <1>3, <1>4

(* A waiter that goes away leaves its permit behind. *)
LEMMA LeaveCounts ==
  ASSUME PoolTypeOK, QueueOK, NEW p \in Procs, LeaveQueue(p)
  PROVE  /\ permits' \in Nat /\ queue' \in Seq(Procs) /\ assigned' \subseteq Procs
         /\ permits' + Cardinality(assigned') = permits + Cardinality(assigned)
         /\ Cardinality(assigned) \in Nat /\ Cardinality(assigned') \in Nat
         /\ QueueOK'
<1>1. IsFiniteSet(assigned) /\ Cardinality(assigned) \in Nat
  <2>1. assigned \in SUBSET Procs
    BY DEF PoolTypeOK
  <2> QED BY <2>1, FS_Subset, FS_CardinalityType, PoolAssumption
<1>2. permits \in Nat /\ queue \in Seq(Procs) /\ assigned \subseteq Procs
  BY DEF PoolTypeOK
<1>3. CASE p \in assigned /\ ReleaseTo(queue, assigned \ {p})
  <2>1. Cardinality(assigned \ {p}) = Cardinality(assigned) - 1
    <3>1. Cardinality(assigned \ {p})
            = IF p \in assigned THEN Cardinality(assigned) - 1 ELSE Cardinality(assigned)
      BY <1>1, FS_RemoveElement, Zenon
    <3> QED BY <1>3, <3>1
  <2>2. assigned \ {p} \in SUBSET assigned
    OBVIOUS
  <2>3. /\ permits' \in Nat /\ queue' \in Seq(Procs) /\ assigned' \subseteq Procs
        /\ permits' + Cardinality(assigned') = permits + Cardinality(assigned \ {p}) + 1
        /\ Cardinality(assigned') \in Nat
        /\ QueueOK'
    BY <1>3, <2>2, ReleaseCounts
  <2> QED BY <2>1, <2>3, <1>1, <1>2
<1>4. CASE /\ p \notin assigned
           /\ \E i \in DOMAIN queue : queue[i] = p /\ queue' = RemoveAt(queue, i)
           /\ UNCHANGED <<permits, assigned>>
  <2>1. PICK i \in DOMAIN queue : queue' = RemoveAt(queue, i)
    BY <1>4
  <2>2. /\ queue' \in Seq(Procs) /\ Distinct(queue') /\ ToSet(queue') \subseteq ToSet(queue)
    BY <1>2, <2>1, QueueRemoveAt DEF QueueOK
  <2>3. QueueOK'
    BY <1>4, <2>2 DEF QueueOK
  <2> QED BY <1>1, <1>2, <1>4, <2>2, <2>3
<1> QED BY <1>3, <1>4 DEF LeaveQueue

-----------------------------------------------------------------------------
(* The pool starts with its minimum of items, all of them idle. *)

Places == {"idle", "fast", "load", "cas", "wait", "poll", "parked", "permit",
           "holding", "lock", "decide", "deleted", "push", "add"}

Numbers == items \in Nat /\ permits \in Nat /\ active \in Nat /\ batch \in Nat /\ left \in Nat

Flags == enabled \in BOOLEAN /\ recent \in BOOLEAN

Shapes ==
    /\ queue \in Seq(Procs) /\ assigned \subseteq Procs /\ notified \subseteq Procs
    /\ pc \in [Procs -> Places] /\ seen \in [Procs -> Nat]
    /\ shrinker \in {"sleep", "plan", "check", "take", "remove", "deleted"}

(* The type invariant in parts, for provers that each know one of them. *)
LEMMA TypeParts == PoolTypeOK <=> Numbers /\ Flags /\ Shapes
  BY Zenon DEF PoolTypeOK, Numbers, Flags, Shapes, Places

LEMMA PoolInit == Init => PoolInv
<1> SUFFICES ASSUME Init PROVE PoolInv
  OBVIOUS
<1>1. At({"permit", "add"}) = {} /\ At({"holding", "lock", "decide", "push"}) = {}
  BY DEF Init, At
<1>2. Claims = 0 /\ InUse = 0 /\ Cardinality(assigned) = 0
  BY <1>1, FS_EmptySet DEF Claims, InUse, Init
<1>3. Numbers /\ Shapes
  BY PoolAssumption DEF Init, Numbers, Shapes, Places
<1>4. Flags
  BY Zenon DEF Init, Flags
<1>5. PermitsAreBacked /\ ActiveIsExact /\ WithinCapacity
  BY <1>2, PoolAssumption DEF Init, PermitsAreBacked, ActiveIsExact, WithinCapacity
<1>6. QueueOK /\ PlansOK
  BY ToSetEmpty DEF Init, QueueOK, PlansOK
<1> QED BY <1>3, <1>4, <1>5, <1>6, TypeParts DEF PoolInv

(* The flags stay Boolean. *)
LEMMA FlagsStep ==
  ASSUME Flags, [Next]_vars
  PROVE  Flags'
<1>1. ASSUME NEW p \in Procs, acquire(p) \/ Progress(p) \/ Cancel(p)
      PROVE  UNCHANGED <<enabled, recent>> \/ (enabled' = FALSE /\ recent' = TRUE)
  <2>1. acquire(p) => UNCHANGED <<enabled, recent>> \/ (enabled' = FALSE /\ recent' = TRUE)
    BY Zenon DEF acquire, semVars, growVars, procVars, shrinkVars
  <2>2. TryAcquire(p) => UNCHANGED <<enabled, recent>> \/ (enabled' = FALSE /\ recent' = TRUE)
    BY Zenon DEF TryAcquire, semVars, growVars, procVars, shrinkVars
  <2>3. acquire_item(p) => UNCHANGED <<enabled, recent>> \/ (enabled' = FALSE /\ recent' = TRUE)
    BY Zenon DEF acquire_item, semVars, growVars, procVars, shrinkVars
  <2>4. LoadActive(p) => UNCHANGED <<enabled, recent>> \/ (enabled' = FALSE /\ recent' = TRUE)
    BY Zenon DEF LoadActive, semVars, growVars, procVars, shrinkVars
  <2>5. try_increase_active_for_growth(p) => UNCHANGED <<enabled, recent>> \/ (enabled' = FALSE /\ recent' = TRUE)
    BY Zenon DEF try_increase_active_for_growth, semVars, growVars, procVars, shrinkVars
  <2>6. GrowFails(p) => UNCHANGED <<enabled, recent>> \/ (enabled' = FALSE /\ recent' = TRUE)
    BY Zenon DEF GrowFails, semVars, growVars, procVars, shrinkVars
  <2>7. PollSemaphore(p) => UNCHANGED <<enabled, recent>> \/ (enabled' = FALSE /\ recent' = TRUE)
    BY Zenon DEF PollSemaphore, semVars, growVars, procVars, shrinkVars
  <2>8. PollNotified(p) => UNCHANGED <<enabled, recent>> \/ (enabled' = FALSE /\ recent' = TRUE)
    BY Zenon DEF PollNotified, semVars, growVars, procVars, shrinkVars
  <2>9. Wake(p) => UNCHANGED <<enabled, recent>> \/ (enabled' = FALSE /\ recent' = TRUE)
    BY Zenon DEF Wake, semVars, growVars, procVars, shrinkVars
  <2>10. Cancel(p) => UNCHANGED <<enabled, recent>> \/ (enabled' = FALSE /\ recent' = TRUE)
    BY Zenon DEF Cancel, semVars, growVars, procVars, shrinkVars
  <2>11. Reclaim(p) => UNCHANGED <<enabled, recent>> \/ (enabled' = FALSE /\ recent' = TRUE)
    BY Zenon DEF Reclaim, semVars, growVars, procVars, shrinkVars
  <2>12. ReclaimLocked(p) => UNCHANGED <<enabled, recent>> \/ (enabled' = FALSE /\ recent' = TRUE)
    BY Zenon DEF ReclaimLocked, semVars, growVars, procVars, shrinkVars
  <2>13. record_deletion(p) => UNCHANGED <<enabled, recent>> \/ (enabled' = FALSE /\ recent' = TRUE)
    BY Zenon DEF record_deletion, semVars, growVars, procVars, shrinkVars
  <2>14. PushItem(p) => UNCHANGED <<enabled, recent>> \/ (enabled' = FALSE /\ recent' = TRUE)
    BY Zenon DEF PushItem, semVars, growVars, procVars, shrinkVars
  <2>15. AddPermit(p) => UNCHANGED <<enabled, recent>> \/ (enabled' = FALSE /\ recent' = TRUE)
    BY Zenon DEF AddPermit, semVars, growVars, procVars, shrinkVars
  <2>16. ReclaimDecides(p) => UNCHANGED <<enabled, recent>> \/ (enabled' = FALSE /\ recent' = TRUE)
    BY Zenon DEF ReclaimDecides, semVars, growVars, procVars, shrinkVars
  <2> QED BY Zenon, <1>1, <2>1, <2>2, <2>3, <2>4, <2>5, <2>6, <2>7, <2>8, <2>9, <2>10, <2>11, <2>12, <2>13, <2>14, <2>15, <2>16 DEF Progress
<1>2. ASSUME ShrinkerNext \/ GraceElapses \/ UNCHANGED vars
      PROVE  enabled' \in {TRUE, enabled} /\ recent' \in {FALSE, recent}
  <2>1. enable_shrinking_if_grace_elapsed => enabled' \in {TRUE, enabled} /\ recent' \in {FALSE, recent}
    BY Zenon DEF enable_shrinking_if_grace_elapsed, semVars, growVars, procVars, shrinkVars
  <2>2. PlanBatch => enabled' \in {TRUE, enabled} /\ recent' \in {FALSE, recent}
    BY Zenon DEF PlanBatch, semVars, growVars, procVars, shrinkVars
  <2>3. CheckExcess => enabled' \in {TRUE, enabled} /\ recent' \in {FALSE, recent}
    BY Zenon DEF CheckExcess, semVars, growVars, procVars, shrinkVars
  <2>4. TakePermit => enabled' \in {TRUE, enabled} /\ recent' \in {FALSE, recent}
    BY Zenon DEF TakePermit, semVars, growVars, procVars, shrinkVars
  <2>5. try_shrink_available_item => enabled' \in {TRUE, enabled} /\ recent' \in {FALSE, recent}
    BY Zenon DEF try_shrink_available_item, semVars, growVars, procVars, shrinkVars
  <2>6. ShrinkerNotifies => enabled' \in {TRUE, enabled} /\ recent' \in {FALSE, recent}
    BY Zenon DEF ShrinkerNotifies, semVars, growVars, procVars, shrinkVars
  <2>7. GraceElapses => enabled' \in {TRUE, enabled} /\ recent' \in {FALSE, recent}
    BY Zenon DEF GraceElapses, semVars, growVars, procVars, shrinkVars
  <2>8. UNCHANGED vars => enabled' \in {TRUE, enabled} /\ recent' \in {FALSE, recent}
    BY Zenon DEF vars, growVars
  <2> QED BY Zenon, <1>2, <2>1, <2>2, <2>3, <2>4, <2>5, <2>6, <2>7, <2>8 DEF ShrinkerNext
<1> QED BY Zenon, <1>1, <1>2 DEF Next, Flags

(* The state stays well shaped, nobody is queued twice, and plans stay     *)
(* sound.                                                                  *)
LEMMA ShapeStep ==
  ASSUME PoolInv, [Next]_vars
  PROVE  Shapes' /\ QueueOK' /\ PlansOK'
<1>0. PoolTypeOK /\ Numbers /\ Shapes /\ QueueOK /\ PlansOK
  BY TypeParts DEF PoolInv
<1>1. ASSUME NEW p \in Procs, acquire(p) PROVE Shapes' /\ QueueOK' /\ PlansOK'
  <2>1. queue' \in Seq(Procs) /\ assigned' \subseteq Procs /\ QueueOK'
    BY <1>1, <1>0 DEF Shapes, QueueOK, acquire, semVars, growVars, procVars, shrinkVars
  <2>2. Shapes'
    BY <1>1, <1>0, <2>1 DEF Shapes, Places, Numbers, acquire, Goto, semVars, growVars, procVars, shrinkVars
  <2>3. PlansOK'
    BY <1>1, <1>0 DEF PlansOK, Shapes, acquire, Goto, semVars, growVars, procVars, shrinkVars
  <2> QED BY <2>1, <2>2, <2>3
<1>2. ASSUME NEW p \in Procs, TryAcquire(p) PROVE Shapes' /\ QueueOK' /\ PlansOK'
  <2>1. queue' \in Seq(Procs) /\ assigned' \subseteq Procs /\ QueueOK'
    BY <1>2, <1>0 DEF Shapes, QueueOK, TryAcquire, semVars, growVars, procVars, shrinkVars
  <2>2. Shapes'
    <3>1. PICK l \in Places : Goto(p, l)
      BY <1>2 DEF TryAcquire, Places, Dropped
    <3>2. pc' \in [Procs -> Places]
      BY <1>0, <3>1 DEF Goto, Shapes
    <3>3. notified' \subseteq Procs /\ seen' = seen /\ shrinker' = shrinker
      BY <1>2, <1>0 DEF Shapes, TryAcquire, procVars, shrinkVars
    <3> QED BY <1>0, <2>1, <3>2, <3>3 DEF Shapes
  <2>3. PlansOK'
    BY <1>2, <1>0 DEF PlansOK, Shapes, TryAcquire, Goto, semVars, growVars, procVars, shrinkVars
  <2> QED BY <2>1, <2>2, <2>3
<1>3. ASSUME NEW p \in Procs, acquire_item(p) PROVE Shapes' /\ QueueOK' /\ PlansOK'
  <2>1. queue' \in Seq(Procs) /\ assigned' \subseteq Procs /\ QueueOK'
    BY <1>3, <1>0 DEF Shapes, QueueOK, acquire_item, semVars, growVars, procVars, shrinkVars
  <2>2. Shapes'
    BY <1>3, <1>0, <2>1 DEF Shapes, Places, Numbers, acquire_item, Goto, semVars, growVars, procVars, shrinkVars
  <2>3. PlansOK'
    BY <1>3, <1>0 DEF PlansOK, Shapes, acquire_item, Goto, semVars, growVars, procVars, shrinkVars
  <2> QED BY <2>1, <2>2, <2>3
<1>4. ASSUME NEW p \in Procs, LoadActive(p) PROVE Shapes' /\ QueueOK' /\ PlansOK'
  <2>1. queue' \in Seq(Procs) /\ assigned' \subseteq Procs /\ QueueOK'
    BY <1>4, <1>0 DEF Shapes, QueueOK, LoadActive, semVars, growVars, procVars, shrinkVars
  <2>2. Shapes'
    BY <1>4, <1>0, <2>1 DEF Shapes, Places, Numbers, LoadActive, Goto, semVars, growVars, procVars, shrinkVars
  <2>3. PlansOK'
    BY <1>4, <1>0 DEF PlansOK, Shapes, LoadActive, Goto, semVars, growVars, procVars, shrinkVars
  <2> QED BY <2>1, <2>2, <2>3
<1>5. ASSUME NEW p \in Procs, try_increase_active_for_growth(p) PROVE Shapes' /\ QueueOK' /\ PlansOK'
  <2>1. queue' \in Seq(Procs) /\ assigned' \subseteq Procs /\ QueueOK'
    BY <1>5, <1>0 DEF Shapes, QueueOK, try_increase_active_for_growth, semVars, growVars, procVars, shrinkVars
  <2>2. Shapes'
    BY <1>5, <1>0, <2>1 DEF Shapes, Places, Numbers, try_increase_active_for_growth, Goto, semVars, growVars, procVars, shrinkVars
  <2>3. PlansOK'
    BY <1>5, <1>0 DEF PlansOK, Shapes, try_increase_active_for_growth, Goto, semVars, growVars, procVars, shrinkVars
  <2> QED BY <2>1, <2>2, <2>3
<1>6. ASSUME NEW p \in Procs, GrowFails(p) PROVE Shapes' /\ QueueOK' /\ PlansOK'
  <2>1. queue' \in Seq(Procs) /\ assigned' \subseteq Procs /\ QueueOK'
    BY <1>6, <1>0 DEF Shapes, QueueOK, GrowFails, semVars, growVars, procVars, shrinkVars
  <2>2. Shapes'
    BY <1>6, <1>0, <2>1 DEF Shapes, Places, Numbers, GrowFails, Goto, semVars, growVars, procVars, shrinkVars
  <2>3. PlansOK'
    BY <1>6, <1>0 DEF PlansOK, Shapes, GrowFails, Goto, semVars, growVars, procVars, shrinkVars
  <2> QED BY <2>1, <2>2, <2>3
<1>7. ASSUME NEW p \in Procs, PollSemaphore(p) PROVE Shapes' /\ QueueOK' /\ PlansOK'
  <2>1. queue' \in Seq(Procs) /\ assigned' \subseteq Procs /\ QueueOK'
    <3>1. CASE p \in assigned
      <4>1. queue' = queue /\ assigned' = assigned \ {p}
        BY <1>7, <3>1 DEF PollSemaphore
      <4> QED BY <1>0, <4>1 DEF Shapes, QueueOK
    <3>2. CASE p \notin assigned /\ queue' = queue /\ assigned' = assigned
      BY <1>0, <3>2 DEF Shapes, QueueOK
    <3>3. CASE p \notin assigned /\ p \notin ToSet(queue) /\ queue' = Append(queue, p) /\ assigned' = assigned
      <4>1. queue \in Seq(Procs)
        BY <1>0 DEF Shapes
      <4>2. /\ Append(queue, p) \in Seq(Procs) /\ Distinct(Append(queue, p))
            /\ ToSet(Append(queue, p)) = ToSet(queue) \cup {p}
        BY <1>0, <3>3, <4>1, ToSetAppend DEF QueueOK
      <4> QED BY <1>0, <3>3, <4>2 DEF Shapes, QueueOK
    <3> QED BY <1>7, <3>1, <3>2, <3>3 DEF PollSemaphore
  <2>2. Shapes'
    BY <1>7, <1>0, <2>1 DEF Shapes, Places, Numbers, PollSemaphore, Goto, semVars, growVars, procVars, shrinkVars
  <2>3. PlansOK'
    BY <1>7, <1>0 DEF PlansOK, Shapes, PollSemaphore, Goto, semVars, growVars, procVars, shrinkVars
  <2> QED BY <2>1, <2>2, <2>3
<1>8. ASSUME NEW p \in Procs, PollNotified(p) PROVE Shapes' /\ QueueOK' /\ PlansOK'
  <2>1. queue' \in Seq(Procs) /\ assigned' \subseteq Procs /\ QueueOK'
    <3>1. CASE p \in notified
      BY <1>8, <1>0, <3>1, LeaveCounts DEF PollNotified
    <3>2. CASE p \notin notified
      BY <1>8, <1>0, <3>2 DEF PollNotified, Shapes, QueueOK, semVars
    <3> QED BY <3>1, <3>2
  <2>2. Shapes'
    <3>1. PICK l \in Places : Goto(p, l)
      BY <1>8 DEF PollNotified, Places, Dropped
    <3>2. pc' \in [Procs -> Places]
      BY <1>0, <3>1 DEF Goto, Shapes
    <3>3. notified' \subseteq Procs /\ seen' = seen /\ shrinker' = shrinker
      BY <1>8, <1>0 DEF Shapes, PollNotified, shrinkVars
    <3> QED BY <1>0, <2>1, <3>2, <3>3 DEF Shapes
  <2>3. PlansOK'
    BY <1>8, <1>0 DEF PlansOK, Shapes, PollNotified, Goto, semVars, growVars, procVars, shrinkVars
  <2> QED BY <2>1, <2>2, <2>3
<1>9. ASSUME NEW p \in Procs, Wake(p) PROVE Shapes' /\ QueueOK' /\ PlansOK'
  <2>1. queue' \in Seq(Procs) /\ assigned' \subseteq Procs /\ QueueOK'
    BY <1>9, <1>0 DEF Shapes, QueueOK, Wake, semVars, growVars, procVars, shrinkVars
  <2>2. Shapes'
    BY <1>9, <1>0, <2>1 DEF Shapes, Places, Numbers, Wake, Goto, semVars, growVars, procVars, shrinkVars
  <2>3. PlansOK'
    BY <1>9, <1>0 DEF PlansOK, Shapes, Wake, Goto, semVars, growVars, procVars, shrinkVars
  <2> QED BY <2>1, <2>2, <2>3
<1>10. ASSUME NEW p \in Procs, Cancel(p) PROVE Shapes' /\ QueueOK' /\ PlansOK'
  <2>1. queue' \in Seq(Procs) /\ assigned' \subseteq Procs /\ QueueOK'
    BY <1>10, <1>0, LeaveCounts DEF Cancel
  <2>2. Shapes'
    BY <1>10, <1>0, <2>1 DEF Shapes, Places, Numbers, Cancel, Goto, semVars, growVars, procVars, shrinkVars
  <2>3. PlansOK'
    BY <1>10, <1>0 DEF PlansOK, Shapes, Cancel, Goto, semVars, growVars, procVars, shrinkVars
  <2> QED BY <2>1, <2>2, <2>3
<1>11. ASSUME NEW p \in Procs, Reclaim(p) PROVE Shapes' /\ QueueOK' /\ PlansOK'
  <2>1. queue' \in Seq(Procs) /\ assigned' \subseteq Procs /\ QueueOK'
    BY <1>11, <1>0 DEF Shapes, QueueOK, Reclaim, semVars, growVars, procVars, shrinkVars
  <2>2. Shapes'
    BY <1>11, <1>0, <2>1 DEF Shapes, Places, Numbers, Reclaim, Goto, semVars, growVars, procVars, shrinkVars
  <2>3. PlansOK'
    BY <1>11, <1>0 DEF PlansOK, Shapes, Reclaim, Goto, semVars, growVars, procVars, shrinkVars
  <2> QED BY <2>1, <2>2, <2>3
<1>12. ASSUME NEW p \in Procs, ReclaimLocked(p) PROVE Shapes' /\ QueueOK' /\ PlansOK'
  <2>1. queue' \in Seq(Procs) /\ assigned' \subseteq Procs /\ QueueOK'
    BY <1>12, <1>0 DEF Shapes, QueueOK, ReclaimLocked, semVars, growVars, procVars, shrinkVars
  <2>2. Shapes'
    <3>1. PICK l \in Places : Goto(p, l)
      BY <1>12 DEF ReclaimLocked, Places, Dropped
    <3>2. pc' \in [Procs -> Places]
      BY <1>0, <3>1 DEF Goto, Shapes
    <3>3. notified' \subseteq Procs /\ seen' = seen /\ shrinker' = shrinker
      BY <1>12, <1>0 DEF Shapes, ReclaimLocked, procVars, shrinkVars
    <3> QED BY <1>0, <2>1, <3>2, <3>3 DEF Shapes
  <2>3. PlansOK'
    BY <1>12, <1>0 DEF PlansOK, Shapes, ReclaimLocked, Goto, semVars, growVars, procVars, shrinkVars, Dropped
  <2> QED BY <2>1, <2>2, <2>3
<1>13. ASSUME NEW p \in Procs, record_deletion(p) PROVE Shapes' /\ QueueOK' /\ PlansOK'
  <2>1. queue' \in Seq(Procs) /\ assigned' \subseteq Procs /\ QueueOK'
    BY <1>13, <1>0 DEF Shapes, QueueOK, record_deletion, semVars, growVars, procVars, shrinkVars
  <2>2. Shapes'
    BY <1>13, <1>0, <2>1 DEF Shapes, Places, Numbers, record_deletion, Goto, semVars, growVars, procVars, shrinkVars, notify_waiters
  <2>3. PlansOK'
    BY <1>13, <1>0 DEF PlansOK, Shapes, record_deletion, Goto, semVars, growVars, procVars, shrinkVars, notify_waiters
  <2> QED BY <2>1, <2>2, <2>3
<1>14. ASSUME NEW p \in Procs, PushItem(p) PROVE Shapes' /\ QueueOK' /\ PlansOK'
  <2>1. queue' \in Seq(Procs) /\ assigned' \subseteq Procs /\ QueueOK'
    BY <1>14, <1>0 DEF Shapes, QueueOK, PushItem, semVars, growVars, procVars, shrinkVars
  <2>2. Shapes'
    BY <1>14, <1>0, <2>1 DEF Shapes, Places, Numbers, PushItem, Goto, semVars, growVars, procVars, shrinkVars
  <2>3. PlansOK'
    BY <1>14, <1>0 DEF PlansOK, Shapes, PushItem, Goto, semVars, growVars, procVars, shrinkVars
  <2> QED BY <2>1, <2>2, <2>3
<1>15. ASSUME NEW p \in Procs, AddPermit(p) PROVE Shapes' /\ QueueOK' /\ PlansOK'
  <2>1. queue' \in Seq(Procs) /\ assigned' \subseteq Procs /\ QueueOK'
    BY <1>15, <1>0, ReleaseCounts DEF AddPermit, add_permit
  <2>2. Shapes'
    BY <1>15, <1>0, <2>1 DEF Shapes, Places, Numbers, AddPermit, Goto, semVars, growVars, procVars, shrinkVars
  <2>3. PlansOK'
    BY <1>15, <1>0 DEF PlansOK, Shapes, AddPermit, Goto, semVars, growVars, procVars, shrinkVars
  <2> QED BY <2>1, <2>2, <2>3
<1>16. ASSUME enable_shrinking_if_grace_elapsed PROVE Shapes' /\ QueueOK' /\ PlansOK'
  <2>1. queue' \in Seq(Procs) /\ assigned' \subseteq Procs /\ QueueOK'
    BY <1>16, <1>0 DEF Shapes, QueueOK, enable_shrinking_if_grace_elapsed, semVars, growVars, procVars, shrinkVars
  <2>2. Shapes'
    BY <1>16, <1>0, <2>1 DEF Shapes, Places, Numbers, enable_shrinking_if_grace_elapsed, semVars, growVars, procVars, shrinkVars
  <2>3. PlansOK'
    BY <1>16, <1>0 DEF PlansOK, Shapes, enable_shrinking_if_grace_elapsed, semVars, growVars, procVars, shrinkVars
  <2> QED BY <2>1, <2>2, <2>3
<1>17. ASSUME PlanBatch PROVE Shapes' /\ QueueOK' /\ PlansOK'
  <2>1. queue' \in Seq(Procs) /\ assigned' \subseteq Procs /\ QueueOK'
    BY <1>17, <1>0 DEF Shapes, QueueOK, PlanBatch, semVars, growVars, procVars, shrinkVars
  <2>2. Shapes'
    BY <1>17, <1>0, <2>1 DEF Shapes, Places, Numbers, PlanBatch, semVars, growVars, procVars, shrinkVars
  <2>3. PlansOK'
    BY <1>17, <1>0 DEF PlansOK, Shapes, PlanBatch, semVars, growVars, procVars, shrinkVars
  <2> QED BY <2>1, <2>2, <2>3
<1>18. ASSUME CheckExcess PROVE Shapes' /\ QueueOK' /\ PlansOK'
  <2>1. queue' \in Seq(Procs) /\ assigned' \subseteq Procs /\ QueueOK'
    BY <1>18, <1>0 DEF Shapes, QueueOK, CheckExcess, semVars, growVars, procVars, shrinkVars
  <2>2. Shapes'
    BY <1>18, <1>0, <2>1 DEF Shapes, Places, Numbers, CheckExcess, semVars, growVars, procVars, shrinkVars
  <2>3. PlansOK'
    BY <1>18, <1>0 DEF PlansOK, Shapes, CheckExcess, semVars, growVars, procVars, shrinkVars
  <2> QED BY <2>1, <2>2, <2>3
<1>19. ASSUME TakePermit PROVE Shapes' /\ QueueOK' /\ PlansOK'
  <2>1. queue' \in Seq(Procs) /\ assigned' \subseteq Procs /\ QueueOK'
    BY <1>19, <1>0 DEF Shapes, QueueOK, TakePermit, semVars, growVars, procVars, shrinkVars
  <2>2. Shapes'
    BY <1>19, <1>0, <2>1 DEF Shapes, Places, Numbers, TakePermit, semVars, growVars, procVars, shrinkVars
  <2>3. PlansOK'
    BY <1>19, <1>0 DEF PlansOK, Shapes, TakePermit, semVars, growVars, procVars, shrinkVars
  <2> QED BY <2>1, <2>2, <2>3
<1>20. ASSUME try_shrink_available_item PROVE Shapes' /\ QueueOK' /\ PlansOK'
  <2>1. queue' \in Seq(Procs) /\ assigned' \subseteq Procs /\ QueueOK'
    <3>1. CASE UNCHANGED semVars
      BY <1>0, <3>1 DEF Shapes, QueueOK, semVars
    <3>2. CASE add_permit
      BY <1>0, <3>2, ReleaseCounts DEF add_permit
    <3> QED BY <1>20, <3>1, <3>2 DEF try_shrink_available_item
  <2>2. Shapes'
    BY <1>20, <1>0, <2>1 DEF Shapes, Places, Numbers, try_shrink_available_item, semVars, growVars, procVars, shrinkVars
  <2>3. PlansOK'
    BY <1>20, <1>0 DEF PlansOK, Shapes, try_shrink_available_item, semVars, growVars, procVars, shrinkVars
  <2> QED BY <2>1, <2>2, <2>3
<1>21. ASSUME ShrinkerNotifies PROVE Shapes' /\ QueueOK' /\ PlansOK'
  <2>1. queue' \in Seq(Procs) /\ assigned' \subseteq Procs /\ QueueOK'
    BY <1>21, <1>0 DEF Shapes, QueueOK, ShrinkerNotifies, semVars, growVars, procVars, shrinkVars
  <2>2. Shapes'
    BY <1>21, <1>0, <2>1 DEF Shapes, Places, Numbers, ShrinkerNotifies, semVars, growVars, procVars, shrinkVars, notify_waiters
  <2>3. PlansOK'
    BY <1>21, <1>0 DEF PlansOK, Shapes, ShrinkerNotifies, semVars, growVars, procVars, shrinkVars, notify_waiters
  <2> QED BY <2>1, <2>2, <2>3
<1>22. ASSUME GraceElapses PROVE Shapes' /\ QueueOK' /\ PlansOK'
  <2>1. queue' \in Seq(Procs) /\ assigned' \subseteq Procs /\ QueueOK'
    BY <1>22, <1>0 DEF Shapes, QueueOK, GraceElapses, semVars, growVars, procVars, shrinkVars
  <2>2. Shapes'
    BY <1>22, <1>0, <2>1 DEF Shapes, Places, Numbers, GraceElapses, semVars, growVars, procVars, shrinkVars
  <2>3. PlansOK'
    BY <1>22, <1>0 DEF PlansOK, Shapes, GraceElapses, semVars, growVars, procVars, shrinkVars
  <2> QED BY <2>1, <2>2, <2>3
<1>23. CASE UNCHANGED vars
  BY <1>0, <1>23 DEF vars, semVars, growVars, procVars, shrinkVars, Shapes, QueueOK, PlansOK
<1>24. ASSUME NEW p \in Procs, ReclaimDecides(p) PROVE Shapes' /\ QueueOK' /\ PlansOK'
  <2>1. queue' \in Seq(Procs) /\ assigned' \subseteq Procs /\ QueueOK'
    BY <1>24, <1>0 DEF Shapes, QueueOK, ReclaimDecides, semVars, growVars, procVars, shrinkVars
  <2>2. Shapes'
    <3>1. PICK l \in Places : Goto(p, l)
      BY <1>24 DEF ReclaimDecides, Places, Dropped
    <3>2. pc' \in [Procs -> Places]
      BY <1>0, <3>1 DEF Goto, Shapes
    <3>3. notified' \subseteq Procs /\ seen' = seen /\ shrinker' = shrinker
      BY <1>24, <1>0 DEF Shapes, ReclaimDecides, procVars, shrinkVars
    <3> QED BY <1>0, <2>1, <3>2, <3>3 DEF Shapes
  <2>3. PlansOK'
    BY <1>24, <1>0 DEF PlansOK, Shapes, ReclaimDecides, Goto, semVars, growVars, procVars, shrinkVars, Dropped
  <2> QED BY <2>1, <2>2, <2>3
<1> QED
  BY Zenon, <1>1, <1>2, <1>3, <1>4, <1>5, <1>6, <1>7, <1>8, <1>9, <1>10, <1>11, <1>12, <1>13, <1>14, <1>15, <1>16, <1>17, <1>18, <1>19, <1>20, <1>21, <1>22, <1>23, <1>24 DEF Next, Progress, ShrinkerNext

(* The permits that the semaphore has, given out or not. *)
Semaphore == permits + Cardinality(assigned)

Balanced ==
    /\ Numbers /\ PermitsAreBacked /\ ActiveIsExact /\ WithinCapacity

(* What each step does to the numbers of items and permits cancels out. *)
LEMMA BalanceStep ==
  ASSUME PoolInv, [Next]_vars
  PROVE  Balanced'
<1>0. PoolTypeOK /\ Numbers /\ Shapes /\ QueueOK /\ PlansOK
  BY TypeParts DEF PoolInv
<1>card. IsFiniteSet(assigned) /\ Cardinality(assigned) \in Nat
  <2>1. assigned \in SUBSET Procs
    BY <1>0 DEF Shapes
  <2> QED BY <2>1, FS_Subset, FS_CardinalityType, PoolAssumption
<1> DEFINE r == IF shrinker = "remove" THEN 1 ELSE 0
<1>now. /\ items \in Nat /\ permits \in Nat /\ active \in Nat /\ batch \in Nat /\ left \in Nat
        /\ Semaphore \in Nat /\ r \in {0, 1}
        /\ items = Semaphore + Claims + r
        /\ active = items + InUse
        /\ min_capacity <= active /\ active <= max_capacity
        /\ min_capacity \in Nat /\ max_capacity \in Nat
  <2>1. items = Semaphore + Claims + r /\ active = items + InUse /\ active \in min_capacity .. max_capacity
    BY DEF PoolInv, PermitsAreBacked, ActiveIsExact, WithinCapacity, Semaphore
  <2>2. Semaphore \in Nat
    BY <1>0, <1>card DEF Numbers, Semaphore
  <2> QED BY <1>0, <2>1, <2>2, PoolAssumption DEF Numbers
<1>goal. ASSUME items' \in Nat, permits' \in Nat, active' \in Nat, batch' \in Nat, left' \in Nat,
                items' = Semaphore' + Claims' + r', active' = items' + InUse',
                min_capacity <= active', active' <= max_capacity
         PROVE  Balanced'
  BY <1>goal, <1>now DEF Balanced, Numbers, PermitsAreBacked, ActiveIsExact, WithinCapacity, Semaphore
<1>quiet. ASSUME Claims' = Claims, InUse' = InUse,
                 r' = r /\ UNCHANGED <<items, permits, assigned, active, batch, left>>
          PROVE  Balanced'
  <2>1. Semaphore' = Semaphore
    BY <1>quiet DEF Semaphore
  <2> QED BY <1>quiet, <2>1, <1>now, <1>goal
<1>grow. \A p \in Procs : pc[p] = "cas" /\ active = seen[p] => active < max_capacity
  BY <1>0, <1>now DEF PlansOK
<1>left. shrinker = "deleted" => batch - 1 \in Nat
  BY <1>0, <1>now DEF PlansOK
<1>excess. (excess_idle_capacity + 4 - 1) \div 4 \in Nat
  <2>1. excess_idle_capacity \in Nat
    BY <1>now DEF excess_idle_capacity, Monus
  <2> QED BY <2>1
<1>1. ASSUME NEW p \in Procs, acquire(p) PROVE Balanced'
  <2>1. Claims \in Nat /\ Claims' = Claims /\ InUse \in Nat /\ InUse' = InUse
    BY <1>1, <1>0, GotoCounts DEF acquire
  <2>2. /\ items' = items /\ active' = active /\ batch' = batch /\ left' \in Nat /\ r' = r
    BY <1>1, <1>now DEF acquire, semVars, growVars, procVars, shrinkVars
  <2>3. permits' \in Nat /\ Semaphore' = Semaphore
    BY <1>1, <1>now DEF acquire, Semaphore, semVars
  <2> HIDE DEF r
  <2> QED BY <2>1, <2>2, <2>3, <1>now, <1>goal, <1>now, <1>1 DEF acquire
<1>2. ASSUME NEW p \in Procs, TryAcquire(p) PROVE Balanced'
  <2>1. CASE permits > 0
    <3>1. Claims \in Nat /\ Claims' = Claims + 1 /\ InUse \in Nat /\ InUse' = InUse
      BY <1>2, <2>1, <1>0, GotoCounts DEF TryAcquire
    <3>2. /\ items' = items /\ active' = active /\ batch' = batch /\ left' = left /\ r' = r
      BY <1>2, <2>1 DEF TryAcquire, semVars, growVars, procVars, shrinkVars
    <3>3. permits' \in Nat /\ Semaphore' = Semaphore - 1
      BY <1>2, <2>1, <1>now, <1>card DEF TryAcquire, Semaphore
    <3> HIDE DEF r
    <3> QED BY <3>1, <3>2, <3>3, <1>now, <1>goal, <1>2, <2>1
  <2>2. CASE permits = 0
    <3>1. Claims' = Claims /\ InUse' = InUse
      BY <1>2, <2>2, <1>0, GotoCounts DEF TryAcquire
    <3>2. r' = r /\ UNCHANGED <<items, permits, assigned, active, batch, left>>
      BY <1>2, <2>2 DEF TryAcquire, semVars, growVars, procVars, shrinkVars
    <3> QED BY <3>1, <3>2, <1>quiet
  <2> QED BY <1>2, <2>1, <2>2, <1>now DEF TryAcquire
<1>3. ASSUME NEW p \in Procs, acquire_item(p) PROVE Balanced'
  <2>1. Claims \in Nat /\ Claims' = Claims - 1 /\ Claims > 0 /\ InUse \in Nat /\ InUse' = InUse + 1
    BY <1>3, <1>0, GotoCounts DEF acquire_item
  <2>2. /\ items' = items - 1 /\ active' = active /\ batch' = batch /\ left' = left /\ r' = r
    BY <1>3 DEF acquire_item, semVars, growVars, procVars, shrinkVars
  <2>3. permits' \in Nat /\ Semaphore' = Semaphore
    BY <1>3, <1>now DEF acquire_item, Semaphore, semVars
  <2> HIDE DEF r
  <2> QED BY <2>1, <2>2, <2>3, <1>now, <1>goal
<1>4. ASSUME NEW p \in Procs, LoadActive(p) PROVE Balanced'
  <2>1. Claims' = Claims /\ InUse' = InUse
    BY <1>4, <1>0, GotoCounts DEF LoadActive
  <2>2. r' = r /\ UNCHANGED <<items, permits, assigned, active, batch, left>>
    BY <1>4 DEF LoadActive, semVars, growVars, procVars, shrinkVars
  <2> QED BY <2>1, <2>2, <1>quiet
<1>5. ASSUME NEW p \in Procs, try_increase_active_for_growth(p) PROVE Balanced'
  <2>1. Claims \in Nat /\ Claims' = Claims /\ InUse \in Nat /\ InUse' = InUse + 1
    BY <1>5, <1>0, GotoCounts DEF try_increase_active_for_growth, GrowExact
  <2>2. /\ items' = items /\ active' = active + 1 /\ batch' = batch /\ left' = left /\ r' = r
    BY <1>5, <1>grow DEF try_increase_active_for_growth, semVars, growVars, procVars, shrinkVars, GrowExact
  <2>3. permits' \in Nat /\ Semaphore' = Semaphore
    BY <1>5, <1>now DEF try_increase_active_for_growth, Semaphore, semVars
  <2> HIDE DEF r
  <2> QED BY <2>1, <2>2, <2>3, <1>now, <1>goal, <1>grow, <1>5 DEF try_increase_active_for_growth, GrowExact
<1>6. ASSUME NEW p \in Procs, GrowFails(p) PROVE Balanced'
  <2>1. Claims' = Claims /\ InUse' = InUse
    BY <1>6, <1>0, GotoCounts DEF GrowFails
  <2>2. r' = r /\ UNCHANGED <<items, permits, assigned, active, batch, left>>
    BY <1>6 DEF GrowFails, semVars, growVars, procVars, shrinkVars
  <2> QED BY <2>1, <2>2, <1>quiet
<1>7. ASSUME NEW p \in Procs, PollSemaphore(p) PROVE Balanced'
  <2>1. CASE p \in assigned
    <3>1. Claims \in Nat /\ Claims' = Claims + 1 /\ InUse \in Nat /\ InUse' = InUse
      BY <1>7, <2>1, <1>0, GotoCounts DEF PollSemaphore
    <3>2. /\ items' = items /\ active' = active /\ batch' = batch /\ left' = left /\ r' = r
      BY <1>7, <2>1 DEF PollSemaphore, semVars, growVars, procVars, shrinkVars
    <3>3. permits' \in Nat /\ Semaphore' = Semaphore - 1
      <4>1. Cardinality(assigned \ {p})
              = IF p \in assigned THEN Cardinality(assigned) - 1 ELSE Cardinality(assigned)
        BY <1>card, FS_RemoveElement, Zenon
      <4>a. permits' = permits /\ assigned' = assigned \ {p}
        BY <1>7, <2>1 DEF PollSemaphore
      <4>2. permits' = permits /\ Cardinality(assigned') = Cardinality(assigned) - 1
        BY <1>7, <2>1, <4>1, <4>a
      <4> QED BY <4>2, <1>now, <1>card DEF Semaphore
    <3> HIDE DEF r
    <3> QED BY <3>1, <3>2, <3>3, <1>now, <1>goal, <1>7, <2>1
  <2>2. CASE p \notin assigned /\ permits > 0
    <3>1. Claims \in Nat /\ Claims' = Claims + 1 /\ InUse \in Nat /\ InUse' = InUse
      BY <1>7, <2>2, <1>0, GotoCounts DEF PollSemaphore
    <3>2. /\ items' = items /\ active' = active /\ batch' = batch /\ left' = left /\ r' = r
      BY <1>7, <2>2 DEF PollSemaphore, semVars, growVars, procVars, shrinkVars
    <3>3. permits' \in Nat /\ Semaphore' = Semaphore - 1
      BY <1>7, <2>2, <1>now, <1>card DEF PollSemaphore, Semaphore
    <3> HIDE DEF r
    <3> QED BY <3>1, <3>2, <3>3, <1>now, <1>goal, <1>7, <2>2
  <2>3. CASE p \notin assigned /\ permits = 0
    <3>1. Claims' = Claims /\ InUse' = InUse
      BY <1>7, <2>3, <1>0, GotoCounts DEF PollSemaphore
    <3>2. r' = r /\ UNCHANGED <<items, permits, assigned, active, batch, left>>
      BY <1>7, <2>3 DEF PollSemaphore, semVars, growVars, procVars, shrinkVars
    <3> QED BY <3>1, <3>2, <1>quiet
  <2> QED BY <1>7, <2>1, <2>2, <2>3, <1>now DEF PollSemaphore
<1>8. ASSUME NEW p \in Procs, PollNotified(p) PROVE Balanced'
  <2>1. CASE p \in notified
    <3>1. Claims \in Nat /\ Claims' = Claims /\ InUse \in Nat /\ InUse' = InUse
      BY <1>8, <2>1, <1>0, GotoCounts DEF PollNotified
    <3>2. /\ items' = items /\ active' = active /\ batch' = batch /\ left' = left /\ r' = r
      BY <1>8, <2>1 DEF PollNotified, semVars, growVars, procVars, shrinkVars
    <3>3. permits' \in Nat /\ Semaphore' = Semaphore
      <4>1. LeaveQueue(p)
        BY <1>8, <2>1 DEF PollNotified
      <4> QED BY <4>1, <1>0, LeaveCounts DEF Semaphore
    <3> HIDE DEF r
    <3> QED BY <3>1, <3>2, <3>3, <1>now, <1>goal, <1>8, <2>1
  <2>2. CASE p \notin notified
    <3>1. Claims' = Claims /\ InUse' = InUse
      BY <1>8, <2>2, <1>0, GotoCounts DEF PollNotified
    <3>2. r' = r /\ UNCHANGED <<items, permits, assigned, active, batch, left>>
      BY <1>8, <2>2 DEF PollNotified, semVars, growVars, procVars, shrinkVars
    <3> QED BY <3>1, <3>2, <1>quiet
  <2> QED BY <1>8, <2>1, <2>2, <1>now DEF PollNotified
<1>9. ASSUME NEW p \in Procs, Wake(p) PROVE Balanced'
  <2>1. Claims' = Claims /\ InUse' = InUse
    BY <1>9, <1>0, GotoCounts DEF Wake
  <2>2. r' = r /\ UNCHANGED <<items, permits, assigned, active, batch, left>>
    BY <1>9 DEF Wake, semVars, growVars, procVars, shrinkVars
  <2> QED BY <2>1, <2>2, <1>quiet
<1>10. ASSUME NEW p \in Procs, Cancel(p) PROVE Balanced'
  <2>1. Claims \in Nat /\ Claims' = Claims /\ InUse \in Nat /\ InUse' = InUse
    BY <1>10, <1>0, GotoCounts DEF Cancel
  <2>2. /\ items' = items /\ active' = active /\ batch' = batch /\ left' = left /\ r' = r
    BY <1>10 DEF Cancel, semVars, growVars, procVars, shrinkVars
  <2>3. permits' \in Nat /\ Semaphore' = Semaphore
    <3>1. LeaveQueue(p)
      BY <1>10 DEF Cancel
    <3> QED BY <3>1, <1>0, LeaveCounts DEF Semaphore
  <2> HIDE DEF r
  <2> QED BY <2>1, <2>2, <2>3, <1>now, <1>goal
<1>11. ASSUME NEW p \in Procs, Reclaim(p) PROVE Balanced'
  <2>1. Claims' = Claims /\ InUse' = InUse
    BY <1>11, <1>0, GotoCounts DEF Reclaim
  <2>2. r' = r /\ UNCHANGED <<items, permits, assigned, active, batch, left>>
    BY <1>11 DEF Reclaim, semVars, growVars, procVars, shrinkVars
  <2> QED BY <2>1, <2>2, <1>quiet
<1>12. ASSUME NEW p \in Procs, ReclaimLocked(p) PROVE Balanced'
  <2>1. PICK l \in {"decide", "push"} : Goto(p, l)
    BY <1>12 DEF ReclaimLocked
  <2>2. Claims' = Claims /\ InUse' = InUse
    BY <1>12, <2>1, <1>0, GotoCounts DEF ReclaimLocked
  <2>3. r' = r /\ UNCHANGED <<items, permits, assigned, active, batch, left>>
    BY <1>12 DEF ReclaimLocked, semVars, growVars, procVars, shrinkVars
  <2> QED BY <2>2, <2>3, <1>quiet
<1>13. ASSUME NEW p \in Procs, record_deletion(p) PROVE Balanced'
  <2>1. Claims' = Claims /\ InUse' = InUse
    BY <1>13, <1>0, GotoCounts DEF record_deletion
  <2>2. r' = r /\ UNCHANGED <<items, permits, assigned, active, batch, left>>
    BY <1>13 DEF record_deletion, semVars, growVars, procVars, shrinkVars
  <2> QED BY <2>1, <2>2, <1>quiet
<1>14. ASSUME NEW p \in Procs, PushItem(p) PROVE Balanced'
  <2>1. Claims \in Nat /\ Claims' = Claims + 1 /\ InUse \in Nat /\ InUse' = InUse - 1 /\ InUse > 0
    BY <1>14, <1>0, GotoCounts DEF PushItem
  <2>2. /\ items' = items + 1 /\ active' = active /\ batch' = batch /\ left' = left /\ r' = r
    BY <1>14 DEF PushItem, semVars, growVars, procVars, shrinkVars
  <2>3. permits' \in Nat /\ Semaphore' = Semaphore
    BY <1>14, <1>now DEF PushItem, Semaphore, semVars
  <2> HIDE DEF r
  <2> QED BY <2>1, <2>2, <2>3, <1>now, <1>goal
<1>15. ASSUME NEW p \in Procs, AddPermit(p) PROVE Balanced'
  <2>1. Claims \in Nat /\ Claims' = Claims - 1 /\ Claims > 0 /\ InUse \in Nat /\ InUse' = InUse
    BY <1>15, <1>0, GotoCounts DEF AddPermit
  <2>2. /\ items' = items /\ active' = active /\ batch' = batch /\ left' = left /\ r' = r
    BY <1>15 DEF AddPermit, semVars, growVars, procVars, shrinkVars
  <2>3. permits' \in Nat /\ Semaphore' = Semaphore + 1
    <3>1. ReleaseTo(queue, assigned)
      BY <1>15 DEF AddPermit, add_permit
    <3> QED BY <3>1, <1>0, <1>card, ReleaseCounts DEF Semaphore
  <2> HIDE DEF r
  <2> QED BY <2>1, <2>2, <2>3, <1>now, <1>goal
<1>16. ASSUME enable_shrinking_if_grace_elapsed PROVE Balanced'
  <2>1. Claims' = Claims /\ InUse' = InUse
    BY <1>16, <1>0, StayCounts DEF enable_shrinking_if_grace_elapsed, semVars, growVars, procVars, shrinkVars
  <2>2. r' = r /\ UNCHANGED <<items, permits, assigned, active, batch, left>>
    BY <1>16 DEF enable_shrinking_if_grace_elapsed, semVars, growVars, procVars, shrinkVars
  <2> QED BY <2>1, <2>2, <1>quiet
<1>17. ASSUME PlanBatch PROVE Balanced'
  <2>1. Claims \in Nat /\ InUse \in Nat /\ Claims' = Claims /\ InUse' = InUse
    BY <1>17, <1>0, StayCounts DEF PlanBatch, semVars, growVars, procVars, shrinkVars
  <2>2. /\ items' = items /\ active' = active /\ batch' \in Nat /\ left' = left /\ r' = r
    BY <1>17, <1>excess DEF PlanBatch, semVars, growVars, procVars, shrinkVars, SHRINK_BATCH_DIVISOR
  <2>3. permits' \in Nat /\ Semaphore' = Semaphore
    BY <1>17, <1>now DEF PlanBatch, Semaphore, semVars
  <2> HIDE DEF r
  <2> QED BY <2>1, <2>2, <2>3, <1>now, <1>goal, <1>excess, <1>17 DEF PlanBatch, SHRINK_BATCH_DIVISOR
<1>18. ASSUME CheckExcess PROVE Balanced'
  <2>1. Claims' = Claims /\ InUse' = InUse
    BY <1>18, <1>0, StayCounts DEF CheckExcess, semVars, growVars, procVars, shrinkVars
  <2>2. r' = r /\ UNCHANGED <<items, permits, assigned, active, batch, left>>
    BY <1>18 DEF CheckExcess, semVars, growVars, procVars, shrinkVars
  <2> QED BY <2>1, <2>2, <1>quiet
<1>19. ASSUME TakePermit PROVE Balanced'
  <2>1. CASE permits > 0
    <3>1. Claims \in Nat /\ InUse \in Nat /\ Claims' = Claims /\ InUse' = InUse
      BY <1>19, <2>1, <1>0, StayCounts DEF TakePermit, semVars, growVars, procVars, shrinkVars
    <3>2. /\ items' = items /\ active' = active /\ batch' = batch /\ left' = left /\ r' = r + 1
      BY <1>19, <2>1 DEF TakePermit, semVars, growVars, procVars, shrinkVars
    <3>3. permits' \in Nat /\ Semaphore' = Semaphore - 1
      BY <1>19, <2>1, <1>now, <1>card DEF TakePermit, Semaphore
    <3> HIDE DEF r
    <3> QED BY <3>1, <3>2, <3>3, <1>now, <1>goal, <1>19, <2>1
  <2>2. CASE permits = 0
    <3>1. Claims' = Claims /\ InUse' = InUse
      BY <1>19, <2>2, <1>0, StayCounts DEF TakePermit, semVars, growVars, procVars, shrinkVars
    <3>2. r' = r /\ UNCHANGED <<items, permits, assigned, active, batch, left>>
      BY <1>19, <2>2 DEF TakePermit, semVars, growVars, procVars, shrinkVars
    <3> QED BY <3>1, <3>2, <1>quiet
  <2> QED BY <1>19, <2>1, <2>2, <1>now DEF TakePermit
<1>20. ASSUME try_shrink_available_item PROVE Balanced'
  <2>1. CASE shrinking_is_current /\ try_decrease_active
    <3>1. Claims \in Nat /\ InUse \in Nat /\ Claims' = Claims /\ InUse' = InUse
      BY <1>20, <2>1, <1>0, StayCounts DEF try_shrink_available_item, semVars, growVars, procVars, shrinkVars
    <3>2. /\ items' = items - 1 /\ active' = active - 1 /\ batch' = batch /\ left' = left /\ r' = r - 1 /\ r = 1
      BY <1>20, <2>1 DEF try_shrink_available_item, semVars, growVars, procVars, shrinkVars, try_decrease_active
    <3>3. permits' \in Nat /\ Semaphore' = Semaphore
      BY <1>20, <2>1, <1>now DEF try_shrink_available_item, Semaphore, semVars
    <3> HIDE DEF r
    <3> QED BY <3>1, <3>2, <3>3, <1>now, <1>goal, <1>20, <2>1 DEF try_shrink_available_item, try_decrease_active
  <2>2. CASE ~(shrinking_is_current /\ try_decrease_active)
    <3>1. Claims \in Nat /\ InUse \in Nat /\ Claims' = Claims /\ InUse' = InUse
      BY <1>20, <2>2, <1>0, StayCounts DEF try_shrink_available_item, semVars, growVars, procVars, shrinkVars
    <3>2. /\ items' = items /\ active' = active /\ batch' = batch /\ left' = left /\ r' = r - 1 /\ r = 1
      BY <1>20, <2>2 DEF try_shrink_available_item, semVars, growVars, procVars, shrinkVars
    <3>3. permits' \in Nat /\ Semaphore' = Semaphore + 1
      <4>1. ReleaseTo(queue, assigned)
        BY <1>20, <2>2 DEF try_shrink_available_item, add_permit
      <4> QED BY <4>1, <1>0, <1>card, ReleaseCounts DEF Semaphore
    <3> HIDE DEF r
    <3> QED BY <3>1, <3>2, <3>3, <1>now, <1>goal, <1>20, <2>2 DEF try_shrink_available_item
  <2> QED BY <1>20, <2>1, <2>2, <1>now DEF try_shrink_available_item
<1>21. ASSUME ShrinkerNotifies PROVE Balanced'
  <2>1. Claims \in Nat /\ InUse \in Nat /\ Claims' = Claims /\ InUse' = InUse
    BY <1>21, <1>0, StayCounts DEF ShrinkerNotifies, semVars, growVars, procVars, shrinkVars
  <2>2. /\ items' = items /\ active' = active /\ batch' \in Nat /\ left' = left /\ r' = r
    BY <1>21, <1>left DEF ShrinkerNotifies, semVars, growVars, procVars, shrinkVars
  <2>3. permits' \in Nat /\ Semaphore' = Semaphore
    BY <1>21, <1>now DEF ShrinkerNotifies, Semaphore, semVars
  <2> HIDE DEF r
  <2> QED BY <2>1, <2>2, <2>3, <1>now, <1>goal, <1>left, <1>21 DEF ShrinkerNotifies
<1>22. ASSUME GraceElapses PROVE Balanced'
  <2>1. Claims' = Claims /\ InUse' = InUse
    BY <1>22, <1>0, StayCounts DEF GraceElapses, semVars, growVars, procVars, shrinkVars
  <2>2. r' = r /\ UNCHANGED <<items, permits, assigned, active, batch, left>>
    BY <1>22 DEF GraceElapses, semVars, growVars, procVars, shrinkVars
  <2> QED BY <2>1, <2>2, <1>quiet
<1>23. CASE UNCHANGED vars
  <2>1. Claims' = Claims /\ InUse' = InUse
    BY <1>0, <1>23, StayCounts DEF vars
  <2> QED BY <1>23, <2>1, <1>quiet DEF vars, semVars, growVars, procVars, shrinkVars
<1>24. ASSUME NEW p \in Procs, ReclaimDecides(p) PROVE Balanced'
  <2>1. CASE try_decrease_active
    <3>1. Claims \in Nat /\ Claims' = Claims /\ InUse \in Nat /\ InUse' = InUse - 1 /\ InUse > 0
      BY <1>24, <2>1, <1>0, GotoCounts DEF ReclaimDecides, Dropped, try_decrease_active
    <3>2. /\ items' = items /\ active' = active - 1 /\ batch' = batch /\ left' = left /\ r' = r
      BY <1>24, <2>1 DEF ReclaimDecides, semVars, growVars, procVars, shrinkVars, Dropped, try_decrease_active
    <3>3. permits' \in Nat /\ Semaphore' = Semaphore
      BY <1>24, <2>1, <1>now DEF ReclaimDecides, Semaphore, semVars
    <3> HIDE DEF r
    <3> QED BY <3>1, <3>2, <3>3, <1>now, <1>goal, <1>24, <2>1 DEF ReclaimDecides, Dropped, try_decrease_active
  <2>2. CASE ~try_decrease_active
    <3>1. Claims' = Claims /\ InUse' = InUse
      BY <1>24, <2>2, <1>0, GotoCounts DEF ReclaimDecides
    <3>2. r' = r /\ UNCHANGED <<items, permits, assigned, active, batch, left>>
      BY <1>24, <2>2 DEF ReclaimDecides, semVars, growVars, procVars, shrinkVars
    <3> QED BY <3>1, <3>2, <1>quiet
  <2> QED BY <1>24, <2>1, <2>2, <1>now DEF ReclaimDecides
<1> QED
  BY Zenon, <1>1, <1>2, <1>3, <1>4, <1>5, <1>6, <1>7, <1>8, <1>9, <1>10, <1>11, <1>12, <1>13, <1>14, <1>15, <1>16, <1>17, <1>18, <1>19, <1>20, <1>21, <1>22, <1>23, <1>24 DEF Next, Progress, ShrinkerNext

-----------------------------------------------------------------------------
(* The invariant holds in every state the pool reaches. *)
THEOREM PoolInvariance == Spec => []PoolInv
<1>1. PoolInv /\ [Next]_vars => PoolInv'
  <2> SUFFICES ASSUME PoolInv, [Next]_vars PROVE PoolInv'
    OBVIOUS
  <2>1. Flags'
    BY FlagsStep, TypeParts DEF PoolInv
  <2>2. Shapes' /\ QueueOK' /\ PlansOK'
    BY ShapeStep
  <2>3. Balanced'
    BY BalanceStep
  <2>4. PoolTypeOK'
    BY <2>1, <2>2, <2>3, TypeParts, PTL DEF Balanced
  <2> QED BY <2>2, <2>3, <2>4 DEF PoolInv, Balanced
<1> QED BY <1>1, PoolInit, PTL DEF Spec

(* Every step of the threads and of the shrinker keeps the state of the    *)
(* pool well formed; in particular no count falls below zero.              *)
THEOREM PoolTypeCorrect == Spec => []PoolTypeOK
<1>1. PoolInv => PoolTypeOK
  BY DEF PoolInv
<1> QED BY <1>1, PoolInvariance, PTL

(* The unwrap on the item list never fails: every permit has an item       *)
(* behind it, for any number of threads and any capacities.                *)
THEOREM PermitsHaveItems == Spec => []PermitsAreBacked
<1>1. PoolInv => PermitsAreBacked
  BY DEF PoolInv
<1> QED BY <1>1, PoolInvariance, PTL

(* active is exactly the number of items that exist, and stays between the *)
(* minimum and the maximum capacity.                                       *)
THEOREM CapacityIsKept == Spec => [](ActiveIsExact /\ WithinCapacity)
<1>1. PoolInv => ActiveIsExact /\ WithinCapacity
  BY DEF PoolInv
<1> QED BY <1>1, PoolInvariance, PTL

(* Whoever is about to lower active has seen, under the lock that it still *)
(* holds, that the grace period of the last growth is over.                *)
DecisionsOK == \A q \in Procs : pc[q] = "decide" => ~recent

LEMMA DecisionsStep ==
  ASSUME PoolTypeOK, DecisionsOK, [Next]_vars
  PROVE  DecisionsOK'
<1> SUFFICES ASSUME NEW q \in Procs, pc'[q] = "decide" PROVE ~recent'
  BY DEF DecisionsOK
<1>0. pc \in [Procs -> Places]
  BY DEF PoolTypeOK, Places
<1>1. ASSUME NEW p \in Procs, acquire(p) \/ Cancel(p) \/ Progress(p), ~ReclaimLocked(p)
      PROVE  pc[q] = "decide" /\ ~try_increase_active_for_growth(p)
  BY <1>0, <1>1 DEF acquire, Cancel, Progress, TryAcquire, acquire_item, LoadActive, Unlocked,
     try_increase_active_for_growth, GrowFails, PollSemaphore, PollNotified, Wake, Reclaim,
     ReclaimDecides, Dropped, record_deletion, PushItem, AddPermit, Goto
<1>2. ASSUME NEW p \in Procs, acquire(p) \/ Cancel(p) \/ Progress(p), ~ReclaimLocked(p)
      PROVE  recent' = recent
  BY Zenon, <1>1, <1>2 DEF acquire, Cancel, Progress, TryAcquire, acquire_item, LoadActive, GrowFails,
     PollSemaphore, PollNotified, Wake, Reclaim, ReclaimDecides, record_deletion, PushItem,
     AddPermit, growVars
<1>3. ASSUME NEW p \in Procs, ReclaimLocked(p)
      PROVE  (pc[q] = "decide" \/ shrinking_is_current) /\ recent' = recent
  BY <1>0, <1>3 DEF ReclaimLocked, Goto, growVars
<1>4. ASSUME ShrinkerNext \/ UNCHANGED vars
      PROVE  pc[q] = "decide" /\ recent' = recent
  BY <1>4 DEF ShrinkerNext, enable_shrinking_if_grace_elapsed, PlanBatch, CheckExcess, TakePermit,
     try_shrink_available_item, ShrinkerNotifies, growVars, vars
<1>5. ASSUME GraceElapses PROVE ~recent'
  BY Zenon, <1>5 DEF GraceElapses
<1> QED BY Zenon, <1>1, <1>2, <1>3, <1>4, <1>5 DEF Next, DecisionsOK, shrinking_is_current

(* Only a deletion lowers active, and both deletions look at the time of   *)
(* the last growth under the lock under which they lower it.               *)
THEOREM GraceNeverBroken == Spec => GraceIsKept
<1>1. Init => DecisionsOK
  BY DEF Init, DecisionsOK
<1>2. PoolInv /\ DecisionsOK /\ [Next]_vars => DecisionsOK'
  BY DecisionsStep DEF PoolInv
<1>3. PoolInv /\ DecisionsOK /\ [Next]_vars => [active' < active => ~recent]_vars
  <2> SUFFICES ASSUME PoolInv, DecisionsOK, Next, active' < active PROVE ~recent
    BY DEF vars
  <2>0. active \in Nat
    BY DEF PoolInv, PoolTypeOK
  <2>1. ~(active' = active) /\ ~(active' = active + 1)
    BY <2>0
  <2>2. ASSUME NEW p \in Procs PROVE ~acquire(p) /\ ~Cancel(p)
    BY <2>1 DEF acquire, Cancel, growVars
  <2>3. ASSUME NEW p \in Procs, Progress(p) PROVE pc[p] = "decide"
    BY <2>1, <2>3 DEF Progress, TryAcquire, acquire_item, LoadActive, try_increase_active_for_growth,
       GrowFails, PollSemaphore, PollNotified, Wake, Reclaim, ReclaimLocked, ReclaimDecides,
       record_deletion, PushItem, AddPermit, growVars
  <2>4. ASSUME ShrinkerNext PROVE shrinking_is_current
    BY <2>1, <2>4 DEF ShrinkerNext, enable_shrinking_if_grace_elapsed, PlanBatch, CheckExcess, TakePermit,
       try_shrink_available_item, ShrinkerNotifies, growVars
  <2>5. ~GraceElapses
    BY <2>1 DEF GraceElapses
  <2> QED BY Zenon, <2>2, <2>3, <2>4, <2>5 DEF Next, DecisionsOK, shrinking_is_current
<1> QED BY <1>1, <1>2, <1>3, PoolInvariance, PTL DEF Spec, GraceIsKept
=============================================================================
