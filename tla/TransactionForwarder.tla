------------------------ MODULE TransactionForwarder ------------------------
(***************************************************************************)
(* The Datadog forwarder (lib/saluki-components/.../common/datadog/io.rs). *)
(* A main I/O loop copies each transaction to the endpoint I/O loops it is *)
(* routed to, over bounded channels.  An endpoint loop keeps transactions  *)
(* in a high-priority queue and a retry queue, dispatches them as          *)
(* concurrent request tasks through a retry circuit breaker                *)
(* (lib/saluki-io/.../middleware/retry_circuit_breaker.rs), and settles    *)
(* the results.  Request tasks run beside the loop that spawned them.      *)
(*                                                                         *)
(* The retry queue is here what its own module promises: entries in        *)
(* memory, oldest first, which overflow to disk or are dropped and         *)
(* reported.  All entries have size 1, except those of Oversize, which     *)
(* exceed the queue's memory.                                              *)
(***************************************************************************)
EXTENDS Naturals, Sequences, FiniteSets, SequencesExt

CONSTANTS
    Txns,
    NoTxn,
    Oversize,             \* transactions larger than retry.queue_max_size_bytes
    IsMetrics,            \* Txns -> BOOLEAN, by the request's path
    Version,              \* Txns -> "none", "v2" or "v3", the payload's protocol
    TargetsOf,            \* Txns -> a set of targets, or NoTarget when unaddressed
    NoTarget,
    Endpoints,            \* a sequence, in the order of configuration
    RouteOf,              \* endpoint -> "Primary", "MetricsPrimary", "Additional"
    TargetOf,             \* endpoint -> a target or NoTarget
    UseV3,                \* endpoint -> BOOLEAN
    ChannelCapacity,      \* of every channel
    EndpointBufferSize,   \* capacity of high_priority
    RetryCapacity,        \* entries the retry queue holds in memory
    EndpointConcurrency,
    Faults                \* subset of {"halt", "panic", "disk", "stall"}

E == ToSet(Endpoints)

ASSUME ForwarderAssumption ==
    /\ NoTxn \notin Txns
    /\ Oversize \subseteq Txns
    /\ IsMetrics \in [Txns -> BOOLEAN]
    /\ Version \in [Txns -> {"none", "v2", "v3"}]
    /\ IsInjective(Endpoints)
    /\ RouteOf \in [E -> {"Primary", "MetricsPrimary", "Additional"}]
    /\ UseV3 \in [E -> BOOLEAN]
    /\ {ChannelCapacity, EndpointBufferSize, RetryCapacity, EndpointConcurrency} \subseteq Nat \ {0}

VARIABLES
    unsent,       \* transactions the encoder has not sent yet
    open,         \* the Handle has not been dropped
    inbox,        \* the channel to the main I/O loop
    main,         \* the main I/O loop: where it is, the transaction it holds, its position in Endpoints
    chan,         \* per endpoint: the channel to its loop
    pc,           \* per endpoint: where its loop is
    done,         \* per endpoint: its channel is closed, and in_flight_shutdown cancelled
    high,         \* per endpoint: high_priority
    low,          \* per endpoint: the retry queue's entries in memory
    disk,         \* per endpoint: the retry queue's entries on disk
    tasks,        \* per endpoint: in_flight, the request tasks
    backoff,      \* per endpoint: the breaker's state.backoff is set
    outcome,      \* per endpoint and transaction: how it was settled
    stop_wait,    \* stop_wait_for_inflight
    persistent    \* per endpoint: the retry queue has disk persistence

cfgVars == <<stop_wait, persistent>>
mainVars == <<unsent, open, inbox, main>>
loopVars == <<chan, pc, done, high, low, disk, tasks, backoff, outcome>>
vars == <<mainVars, loopVars, cfgVars>>

Stopped(e) == pc[e] \in {"stopped", "halted"}
Pending(e) == high[e] # <<>> \/ low[e] # <<>> \/ disk[e] # {}
Running(e) == {k \in tasks[e] : k.st = "sent"}

Set(f, e, v) == f' = [f EXCEPT ![e] = v]
Settle(e, S, how) ==
    outcome' = [outcome EXCEPT ![e] = [t \in Txns |-> IF t \in S THEN how ELSE outcome[e][t]]]

-----------------------------------------------------------------------------
(* The encoder's side: Handle. *)

send_transaction(t) ==
    /\ open /\ t \in unsent /\ Len(inbox) < ChannelCapacity
    /\ unsent' = unsent \ {t}
    /\ inbox' = Append(inbox, t)
    /\ UNCHANGED <<open, main, loopVars, cfgVars>>

shutdown ==
    /\ open
    /\ open' = FALSE
    /\ UNCHANGED <<unsent, inbox, main, loopVars, cfgVars>>

-----------------------------------------------------------------------------
(* The main I/O loop: run_io_loop. *)

has_metrics_primary == \E e \in E : RouteOf[e] = "MetricsPrimary"

MetricsToBoth(t, e) == RouteOf[e] # "MetricsPrimary" \/ IsMetrics[t]

should_route_to_endpoint(t, e) ==
    CASE RouteOf[e] = "Additional"     -> TRUE
      [] RouteOf[e] = "MetricsPrimary" -> IsMetrics[t]
      [] RouteOf[e] = "Primary"        -> ~(IsMetrics[t] /\ has_metrics_primary)

matches_metrics_routing_targets(t, e) ==
    TargetsOf[t] # NoTarget => TargetOf[e] # NoTarget /\ TargetOf[e] \in TargetsOf[t]

Routed(t, e) == should_route_to_endpoint(t, e) /\ matches_metrics_routing_targets(t, e)

Idle == [at |-> "recv", txn |-> NoTxn, next |-> 1]

MainRecv ==
    /\ main.at = "recv" /\ inbox # <<>>
    /\ inbox' = Tail(inbox)
    /\ main' = [at |-> "send", txn |-> Head(inbox), next |-> 1]
    /\ UNCHANGED <<unsent, open, loopVars, cfgVars>>

(* One endpoint of the inner loop.  The send waits while the endpoint's    *)
(* channel is full, and fails when its loop is gone.                       *)
MainSend ==
    /\ main.at = "send"
    /\ LET e == Endpoints[main.next]
           t == main.txn
       IN \/ ~Routed(t, e) /\ UNCHANGED <<chan, outcome>>
          \/ Routed(t, e) /\ pc[e] = "halted" /\ Settle(e, {t}, "failed") /\ UNCHANGED chan
          \/ /\ Routed(t, e) /\ pc[e] # "halted" /\ Len(chan[e]) < ChannelCapacity
             /\ Set(chan, e, Append(chan[e], t))
             /\ UNCHANGED outcome
    /\ main' = IF main.next = Len(Endpoints) THEN Idle ELSE [main EXCEPT !.next = @ + 1]
    /\ UNCHANGED <<unsent, open, inbox, pc, done, high, low, disk, tasks, backoff, cfgVars>>

MainStop ==
    /\ main.at = "recv" /\ inbox = <<>> /\ ~open
    /\ main' = [main EXCEPT !.at = "stopped"]
    /\ UNCHANGED <<unsent, open, inbox, loopVars, cfgVars>>

-----------------------------------------------------------------------------
(* The low-priority queue: RetryQueue::push through push_low_priority. *)

(* Dropped by the flush so far, in a result that it has not returned yet. *)
Counted(e) == {t \in Txns : outcome[e][t] = "counted"}

(* Drops are reported when the push or the flush that made them returns. *)
ReportDrops(e, S) ==
    Settle(e, S \cup Counted(e), IF pc[e] = "flush" /\ high[e] # <<>> THEN "counted" ELSE "dropped")

EvictNone(e, n) == UNCHANGED <<disk, outcome>>

(* The n oldest entries go to disk, where any entry may have to make room, *)
(* which is reported; without a disk they are dropped, and reported.       *)
Evict(e, n) ==
    LET victims == ToSet(SubSeq(low[e], 1, n)) IN
    IF persistent[e]
    THEN \E gone \in SUBSET (disk[e] \cup victims) :
           /\ n = 0 => gone = {}
           /\ Set(disk, e, (disk[e] \cup victims) \ gone)
           /\ ReportDrops(e, gone)
    ELSE ReportDrops(e, victims) /\ UNCHANGED disk

(* With a disk, flush_to_disk_mem_ratio may evict more than is needed.     *)
push_low_priority(e, t) ==
    \/ t \in Oversize /\ Settle(e, {t}, "logged") /\ UNCHANGED <<low, disk>>
    \/ /\ t \notin Oversize /\ Len(low[e]) < RetryCapacity
       /\ Set(low, e, Append(low[e], t))
       /\ UNCHANGED <<disk, outcome>>
    \/ /\ t \notin Oversize /\ Len(low[e]) = RetryCapacity
       /\ \E n \in 1..Len(low[e]) :
            /\ n = 1 \/ persistent[e]
            /\ Evict(e, n)
            /\ Set(low, e, Append(SubSeq(low[e], n + 1, Len(low[e])), t))

-----------------------------------------------------------------------------
(* The endpoint I/O loop: run_endpoint_io_loop.  The loop is at "select"   *)
(* while it waits in select!, which takes any branch that is ready.        *)

should_receive_payload(t, e) ==
    CASE Version[t] = "none" -> TRUE
      [] Version[t] = "v2"   -> ~UseV3[e]
      [] Version[t] = "v3"   -> UseV3[e]

HasRoomOneMore(e) == Len(high[e]) <= EndpointBufferSize

HasRoom(e) == Len(high[e]) < EndpointBufferSize

push_high_priority(e, t) ==
    \/ /\ HasRoom(e)
       /\ Set(high, e, Append(high[e], t))
       /\ UNCHANGED <<low, disk, outcome>>
    \/ /\ ~HasRoom(e)
       /\ push_low_priority(e, t)
       /\ UNCHANGED high

MayRecvIfIdle(e) == ~done[e] /\ tasks[e] = {}

MayRecv(e) == ~done[e]

RecvTxn(e) ==
    /\ pc[e] = "select" /\ MayRecv(e) /\ chan[e] # <<>>
    /\ LET t == Head(chan[e]) IN
         \/ should_receive_payload(t, e) /\ push_high_priority(e, t)
         \/ ~should_receive_payload(t, e) /\ Settle(e, {t}, "filtered") /\ UNCHANGED <<high, low, disk>>
    /\ Set(chan, e, Tail(chan[e]))
    /\ UNCHANGED <<mainVars, pc, done, tasks, backoff, cfgVars>>

ForgetDone(e) == UNCHANGED done

(* done is set and in_flight_shutdown cancelled. *)
MarkDone(e) == Set(done, e, TRUE)

RecvClosed(e) ==
    /\ pc[e] = "select" /\ MayRecv(e) /\ chan[e] = <<>> /\ main.at = "stopped"
    /\ MarkDone(e)
    /\ UNCHANGED <<mainVars, chan, pc, high, low, disk, tasks, backoff, outcome, cfgVars>>

(* poll_ready: a permit is free, and the backoff, if any, has elapsed. *)
Ready(e) ==
    /\ pc[e] = "select" /\ ~done[e] /\ Pending(e)
    /\ Cardinality(Running(e)) < EndpointConcurrency
    /\ Set(backoff, e, FALSE)
    /\ Set(pc, e, "ready")
    /\ UNCHANGED <<mainVars, chan, done, high, low, disk, tasks, outcome, cfgVars>>

CallTrustsReady(e) == "sent"

(* call: the breaker may have opened since it was found ready. *)
CallStatus(e) == IF backoff[e] THEN "open" ELSE "sent"

call(e, t) ==
    /\ Set(tasks, e, tasks[e] \cup {[txn |-> t, st |-> CallStatus(e)]})
    /\ Set(pc, e, "select")

PopHigh(e) ==
    /\ high[e] # <<>>
    /\ call(e, Head(high[e]))
    /\ Set(high, e, Tail(high[e]))
    /\ UNCHANGED <<low, disk, outcome>>

PopMemory(e) ==
    /\ high[e] = <<>> /\ low[e] # <<>>
    /\ call(e, Head(low[e]))
    /\ Set(low, e, Tail(low[e]))
    /\ UNCHANGED <<high, disk, outcome>>

(* An entry read back from disk, or found unreadable and dropped. *)
PopDisk(e) ==
    /\ high[e] = <<>> /\ low[e] = <<>>
    /\ \E t \in disk[e] :
         /\ Set(disk, e, disk[e] \ {t})
         /\ \/ call(e, t) /\ UNCHANGED outcome
            \/ "disk" \in Faults /\ Settle(e, {t}, "dropped") /\ UNCHANGED <<tasks, pc>>
    /\ UNCHANGED <<high, low>>

PopNothing(e) ==
    /\ ~Pending(e)
    /\ Set(pc, e, "select")
    /\ UNCHANGED <<high, low, disk, tasks, outcome>>

PopAndCall(e) ==
    /\ pc[e] = "ready"
    /\ PopHigh(e) \/ PopMemory(e) \/ PopDisk(e) \/ PopNothing(e)
    /\ UNCHANGED <<mainVars, chan, done, backoff, cfgVars>>

-----------------------------------------------------------------------------
(* A request task: ResponseFuture::poll. *)

Become(e, k, st) == Set(tasks, e, (tasks[e] \ {k}) \cup {[k EXCEPT !.st = st]})

TaskStep(e) ==
    UNCHANGED <<mainVars, chan, pc, done, high, low, disk, outcome, cfgVars>>

(* A response that the policy does not retry. *)
RespondFinal(e) ==
    /\ \E k \in Running(e), st \in {"ok", "rejected"} : Become(e, k, st)
    /\ UNCHANGED backoff
    /\ TaskStep(e)

(* A transport error, an elapsed request timeout or a retriable status:    *)
(* the breaker opens, unless another request has opened it already.        *)
RespondRetry(e) ==
    /\ \E k \in Running(e) : Become(e, k, "retry")
    /\ Set(backoff, e, TRUE)
    /\ TaskStep(e)

(* in_flight_shutdown is cancelled and no response is available yet. *)
Cancel(e) ==
    /\ done[e] /\ ~stop_wait
    /\ \E k \in Running(e) : Become(e, k, "cancelled")
    /\ UNCHANGED backoff
    /\ TaskStep(e)

TaskPanics(e) ==
    /\ "panic" \in Faults
    /\ \E k \in Running(e) : Become(e, k, "panicked")
    /\ UNCHANGED backoff
    /\ TaskStep(e)

-----------------------------------------------------------------------------
(* The loop joins a finished task: handle_in_flight_transaction_result. *)

Requeued == {"retry", "open", "cancelled"}

HandleResult(e, k) ==
    \/ k.st \in Requeued /\ push_low_priority(e, k.txn) /\ UNCHANGED pc
    \/ k.st = "ok" /\ Settle(e, {k.txn}, "delivered") /\ UNCHANGED <<low, disk, pc>>
    \/ /\ k.st = "rejected"
       /\ Settle(e, {k.txn}, "failed")
       /\ Set(pc, e, "body")
       /\ UNCHANGED <<low, disk>>
    \/ k.st = "panicked" /\ Settle(e, {k.txn}, "logged") /\ UNCHANGED <<low, disk, pc>>

Join(e) ==
    /\ pc[e] = "select"
    /\ \E k \in tasks[e] \ Running(e) :
         /\ HandleResult(e, k)
         /\ Set(tasks, e, tasks[e] \ {k})
    /\ UNCHANGED <<mainVars, chan, done, high, backoff, cfgVars>>

(* process_http_response reads the body of a rejection within the loop.    *)
BodyRead(e) ==
    /\ pc[e] = "body"
    /\ Set(pc, e, "select")
    /\ UNCHANGED <<mainVars, chan, done, high, low, disk, tasks, backoff, outcome, cfgVars>>

-----------------------------------------------------------------------------
(* The end of the loop, and PendingTransactions::flush. *)

NothingRunning(e) == Running(e) = {}

NothingInFlight(e) == tasks[e] = {}

LoopEnds(e) ==
    /\ pc[e] = "select" /\ done[e] /\ NothingInFlight(e)
    /\ Set(pc, e, "flush")
    /\ UNCHANGED <<mainVars, chan, done, high, low, disk, tasks, backoff, outcome, cfgVars>>

FlushHigh(e) ==
    /\ pc[e] = "flush" /\ high[e] # <<>> /\ Head(high[e]) \notin Oversize
    /\ push_low_priority(e, Head(high[e]))
    /\ Set(high, e, Tail(high[e]))
    /\ UNCHANGED <<mainVars, chan, pc, done, tasks, backoff, cfgVars>>

(* A transaction the retry queue cannot hold ends the flush with an error, *)
(* and the count of what the flush has dropped is lost with it.            *)
FlushFails(e) ==
    /\ pc[e] = "flush" /\ high[e] # <<>> /\ Head(high[e]) \in Oversize
    /\ Settle(e, ToSet(high[e]) \cup ToSet(low[e]) \cup Counted(e), "logged")
    /\ Set(high, e, <<>>) /\ Set(low, e, <<>>) /\ Set(pc, e, "stopped")
    /\ UNCHANGED <<mainVars, chan, done, disk, tasks, backoff, cfgVars>>

(* RetryQueue::flush: up to the first entry that cannot be written. *)
FlushLow(e) ==
    /\ pc[e] = "flush" /\ high[e] = <<>>
    /\ \/ persistent[e] /\ Evict(e, Len(low[e]))
       \/ ~persistent[e] /\ Evict(e, Len(low[e]))
       \/ /\ persistent[e] /\ "disk" \in Faults
          /\ \E n \in 0..(Len(low[e]) - 1) :
               LET written == disk[e] \cup ToSet(SubSeq(low[e], 1, n)) IN
               \E gone \in SUBSET written :
                 /\ Set(disk, e, written \ gone)
                 /\ Settle(e, ToSet(SubSeq(low[e], n + 1, Len(low[e]))) \cup gone \cup Counted(e), "logged")
    /\ Set(low, e, <<>>) /\ Set(pc, e, "stopped")
    /\ UNCHANGED <<mainVars, chan, done, high, tasks, backoff, cfgVars>>

(* The loop is halted, by its supervisor or by a panic. *)
Halt(e) ==
    /\ "halt" \in Faults /\ ~Stopped(e)
    /\ Settle(e, ToSet(chan[e]) \cup ToSet(high[e]) \cup ToSet(low[e]) \cup {k.txn : k \in tasks[e]}
                  \cup Counted(e), "lost")
    /\ Set(chan, e, <<>>) /\ Set(high, e, <<>>) /\ Set(low, e, <<>>) /\ Set(tasks, e, {})
    /\ Set(pc, e, "halted")
    /\ UNCHANGED <<mainVars, done, disk, backoff, cfgVars>>

-----------------------------------------------------------------------------
Init ==
    /\ unsent = Txns /\ open = TRUE /\ inbox = <<>> /\ main = Idle
    /\ chan = [e \in E |-> <<>>]
    /\ pc = [e \in E |-> "select"]
    /\ done = [e \in E |-> FALSE]
    /\ high = [e \in E |-> <<>>]
    /\ low = [e \in E |-> <<>>]
    /\ disk = [e \in E |-> {}]
    /\ tasks = [e \in E |-> {}]
    /\ backoff = [e \in E |-> FALSE]
    /\ outcome = [e \in E |-> [t \in Txns |-> "none"]]
    /\ stop_wait \in BOOLEAN
    /\ persistent \in [E -> BOOLEAN]

LoopNext(e) ==
    \/ RecvTxn(e) \/ RecvClosed(e) \/ Ready(e) \/ PopAndCall(e)
    \/ RespondFinal(e) \/ RespondRetry(e) \/ Cancel(e) \/ TaskPanics(e)
    \/ Join(e) \/ BodyRead(e) \/ LoopEnds(e)
    \/ FlushHigh(e) \/ FlushFails(e) \/ FlushLow(e) \/ Halt(e)

MainNext ==
    \/ \E t \in Txns : send_transaction(t)
    \/ shutdown \/ MainRecv \/ MainSend \/ MainStop

Terminated ==
    /\ main.at = "stopped" /\ \A e \in E : Stopped(e)
    /\ UNCHANGED vars

Next == MainNext \/ (\E e \in E : LoopNext(e)) \/ Terminated

Spec == Init /\ [][Next]_vars

(* Tasks are scheduled fairly, and select! starts at a random branch, so a *)
(* branch that is ready again and again is taken.  When the shutdown waits *)
(* for requests they end by their timeout; nothing else here relies on the *)
(* intake's answers, except that it finishes the bodies it begins.         *)
FairSpec ==
    /\ Spec
    /\ WF_vars(MainRecv \/ MainSend \/ MainStop)
    /\ \A e \in E :
         /\ SF_vars(RecvTxn(e) \/ RecvClosed(e)) /\ SF_vars(Join(e))
         /\ WF_vars(PopAndCall(e) \/ LoopEnds(e) \/ FlushHigh(e) \/ FlushFails(e) \/ FlushLow(e))
         /\ WF_vars(Cancel(e) \/ (stop_wait /\ RespondRetry(e)))
         /\ WF_vars("stall" \notin Faults /\ BodyRead(e))

-----------------------------------------------------------------------------
Outcomes == {"none", "delivered", "failed", "counted", "dropped", "filtered", "logged", "lost"}
Statuses == {"sent", "open", "ok", "rejected", "retry", "cancelled", "panicked"}

(* Every variable has its type; the channels, the high-priority queue, the *)
(* retry queue's memory and the requests in flight are within their limits.*)
FwTypeOK ==
    /\ unsent \subseteq Txns /\ open \in BOOLEAN
    /\ inbox \in Seq(Txns) /\ Len(inbox) <= ChannelCapacity
    /\ main.at \in {"recv", "send", "stopped"} /\ main.txn \in Txns \cup {NoTxn}
    /\ main.next \in 1..Len(Endpoints)
    /\ stop_wait \in BOOLEAN
    /\ \A e \in E :
         /\ pc[e] \in {"select", "ready", "body", "flush", "stopped", "halted"}
         /\ done[e] \in BOOLEAN /\ backoff[e] \in BOOLEAN /\ persistent[e] \in BOOLEAN
         /\ chan[e] \in Seq(Txns) /\ Len(chan[e]) <= ChannelCapacity
         /\ high[e] \in Seq(Txns) /\ Len(high[e]) <= EndpointBufferSize
         /\ low[e] \in Seq(Txns) /\ Len(low[e]) <= RetryCapacity
         /\ disk[e] \subseteq Txns
         /\ tasks[e] \subseteq [txn : Txns, st : Statuses]
         /\ Cardinality(Running(e)) <= EndpointConcurrency
         /\ outcome[e] \in [Txns -> Outcomes]

Times(t, s) == Cardinality({i \in DOMAIN s : s[i] = t})

Places(e, t) ==
    Times(t, chan[e]) + Times(t, high[e]) + Times(t, low[e])
      + (IF t \in disk[e] THEN 1 ELSE 0)
      + Cardinality({k \in tasks[e] : k.txn = t})
      + (IF outcome[e][t] # "none" THEN 1 ELSE 0)

(* Endpoint e still waits for the main loop to hand it t. *)
Upstream(e, t) ==
    \/ t \in unsent \/ t \in ToSet(inbox)
    \/ main.txn = t /\ \E i \in main.next..Len(Endpoints) : Endpoints[i] = e

(* From the moment the main loop hands a transaction to an endpoint it is  *)
(* in exactly one place there, or settled exactly once: no interleaving of *)
(* requests, retries, overflow, cancellation and shutdown loses it without *)
(* a trace, sends it twice at a time, or settles it and keeps it.          *)
Accounted ==
    \A e \in E, t \in Txns :
      Places(e, t) = IF Routed(t, e) /\ ~Upstream(e, t) THEN 1 ELSE 0

(* A loop that stops in order leaves nothing in memory: all requests are   *)
(* settled, aborted ones included, before the flush, and what the flush    *)
(* covers is on disk or reported (io.rs, "the flush happens immediately    *)
(* and covers them too"), the drops it counted on the way included.        *)
(* Without a disk nothing can be left on it.                               *)
StopsClean ==
    \A e \in E :
      /\ pc[e] = "stopped" =>
           chan[e] = <<>> /\ high[e] = <<>> /\ low[e] = <<>> /\ tasks[e] = {} /\ Counted(e) = {}
      /\ disk[e] # {} => persistent[e]

(* While the breaker is open no request reaches the intake, even one for   *)
(* which the service was found ready before another request opened it.     *)
NoDispatchWhileOpen ==
    [][\A e \in E : backoff[e] /\ backoff'[e] => Running(e)' \subseteq Running(e)]_vars

(* A transaction that is not addressed to targets has exactly one home     *)
(* among the primary endpoints (should_route_to_endpoint): it is handed to *)
(* the metrics one or to the other, never to both and never to neither.    *)
OneHome ==
    \A t \in Txns :
      TargetsOf[t] = NoTarget /\ (\A e \in E : ~Upstream(e, t)) =>
        Cardinality({e \in E : RouteOf[e] # "Additional" /\ Places(e, t) > 0}) = 1

(* Dropping the handle ends every loop, whatever the intake does.          *)
DrainEnds == ~open ~> \A e \in E : Stopped(e)

(* An intake that never answers does not block the encoder: what it sent   *)
(* is taken in by the endpoint loops, which overflow instead of waiting.   *)
NoBackpressure ==
    \A t \in Txns :
      t \in ToSet(inbox) ~>
        t \notin ToSet(inbox) /\ main.txn # t /\ \A e \in E : t \notin ToSet(chan[e])
=============================================================================
