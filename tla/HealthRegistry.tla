--------------------------- MODULE HealthRegistry ---------------------------
(***************************************************************************)
(* The liveness probes of the health registry                              *)
(* (lib/saluki-core/src/health/mod.rs).  Components register and answer    *)
(* probes; a runner sends the probes and times them out.  The runner and   *)
(* the components run on their own threads and share the registry's mutex. *)
(*                                                                         *)
(* tokio's DelayQueue is a slab: the key of a removed entry is given to    *)
(* the next entry inserted.  Time is left out: a timeout may fire and a    *)
(* backoff may elapse at any moment, whether or not an answer is under     *)
(* way.                                                                    *)
(***************************************************************************)
EXTENDS Naturals, Sequences, FiniteSets, SequencesExt, Functions

CONSTANTS
    Comps,
    MaxLate,        \* bound: how many timeouts beat an answer
    MaxRaced,       \* bound: how many components register while the runner starts
    MaxRestarts     \* bound: how often the runner is shut down

ASSUME HealthAssumption == {MaxLate, MaxRaced, MaxRestarts} \subseteq Nat

VARIABLES
    registered,    \* component_state
    pending,       \* pending_components
    permit,        \* the permit stored in pending_components_notify
    health,        \* each component's HealthState
    handle,        \* each component's Health: "none", "held" or "dropped"
    request,       \* each component's request channel: a timeout key, or 0
    responses,     \* the response channel
    probes,        \* pending_probes: the number of entries per component
    timeouts,      \* pending_timeouts: from keys to components
    vacant,        \* the slab's free list
    runner,        \* "stopped", "starting" or "running"
    sending,       \* the key of the probe that the runner is sending, or 0
    restarts, late,
    crossed,       \* history: a response has removed another component's timeout
    raced          \* history: components that registered while the runner was starting

compVars == <<registered, handle>>
chanVars == <<request, responses>>
queueVars == <<probes, timeouts, vacant>>
runVars == <<runner, sending, restarts, late>>
history == <<crossed, raced>>
vars == <<compVars, pending, permit, health, chanVars, queueVars, runVars, history>>

-----------------------------------------------------------------------------
(* The components' side: register_component and Health. *)

(* The runner holds the registry's lock while it sends a probe. *)
register_component(c) ==
    /\ c \notin registered /\ sending = 0
    /\ runner = "starting" => Cardinality(raced) < MaxRaced
    /\ registered' = registered \cup {c}
    /\ handle' = [handle EXCEPT ![c] = "held"]
    /\ health' = [health EXCEPT ![c] = "unknown"]
    /\ pending' = pending \cup {c}
    /\ permit' = TRUE
    /\ raced' = IF runner = "starting" THEN raced \cup {c} ELSE raced
    /\ UNCHANGED <<chanVars, queueVars, runVars, crossed>>

(* live takes a probe and answers it.  The channel for answers is larger   *)
(* than the number of probes that the bounds let be under way.             *)
live(c) ==
    /\ handle[c] = "held" /\ request[c] # 0
    /\ responses' = Append(responses, [comp |-> c, key |-> request[c]])
    /\ request' = [request EXCEPT ![c] = 0]
    /\ UNCHANGED <<compVars, pending, permit, health, queueVars, runVars, history>>

(* The component ends, and drops its Health with any probe in it. *)
Die(c) ==
    /\ handle[c] = "held"
    /\ handle' = [handle EXCEPT ![c] = "dropped"]
    /\ request' = [request EXCEPT ![c] = 0]
    /\ UNCHANGED <<registered, pending, permit, health, responses, queueVars, runVars, history>>

-----------------------------------------------------------------------------
(* The runner: its delay queues. *)

schedule_probe(c) == probes' = [probes EXCEPT ![c] = @ + 1]

FreshKey == IF vacant = <<>> THEN Cardinality(DOMAIN timeouts) + 1 ELSE Head(vacant)

InsertTimeout(c) ==
    /\ timeouts' = [k \in DOMAIN timeouts \cup {FreshKey} |-> IF k = FreshKey THEN c ELSE timeouts[k]]
    /\ vacant' = IF vacant = <<>> THEN vacant ELSE Tail(vacant)

RemoveTimeout(k) ==
    /\ timeouts' = Restrict(timeouts, DOMAIN timeouts \ {k})
    /\ vacant' = <<k>> \o vacant

KeepTimeouts == UNCHANGED <<timeouts, vacant>>

RemoveBlindly(k) == RemoveTimeout(k)

try_remove(k) == IF k \in DOMAIN timeouts THEN RemoveTimeout(k) ELSE KeepTimeouts

mark(c, state) == health' = [health EXCEPT ![c] = state]

-----------------------------------------------------------------------------
(* The runner: its handlers. *)

(* The runner waits in select!. *)
Polling == runner = "running" /\ sending = 0

is_closed(c) == handle[c] = "dropped"

(* A scheduled probe is due: its timeout is scheduled, unless the channel  *)
(* is closed.                                                              *)
send_component_probe_request(c) ==
    /\ Polling /\ probes[c] > 0
    /\ probes' = [probes EXCEPT ![c] = @ - 1]
    /\ \/ is_closed(c) /\ mark(c, "dead") /\ KeepTimeouts /\ UNCHANGED sending
       \/ ~is_closed(c) /\ InsertTimeout(c) /\ sending' = FreshKey /\ UNCHANGED health
    /\ UNCHANGED <<compVars, pending, permit, chanVars, runner, restarts, late, history>>

TimeoutLeftBehind(k) == KeepTimeouts

(* Closed: the timeout just scheduled is taken back. *)
TimeoutTakenBack(k) == RemoveTimeout(k)

(* Then the request is sent.  The component may have ended since; a probe  *)
(* that finds the channel full is dropped, but its timeout stays.          *)
try_send ==
    /\ sending # 0
    /\ sending' = 0
    /\ LET c == timeouts[sending] IN
         \/ is_closed(c) /\ TimeoutTakenBack(sending) /\ mark(c, "dead") /\ UNCHANGED request
         \/ /\ ~is_closed(c)
            /\ request' = IF request[c] = 0 THEN [request EXCEPT ![c] = sending] ELSE request
            /\ KeepTimeouts /\ UNCHANGED health
    /\ UNCHANGED <<compVars, pending, permit, responses, probes, runner, restarts, late, history>>

(* The probe with key k of component c may still be answered. *)
Answerable(c, k) == [comp |-> c, key |-> k] \in ToSet(responses) \/ request[c] = k

TimeoutForgets(c) == UNCHANGED probes

TimeoutSchedules(c) == schedule_probe(c)

handle_component_timeout(k) ==
    /\ Polling /\ k \in DOMAIN timeouts
    /\ mark(timeouts[k], "unknown")
    /\ TimeoutSchedules(timeouts[k])
    /\ RemoveTimeout(k)
    /\ IF Answerable(timeouts[k], k) THEN late < MaxLate /\ late' = late + 1 ELSE late' = late
    /\ UNCHANGED <<compVars, pending, permit, chanVars, runner, sending, restarts, history>>

(* Whether the response is followed by a new probe: its timeout, or what   *)
(* now has its key, had not fired.                                         *)
timeout_was_pending(r) == r.key \in DOMAIN timeouts

handle_component_probe_response ==
    /\ Polling /\ responses # <<>>
    /\ LET r == Head(responses) IN
         /\ responses' = Tail(responses)
         /\ mark(r.comp, "live")
         /\ try_remove(r.key)
         /\ IF timeout_was_pending(r) THEN schedule_probe(r.comp) ELSE UNCHANGED probes
         /\ crossed' = (crossed \/ (r.key \in DOMAIN timeouts /\ timeouts[r.key] # r.comp))
    /\ UNCHANGED <<compVars, pending, permit, request, runVars, raced>>

(* drain_pending_components, when pending_components_notify fires. *)
FinalizePending ==
    /\ Polling /\ permit
    /\ permit' = FALSE
    /\ pending' = {}
    /\ health' = [c \in Comps |-> IF c \in pending THEN "unknown" ELSE health[c]]
    /\ probes' = [c \in Comps |-> IF c \in pending THEN probes[c] + 1 ELSE probes[c]]
    /\ UNCHANGED <<compVars, chanVars, timeouts, vacant, runVars, history>>

-----------------------------------------------------------------------------
(* The runner: start and shutdown. *)

NoTimeouts == [k \in {} |-> {}]

ForgetPending == UNCHANGED pending

DrainPending == pending' = {}

(* schedule_all_existing_components, first half: pending components are    *)
(* drained, and responses to the previous runner handled: no timeout is    *)
(* pending in the new queues, so they only mark their components live.     *)
StartDrain ==
    /\ runner = "stopped"
    /\ runner' = "starting"
    /\ DrainPending
    /\ health' = [c \in Comps |-> IF c \in {r.comp : r \in ToSet(responses)} THEN "live" ELSE health[c]]
    /\ responses' = <<>>
    /\ UNCHANGED <<compVars, permit, request, queueVars, sending, restarts, late, history>>

(* Second half, under the lock taken again: any component may be stale,    *)
(* and all are probed.                                                     *)
StartSchedule ==
    /\ runner = "starting"
    /\ runner' = "running"
    /\ \E stale \in SUBSET registered :
         health' = [c \in Comps |-> IF c \in stale THEN "unknown" ELSE health[c]]
    /\ probes' = [c \in Comps |-> IF c \in registered THEN 1 ELSE 0]
    /\ UNCHANGED <<compVars, pending, permit, chanVars, timeouts, vacant, sending, restarts, late, history>>

(* The runner is shut down in order: its queues end with it, and the       *)
(* response channel returns to the registry.                               *)
RunnerShutdown ==
    /\ restarts < MaxRestarts
    /\ Polling
    /\ runner' = "stopped"
    /\ restarts' = restarts + 1
    /\ probes' = [c \in Comps |-> 0]
    /\ timeouts' = NoTimeouts
    /\ vacant' = <<>>
    /\ UNCHANGED <<compVars, pending, permit, health, chanVars, sending, late, history>>

-----------------------------------------------------------------------------
Init ==
    /\ registered = {} /\ pending = {} /\ permit = FALSE
    /\ health = [c \in Comps |-> "unknown"]
    /\ handle = [c \in Comps |-> "none"]
    /\ request = [c \in Comps |-> 0] /\ responses = <<>>
    /\ probes = [c \in Comps |-> 0] /\ timeouts = NoTimeouts /\ vacant = <<>>
    /\ runner = "stopped" /\ sending = 0 /\ restarts = 0 /\ late = 0
    /\ crossed = FALSE /\ raced = {}

RunnerNext ==
    \/ \E c \in Comps : send_component_probe_request(c)
    \/ try_send
    \/ \E k \in DOMAIN timeouts : handle_component_timeout(k)
    \/ handle_component_probe_response \/ FinalizePending
    \/ StartDrain \/ StartSchedule \/ RunnerShutdown

CompNext(c) ==
    \/ register_component(c)
    \/ live(c) \/ Die(c)

Next == RunnerNext \/ \E c \in Comps : CompNext(c)

Spec == Init /\ [][Next]_vars

(* The branches of select! at which component c may be next. *)
Attends(c) ==
    \/ send_component_probe_request(c)
    \/ \E k \in DOMAIN timeouts : timeouts[k] = c /\ handle_component_timeout(k)
    \/ c \in pending /\ FinalizePending

(* A runner that was shut down is started again, and finishes what it has  *)
(* begun.  Its select! polls the branches in random order and its timers   *)
(* elapse, so it does not pass over for ever what is ready whenever it     *)
(* polls.  Components need never answer.                                   *)
FairSpec ==
    /\ Spec
    /\ WF_vars(StartDrain \/ StartSchedule \/ try_send)
    /\ SF_vars(handle_component_probe_response)
    /\ \A c \in Comps : SF_vars(Attends(c))

-----------------------------------------------------------------------------
(* Every variable has its type. *)
HealthTypeOK ==
    /\ registered \subseteq Comps /\ pending \subseteq registered
    /\ permit \in BOOLEAN
    /\ health \in [Comps -> {"unknown", "live", "dead"}]
    /\ handle \in [Comps -> {"none", "held", "dropped"}]
    /\ request \in [Comps -> Nat]
    /\ \A r \in ToSet(responses) : r.comp \in registered /\ r.key \in Nat \ {0}
    /\ probes \in [Comps -> Nat]
    /\ \A k \in DOMAIN timeouts : k \in Nat \ {0} /\ timeouts[k] \in registered
    /\ IsInjective(vacant) /\ ToSet(vacant) \cap DOMAIN timeouts = {}
    /\ ToSet(vacant) \cup DOMAIN timeouts = 1..(Len(vacant) + Cardinality(DOMAIN timeouts))
    /\ sending \in DOMAIN timeouts \cup {0}
    /\ runner \in {"stopped", "starting", "running"} /\ restarts \in 0..MaxRestarts /\ late \in 0..MaxLate

(* What will make the runner look at a component again. *)
Chains(c) ==
    probes[c] + Cardinality({k \in DOMAIN timeouts : timeouts[k] = c})
      + (IF c \in pending THEN 1 ELSE 0)

(* A running runner watches every component by exactly one chain of probe, *)
(* answer or timeout, and probe, through late answers and restarts, until  *)
(* it finds the component dead.  The exceptions are a component that       *)
(* registers while the runner starts, which it may watch twice, and an     *)
(* answer so late that its timeout's key belongs to another component.     *)
OneChain ==
    runner = "running" /\ ~crossed =>
      \A c \in registered \ raced : Chains(c) = 1 \/ (Chains(c) = 0 /\ handle[c] = "dropped")

(* A component that was found dead is left alone: no timeout is pending    *)
(* that would make it unknown and probe it again, wherever its end falls   *)
(* to the probe being sent.  The exceptions are those of OneChain.         *)
DeadIsUnwatched ==
    ~crossed =>
      \A c \in registered \ raced : health[c] = "dead" => \A k \in DOMAIN timeouts : timeouts[k] # c

(* An answer that arrives after its timeout leaves no component watched    *)
(* twice: "This prevents duplicate probe scheduling when a response        *)
(* arrives after a timeout." (handle_component_probe_response)             *)
NoDuplicateProbes == runner = "running" => \A c \in registered \ raced : Chains(c) <= 1

(* A component is watched once however its registration falls to the start *)
(* of the runner: "First, drain any pending components to avoid scheduling *)
(* them twice." (schedule_all_existing_components)                         *)
NotScheduledTwice == runner = "running" /\ late = 0 => \A c \in registered : Chains(c) <= 1

(* A component that drops its handle while the runner watches it is found  *)
(* dead, unless a late answer takes its timeout away.  (It need not stay   *)
(* dead: an answer sent before may still be queued, and marks it live.)    *)
DeadIsFound ==
    \A c \in Comps : handle[c] = "dropped" /\ Chains(c) > 0 ~> (health[c] = "dead" \/ crossed)

=============================================================================
