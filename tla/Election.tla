------------------------------ MODULE Election ------------------------------
(***************************************************************************)
(* The supervisors' bully election: N SupervisorNodes, each an event       *)
(* worker, a runtime worker and an announce worker over shared fields, the *)
(* LeaderRuntime that lets replicas connect and restarts killed            *)
(* supervisors, and the ReplicaRuntime that pings its leader.  A message   *)
(* is a connection to a peer's listener and waits in the peer's event      *)
(* queue; it cannot be sent to a supervisor that is down.                  *)
(*                                                                         *)
(* The event worker writes _leader and changes the runtime in separate     *)
(* steps, the runtime worker picks a runtime under the lock and starts it  *)
(* outside, and a supervisor may be killed between the connect and the     *)
(* send of a message.                                                      *)
(***************************************************************************)
EXTENDS Integers, Sequences, FiniteSets, SequencesExt, FiniteSetsExt

CONSTANTS
  N,           \* supervisors (NNODES)
  MaxKills,    \* bound: supervisors killed
  MaxRaises,   \* bound: stops that catch a replica runtime inside a connect or a ping
  MaxFaults,   \* bound: both together
  MaxPending   \* bound: a timer (ping, announce) only fires while every event
               \* queue is at most this long

ASSUME ElectionAssumption ==
  N \in Nat \ {0} /\ MaxKills \in Nat /\ MaxRaises \in Nat /\ MaxFaults \in Nat /\ MaxPending \in Nat

Supervisors == 0 .. N - 1
None == -1

VARIABLES
  up,       \* is the container running?
  events,   \* events[s]: the event queue
  pc,       \* pc[s]: where the event worker is: "idle", between two writes of a handler
            \*   ("promote", "clear", "downgrade"), or "dead"
  leader,   \* leader[s]: _leader's index, or None
  runtime,  \* runtime[s]: _runtime: "none", "leader", or "replica"
  target,   \* target[s]: the leader that the replica runtime pings
  at,       \* at[s]: where the runtime worker is: with the current runtime, "waiting" for
            \*   it, "picked", "running", "left" (it raised); or still in one that was
            \*   stopped: "returning", "talking" (inside a connect or a ping), "retiring"
            \*   (a leader's) or "stuck"
  link,     \* link[s]: the replica runtime's connection: "new", "up", "broken"
  starter,  \* starter[s]: whose ReplicaLink to s broke and is about to docker start it
  kills, raises,
  harm      \* history: what went wrong that nothing repairs, of "cut off", "deaf", "stuck"

vars == <<up, events, pc, leader, runtime, target, at, link, starter, kills, raises, harm>>

LeaderDown == [type |-> "leaderDown"]
Election == [type |-> "election"]
Claim(i) == [type |-> "leader", idx |-> i]
Cut == [type |-> "cut"]   \* a connection that is closed before its message

\* A container's start: the first event makes the supervisor elect.
Boot == [events |-> <<LeaderDown>>, leader |-> None, runtime |-> "none"]

Init ==
  /\ up = [s \in Supervisors |-> TRUE]
  /\ events = [s \in Supervisors |-> Boot.events]
  /\ pc = [s \in Supervisors |-> "idle"]
  /\ leader = [s \in Supervisors |-> Boot.leader]
  /\ runtime = [s \in Supervisors |-> Boot.runtime]
  /\ target = [s \in Supervisors |-> None] /\ at = [s \in Supervisors |-> "waiting"]
  /\ link = [s \in Supervisors |-> "new"] /\ starter = [s \in Supervisors |-> None]
  /\ kills = 0 /\ raises = 0 /\ harm = {}

\* _is_leader reads the two fields only.
IsLeader(s) == leader[s] = None /\ runtime[s] # "none"

\* The LeaderRuntime of s accepts replicas and restarts supervisors.
Serving(s) == up[s] /\ runtime[s] = "leader" /\ at[s] = "running"

\* A claim just behind the same claim has no effect of its own.
Enqueue(q, e) == IF e.type = "leader" /\ q # <<>> /\ Last(q) = e THEN q ELSE Append(q, e)

\* _broadcast_message: every peer that is up gets the message; nobody reads the queue of
\* one whose event worker is dead.
Broadcast(evs, e, peers) ==
  [s \in Supervisors |-> IF s \in peers /\ up[s] /\ pc[s] # "dead" THEN Enqueue(evs[s], e) ELSE evs[s]]

\* A message to a live peer is connected and sent, whoever reads it.
Acks(peers) == Cardinality({p \in peers : up[p]})

Peers(s) == Supervisors \ {s}
Greater(s) == {p \in Peers(s) : p > s}

Quiet == \A s \in Supervisors : up[s] => Len(events[s]) <= MaxPending

\* A replica runtime that s is running, and whether a stop can make it raise: its
\* connection is closed under a ping, or it is at its last retry.
Replica(s) == up[s] /\ runtime[s] = "replica" /\ at[s] = "running"
Talking(s) == link[s] = "up" \/ (link[s] = "new" /\ ~Serving(target[s]))

\* Where stopping the current runtime leaves the runtime worker.  A replica runtime that
\* was picked and not yet started sets _keep_running again when it starts, while its
\* LeaderLink stays closed: it neither pings nor ever returns.
Stopped(s) ==
  CASE at[s] = "picked" -> "stuck"
    [] at[s] = "running" -> IF runtime[s] = "leader" THEN "retiring"
                            ELSE IF Talking(s) THEN "talking" ELSE "returning"
    [] at[s] = "left" -> "waiting"
    [] OTHER -> at[s]

\* _change_runtime, under the lock: stop the current runtime and put another in its place.
\* The links of a leader's replicas are served on after its stop.
ChangeRuntime(s, kind, l) ==
  /\ runtime' = [runtime EXCEPT ![s] = kind]
  /\ at' = [at EXCEPT ![s] = Stopped(s)]
  /\ harm' = IF Stopped(s) = "stuck" THEN harm \cup {"stuck"} ELSE harm
  /\ link' = [link EXCEPT ![s] = "new"]
  /\ target' = [target EXCEPT ![s] = l]

SameRuntime == UNCHANGED <<runtime, at, harm, link, target>>

-----------------------------------------------------------------------------
(* The event worker. *)

Handles(s, type) == up[s] /\ pc[s] = "idle" /\ events[s] # <<>> /\ Head(events[s]).type = type
Pop(s) == [events EXCEPT ![s] = Tail(@)]

\* _handle_leader_down, up to _promote.
HandleLeaderDown(s) ==
  /\ Handles(s, "leaderDown")
  /\ \/ /\ IsLeader(s)
        /\ events' = Broadcast(Pop(s), Claim(s), Peers(s))
        /\ UNCHANGED <<leader, pc>>
     \/ /\ ~IsLeader(s) /\ Acks(Greater(s)) > 0
        /\ events' = Broadcast(Pop(s), Election, Greater(s))
        /\ leader' = [leader EXCEPT ![s] = None]
        /\ UNCHANGED pc
     \/ /\ ~IsLeader(s) /\ Acks(Greater(s)) = 0
        /\ events' = Broadcast(Pop(s), Claim(s), Peers(s))
        /\ pc' = [pc EXCEPT ![s] = "promote"]
        /\ UNCHANGED leader
  /\ SameRuntime
  /\ UNCHANGED <<up, starter, kills, raises>>

\* _promote
Promote(s) ==
  /\ up[s] /\ pc[s] = "promote"
  /\ ChangeRuntime(s, "leader", None)
  /\ pc' = [pc EXCEPT ![s] = "clear"]
  /\ UNCHANGED <<up, events, leader, starter, kills, raises>>

\* The end of _handle_leader_down.
ClearLeader(s) ==
  /\ up[s] /\ pc[s] = "clear"
  /\ leader' = [leader EXCEPT ![s] = None]
  /\ pc' = [pc EXCEPT ![s] = "idle"]
  /\ SameRuntime
  /\ UNCHANGED <<up, events, starter, kills, raises>>

\* handle_peer_connection of an ELECTION message.
HandleElection(s) ==
  /\ Handles(s, "election")
  /\ events' = [events EXCEPT ![s] = Append(Tail(@), LeaderDown)]
  /\ SameRuntime
  /\ UNCHANGED <<up, pc, leader, starter, kills, raises>>

\* handle_peer_connection of a connection whose peer died before it sent: recv raises, and
\* that ends the event worker.  The other threads keep the process alive: it accepts and
\* queues messages, announces and serves as before, but handles nothing any more.
HandleCut(s) ==
  /\ Handles(s, "cut")
  /\ pc' = [pc EXCEPT ![s] = "dead"]
  /\ events' = [events EXCEPT ![s] = <<>>]
  /\ harm' = harm \cup {"deaf"}
  /\ UNCHANGED <<up, leader, runtime, target, at, link, starter, kills, raises>>

\* Mutant: the greater leader is noted but the runtime is not changed.
HandleNewLeaderKeepsRuntime(s) ==
  /\ Handles(s, "leader")
  /\ LET claim == Head(events[s]).idx IN
     leader' = [leader EXCEPT ![s] = IF claim > s /\ claim > leader[s] THEN claim ELSE leader[s]]
  /\ events' = Pop(s)
  /\ SameRuntime
  /\ UNCHANGED <<up, pc, starter, kills, raises>>

\* _handle_new_leader, up to _downgrade: never follow an equal or lower id, nor leave a
\* leader that is at least as great.
HandleNewLeader(s) ==
  /\ Handles(s, "leader")
  /\ LET claim == Head(events[s]).idx IN
     \/ /\ claim <= s
        /\ events' = IF claim < s /\ IsLeader(s)
                     THEN Broadcast(Pop(s), Claim(s), Peers(s)) ELSE Pop(s)
        /\ UNCHANGED <<leader, pc>>
     \/ /\ claim > s /\ leader[s] # None /\ claim <= leader[s]
        /\ events' = Pop(s)
        /\ UNCHANGED <<leader, pc>>
     \/ /\ claim > s /\ (leader[s] # None => claim > leader[s])
        /\ events' = Pop(s)
        /\ leader' = [leader EXCEPT ![s] = claim]
        /\ pc' = [pc EXCEPT ![s] = "downgrade"]
  /\ SameRuntime
  /\ UNCHANGED <<up, starter, kills, raises>>

\* _downgrade
Downgrade(s) ==
  /\ up[s] /\ pc[s] = "downgrade"
  /\ ChangeRuntime(s, "replica", leader[s])
  /\ pc' = [pc EXCEPT ![s] = "idle"]
  /\ UNCHANGED <<up, events, leader, starter, kills, raises>>

-----------------------------------------------------------------------------
(* The announce worker and the runtime worker. *)

\* _announce_worker
Announce(s) ==
  /\ up[s] /\ IsLeader(s) /\ Quiet
  /\ events' = Broadcast(events, Claim(s), Peers(s))
  /\ SameRuntime
  /\ UNCHANGED <<up, pc, leader, starter, kills, raises>>

\* A stopped replica runtime raises LeaderDownError out of its connect or its ping, and the
\* runtime worker reports it.
OldRuntimeRaises(s) ==
  /\ up[s] /\ at[s] = "talking" /\ raises < MaxRaises /\ kills + raises < MaxFaults
  /\ raises' = raises + 1
  /\ at' = [at EXCEPT ![s] = "waiting"]
  /\ events' = IF pc[s] = "dead" THEN events ELSE [events EXCEPT ![s] = Append(@, LeaderDown)]
  /\ UNCHANGED <<up, pc, leader, runtime, target, link, starter, kills, harm>>

\* _runtime_worker, back from the runtime before (a leader's loop returns after its sleep, a
\* replica's between two pings), takes the current one under the lock.  A LeaderRuntime that
\* is stopped before it starts returns at once, as if it had not been taken yet: only a
\* replica's pick is a step of its own.
PickRuntime(s) ==
  /\ up[s] /\ runtime[s] # "none" /\ at[s] \in {"waiting", "returning", "talking", "retiring"}
  /\ at' = [at EXCEPT ![s] = IF runtime[s] = "replica" THEN "picked" ELSE "running"]
  /\ UNCHANGED <<up, events, pc, leader, runtime, target, link, starter, kills, raises, harm>>

\* A replica runtime starts after the lock was let go.
StartRuntime(s) ==
  /\ up[s] /\ at[s] = "picked"
  /\ at' = [at EXCEPT ![s] = "running"]
  /\ UNCHANGED <<up, events, pc, leader, runtime, target, link, starter, kills, raises, harm>>

\* LeaderLink._connect, within its retries.
ReplicaConnects(s) ==
  /\ Replica(s) /\ link[s] = "new" /\ Serving(target[s])
  /\ link' = [link EXCEPT ![s] = "up"]
  /\ UNCHANGED <<up, events, pc, leader, runtime, target, at, starter, kills, raises, harm>>

\* Mutant: the runtime worker stops the runtime and tells no one.
ReplicaLosesLeaderSilently(s) ==
  /\ Replica(s) /\ Quiet
  /\ link[s] = "broken" \/ (link[s] = "new" /\ ~Serving(target[s]))
  /\ at' = [at EXCEPT ![s] = "left"]
  /\ UNCHANGED <<up, events, pc, leader, runtime, target, link, starter, kills, raises, harm>>

\* ping_pong raises: no connection after the retries, or the connection is lost; the
\* runtime worker stops the runtime and tells the event worker.
ReplicaLosesLeader(s) ==
  /\ Replica(s) /\ Quiet
  /\ link[s] = "broken" \/ (link[s] = "new" /\ ~Serving(target[s]))
  /\ at' = [at EXCEPT ![s] = "left"]
  /\ events' = IF pc[s] = "dead" THEN events ELSE [events EXCEPT ![s] = Append(@, LeaderDown)]
  /\ UNCHANGED <<up, pc, leader, runtime, target, link, starter, kills, raises, harm>>

-----------------------------------------------------------------------------
(* Kills and restarts. *)

\* Mutant: the restart loop misses the last supervisor.
ReviveAllButLast(s) ==
  /\ s # N - 1
  /\ ~up[s] /\ \E l \in Supervisors : Serving(l) \/ at[l] = "retiring" \/ starter[s] = l
  /\ up' = [up EXCEPT ![s] = TRUE]
  /\ events' = [events EXCEPT ![s] = Boot.events]
  /\ starter' = [starter EXCEPT ![s] = None]
  /\ UNCHANGED <<pc, leader, runtime, target, at, link, kills, raises, harm>>

\* _revive_supervisors of a leader, also on its last turn after a stop, or _docker_start of
\* a replica whose connection was lost, also to one that leads no more.
Revive(s) ==
  /\ ~up[s] /\ \E l \in Supervisors : Serving(l) \/ at[l] = "retiring" \/ starter[s] = l
  /\ up' = [up EXCEPT ![s] = TRUE]
  /\ events' = [events EXCEPT ![s] = Boot.events]
  /\ starter' = [starter EXCEPT ![s] = None]
  /\ UNCHANGED <<pc, leader, runtime, target, at, link, kills, raises, harm>>

\* The container of s stops: its sockets close and nothing of its state survives.  evs are
\* the queues that its last sends leave.
Dies(s, evs) ==
  /\ up[s] /\ kills < MaxKills /\ kills + raises < MaxFaults
  /\ kills' = kills + 1
  /\ harm' = IF \E i \in DOMAIN events[s] : events[s][i] \in {Election, LeaderDown}
             THEN harm \cup {"cut off"} ELSE harm
  /\ up' = [up EXCEPT ![s] = FALSE]
  /\ events' = [evs EXCEPT ![s] = <<>>]
  /\ pc' = [pc EXCEPT ![s] = "idle"]
  /\ leader' = [leader EXCEPT ![s] = Boot.leader]
  /\ runtime' = [runtime EXCEPT ![s] = Boot.runtime]
  /\ target' = [target EXCEPT ![s] = None]
  /\ at' = [at EXCEPT ![s] = "waiting"]
  /\ link' = [p \in Supervisors |-> IF p = s THEN "new"
               ELSE IF target[p] = s /\ link[p] = "up" THEN "broken" ELSE link[p]]
  /\ starter' = [p \in Supervisors |->
       IF p = s THEN (IF Replica(s) /\ link[s] = "up" THEN target[s] ELSE None)
       ELSE IF starter[p] = s THEN None ELSE starter[p]]
  /\ UNCHANGED raises

Kill(s) == Dies(s, events)

\* What s may be sending: as a leader its claim, at a lost leader the election and, when no
\* one took that, the claim.
Sends(s, m, peers) ==
  \/ /\ m = Claim(s) /\ peers = Peers(s)
     /\ IsLeader(s) \/ (Handles(s, "leaderDown") /\ Acks(Greater(s)) = 0)
  \/ m = Election /\ peers = Greater(s) /\ Handles(s, "leaderDown") /\ ~IsLeader(s)

\* A kill between the connect to a peer and the send: the peers before it have the message.
KillMidSend(s) ==
  \E m \in {Claim(s), Election}, peers \in {Peers(s), Greater(s)} : \E p \in peers :
    /\ Sends(s, m, peers) /\ up[p] /\ pc[p] # "dead"
    /\ Dies(s, [Broadcast(events, m, {q \in peers : q < p}) EXCEPT ![p] = Append(@, Cut)])

EventWorker(s) ==
  \/ HandleLeaderDown(s) \/ Promote(s) \/ ClearLeader(s) \/ HandleElection(s)
  \/ HandleNewLeader(s) \/ Downgrade(s) \/ HandleCut(s)
RuntimeWorker(s) ==
  \/ OldRuntimeRaises(s) \/ PickRuntime(s) \/ StartRuntime(s)
  \/ ReplicaConnects(s) \/ ReplicaLosesLeader(s)

Next == \E s \in Supervisors :
  EventWorker(s) \/ RuntimeWorker(s) \/ Announce(s) \/ Revive(s) \/ Kill(s) \/ KillMidSend(s)

\* Every thread of a running supervisor runs, timers fire and docker start works; a kill
\* never has to happen.
Fairness == \A s \in Supervisors :
  /\ WF_vars(EventWorker(s))
  /\ WF_vars(PickRuntime(s) \/ StartRuntime(s) \/ ReplicaConnects(s))
  /\ SF_vars(ReplicaLosesLeader(s))
  /\ WF_vars(Announce(s))
  /\ WF_vars(Revive(s))

Spec == Init /\ [][Next]_vars /\ Fairness

-----------------------------------------------------------------------------
(* Properties *)

\* Where the runtime worker may be.
Places == {"waiting", "picked", "running", "left", "returning", "talking", "retiring", "stuck"}

\* Every field keeps its type; a supervisor that is down has no state.
TypeOK ==
  /\ up \in [Supervisors -> BOOLEAN] /\ kills \in 0..MaxKills /\ raises \in 0..MaxRaises
  /\ pc \in [Supervisors -> {"idle", "promote", "clear", "downgrade", "dead"}]
  /\ leader \in [Supervisors -> Supervisors \cup {None}]
  /\ target \in [Supervisors -> Supervisors \cup {None}]
  /\ starter \in [Supervisors -> Supervisors \cup {None}]
  /\ runtime \in [Supervisors -> {"none", "leader", "replica"}]
  /\ link \in [Supervisors -> {"new", "up", "broken"}]
  /\ at \in [Supervisors -> Places]
  /\ harm \subseteq {"cut off", "deaf", "stuck"}
  /\ \A s \in Supervisors : ~up[s] => events[s] = <<>> /\ runtime[s] = "none"

\* _leader and _runtime, which three threads read without a lock, agree whenever the event
\* worker is not between its writes of them: a supervisor that names a leader pings that
\* leader and no other.  In between it names the leader it is about to ping, or has the
\* leader's runtime while it still names the one it lost; and it never names or pings itself
\* or a lower id.
FollowsWhatItNames == \A s \in Supervisors :
  /\ leader[s] # None => leader[s] > s
  /\ runtime[s] = "replica" => target[s] > s
  /\ leader[s] # None /\ pc[s] \in {"idle", "promote", "dead"} =>
       runtime[s] = "replica" /\ target[s] = leader[s]
  /\ pc[s] = "downgrade" => leader[s] # None
  /\ pc[s] = "clear" => runtime[s] = "leader"

\* One leader, the greatest of the supervisors, serves; all others are up and follow it.
Settled ==
  /\ \A s \in Supervisors : up[s]
  /\ Serving(N - 1) /\ leader[N - 1] = None
  /\ \A s \in Supervisors \ {N - 1} :
       leader[s] = N - 1 /\ Replica(s) /\ target[s] = N - 1 /\ link[s] = "up"

\* Election, announcements, pings and restarts together: whenever the kills come, the
\* supervisors end with all of them running, the greatest one leading and everyone linked
\* to it, unless none is left or one of three things happened: a kill hit one that had taken
\* an election message and not yet acted on it (the sender has stood down and nothing makes
\* it try again), a kill between connect and send ended a peer's event worker, or a replica
\* runtime was stopped between its pick and its start.
SettlesUnlessHarmed ==
  <>[](Settled \/ harm # {} \/ \A s \in Supervisors : ~up[s])

\* A supervisor that waits for the announcement of a greater one; once it has a runtime
\* object it takes itself for the leader, whatever that runtime is.
StoodDown(s) == leader[s] = None /\ runtime[s] # "leader"

Highest(s) == up[s] /\ \A p \in Supervisors : up[p] => p <= s

\* Even then: the cluster only stays without a serving leader when none is left or the
\* greatest one that is up has stood down for a greater one that died, has lost its event
\* worker or is stuck in a runtime that it should have left.
LeaderlessOnlyIfStoodDown ==
  <>[](\A s \in Supervisors : Highest(s) =>
         Serving(s) \/ StoodDown(s) \/ pc[s] = "dead" \/ at[s] = "stuck")

=============================================================================
