------------------------------ MODULE NodeWatch ------------------------------
(***************************************************************************)
(* Failure detection and recovery of the pipeline's nodes: the heartbeat   *)
(* client in every node, the leading supervisor's NodeRegistry with its    *)
(* timeout sweep, its Reviver, and the chaos monkey.  Time passes in       *)
(* ticks of one registry sweep; what is due happens within Jitter ticks of *)
(* its time.  The leading supervisor changes when it crashes and when      *)
(* another one takes over from it, and a new one starts from an empty      *)
(* registry.                                                               *)
(***************************************************************************)
EXTENDS Integers, FiniteSets

CONSTANTS
  Nodes,             \* containers of the pipeline (EXPECTED_NODES)
  Excluded,          \* containers the chaos monkey spares
  Timeout,           \* HEARTBEAT_TIMEOUT
  Interval,          \* HEARTBEAT_INTERVAL
  ReconnectDelay,    \* pause before each connection attempt
  ReviveInterval,    \* REVIVE_INTERVAL
  Cooldown,          \* pause between two attempts to revive one node
  Jitter,            \* how late a timer may be served
  MaxGap,            \* longest time without a leading supervisor
  MaxOverlap,        \* longest time a demoted leader goes on beside the new one
  MaxStrikes,        \* bound: rounds of the chaos monkey
  MaxVictims,        \* CHAOS_KILLS_MAX
  MaxLeaderChanges,  \* bound: crashes and demotions of the leading supervisor
  MaxStartFailures   \* bound: docker start commands that fail

ASSUME NodeWatchAssumption ==
  /\ {Timeout, Interval, ReconnectDelay, ReviveInterval, Cooldown, Jitter} \subseteq Nat
  /\ {MaxGap, MaxOverlap, MaxStrikes, MaxVictims, MaxLeaderChanges, MaxStartFailures} \subseteq Nat
  /\ IsFiniteSet(Nodes) /\ Excluded \subseteq Nodes
  \* a heartbeat that is late is still in time
  /\ Interval + Jitter <= Timeout

Never == -1
Bound(t, b) == IF t > b THEN b ELSE t

VARIABLES
  up,           \* up[n]: is the container running?
  conn,         \* conn[n]: the heartbeat client's connection: "none", "open" to the leader,
                \*   "held" by one that is about to be demoted, "served" once more by one
                \*   that was, closed but "answered" as far as the client has read, "broken"
  timer,        \* timer[n]: ticks since the client's last send or connection attempt
  leading,      \* is there a leading supervisor?
  gap,          \* ticks without one
  old,          \* ticks since a hand-over whose demoted leader still goes on, or Never
  status,       \* status[n]: the registry's verdict
  age,          \* age[n]: ticks since the last heartbeat the registry saw, or Never
  graceAge,     \* ticks since the registry's first sweep, or Never
  swept,        \* has the sweeper run in this tick?
  attempt,      \* attempt[n]: ticks since the last attempt to revive n (capped), or Never
  reviverTimer, \* ticks since the reviver's last sweep
  strikes, leaderChanges, startFailures,
  steady,       \* history: nodes that were up since the leading supervisor took over
  downFor       \* history: downFor[n]: ticks n is down under the present leader

registry == <<status, age, graceAge, swept>>
reviver == <<attempt, reviverTimer>>
counters == <<strikes, leaderChanges, startFailures>>
vars == <<up, conn, timer, leading, gap, old, registry, reviver, counters, steady, downFor>>

\* NodeRegistry and Reviver as a new leader builds them.
FreshRegistry ==
  [status |-> [n \in Nodes |-> "unknown"], age |-> [n \in Nodes |-> Never]]
FreshReviver == [n \in Nodes |-> Never]

Init ==
  /\ up = [n \in Nodes |-> TRUE]
  /\ conn = [n \in Nodes |-> "none"] /\ timer = [n \in Nodes |-> 0]
  /\ leading = TRUE /\ gap = 0 /\ old = Never
  /\ status = FreshRegistry.status /\ age = FreshRegistry.age
  /\ graceAge = Never /\ swept = FALSE
  /\ attempt = FreshReviver /\ reviverTimer = ReviveInterval
  /\ strikes = 0 /\ leaderChanges = 0 /\ startFailures = 0
  /\ steady = Nodes /\ downFor = [n \in Nodes |-> 0]

-----------------------------------------------------------------------------
(* The heartbeat client. *)

Due(n) == IF conn[n] = "none" THEN ReconnectDelay ELSE Interval

\* register and heartbeat of the registry, on a message of n.
Seen(n) ==
  /\ age' = [age EXCEPT ![n] = 0]
  /\ status' = [status EXCEPT ![n] = "alive"]

\* _connect_to_server: an attempt after each delay; Register when it succeeds, with whoever
\* leads or still does.
Connect(n) ==
  /\ up[n] /\ conn[n] = "none" /\ timer[n] >= Due(n)
  /\ timer' = [timer EXCEPT ![n] = 0]
  /\ \/ leading /\ conn' = [conn EXCEPT ![n] = "open"] /\ Seen(n)
     \/ old # Never /\ conn' = [conn EXCEPT ![n] = "held"] /\ UNCHANGED <<age, status>>
     \/ ~leading /\ old = Never /\ UNCHANGED <<conn, age, status>>
  /\ UNCHANGED <<up, leading, gap, old, graceAge, swept, reviver, counters, steady, downFor>>

\* What a heartbeat makes of a connection that is not the leader's.  The answer to Register
\* is never read for itself, so every heartbeat reads the answer to the message before it:
\* one is still there when the supervisor has closed.
AfterBeat(c) ==
  CASE c = "served" -> "answered" [] c = "answered" -> "broken" [] c = "broken" -> "none"
    [] OTHER -> c

\* _heartbeat, and _run's reconnection when it raises.
Beat(n) ==
  /\ up[n] /\ conn[n] # "none" /\ timer[n] >= Due(n)
  /\ timer' = [timer EXCEPT ![n] = 0]
  /\ conn' = [conn EXCEPT ![n] = AfterBeat(conn[n])]
  /\ \/ conn[n] = "open" /\ Seen(n)
     \/ conn[n] # "open" /\ UNCHANGED <<age, status>>
  /\ UNCHANGED <<up, leading, gap, old, graceAge, swept, reviver, counters, steady, downFor>>

-----------------------------------------------------------------------------
(* The leading supervisor. *)

\* A plausible mistake: the heartbeat interval is taken for the timeout.
HeartbeatLostAtInterval(n) == status[n] = "alive" /\ age[n] # Never /\ age[n] > Interval

\* A plausible mistake: a node that has not sent anything yet is never given up.
NeverSeenIsFine(n) == FALSE

\* The conditions under which check_timeouts declares a node dead.
HeartbeatLost(n) == status[n] = "alive" /\ age[n] # Never /\ age[n] > Timeout
NeverSeen(n) == status[n] = "unknown" /\ age[n] = Never /\ graceAge # Never /\ graceAge > Timeout

\* check_timeouts, once in each tick; the first sweep starts the grace period.
CheckTimeouts ==
  /\ leading /\ ~swept
  /\ swept' = TRUE
  /\ graceAge' = IF graceAge = Never THEN 0 ELSE graceAge
  /\ status' = [n \in Nodes |-> IF HeartbeatLost(n) \/ NeverSeen(n) THEN "dead" ELSE status[n]]
  /\ UNCHANGED <<up, conn, timer, leading, gap, old, age, reviver, counters, steady, downFor>>

\* A plausible mistake: only nodes that have been tried before are tried again.
ToReviveAgainOnly == {n \in Nodes : status[n] = "dead" /\ attempt[n] > Cooldown}

\* Nodes the reviver's sweep acts on.
ToRevive == {n \in Nodes : status[n] = "dead" /\ (attempt[n] = Never \/ attempt[n] > Cooldown)}

\* Reviver.sweep and _revive: docker start does nothing to a running container, and one
\* failed start does not keep the others from being tried.
ReviverSweep ==
  /\ leading /\ reviverTimer >= ReviveInterval
  /\ reviverTimer' = 0
  /\ attempt' = [n \in Nodes |-> IF n \in ToRevive THEN 0 ELSE attempt[n]]
  /\ \E failed \in SUBSET ToRevive :
       /\ startFailures + Cardinality(failed) <= MaxStartFailures
       /\ startFailures' = startFailures + Cardinality(failed)
       /\ LET started == {n \in ToRevive \ failed : ~up[n]} IN
          /\ up' = [n \in Nodes |-> up[n] \/ n \in started]
          /\ conn' = [n \in Nodes |-> IF n \in started THEN "none" ELSE conn[n]]
          /\ timer' = [n \in Nodes |-> IF n \in started THEN 0 ELSE timer[n]]
          /\ downFor' = [n \in Nodes |-> IF n \in started THEN 0 ELSE downFor[n]]
  /\ UNCHANGED <<leading, gap, old, registry, strikes, leaderChanges, steady>>

-----------------------------------------------------------------------------
(* Changes of the leading supervisor. *)

\* The leading supervisor dies; the nodes' connections with it, before or after it answered
\* the last heartbeat.
LeaderCrash ==
  /\ leading /\ leaderChanges < MaxLeaderChanges
  /\ leaderChanges' = leaderChanges + 1
  /\ leading' = FALSE /\ gap' = 0
  /\ \E unanswered \in SUBSET Nodes :
       conn' = [n \in Nodes |-> IF conn[n] # "open" THEN conn[n]
                               ELSE IF n \in unanswered THEN "broken" ELSE "answered"]
  /\ UNCHANGED <<up, timer, old, registry, reviver, strikes, startFailures, steady, downFor>>

\* _promote: a supervisor leads with a new registry and a new reviver.
StartsToLead ==
  /\ leading' = TRUE
  /\ status' = FreshRegistry.status /\ age' = FreshRegistry.age
  /\ graceAge' = Never /\ swept' = FALSE
  /\ attempt' = FreshReviver /\ reviverTimer' = ReviveInterval
  /\ steady' = {n \in Nodes : up[n]}
  /\ downFor' = [n \in Nodes |-> 0]

TakeOver ==
  /\ ~leading
  /\ StartsToLead
  /\ UNCHANGED <<up, conn, timer, gap, old, counters>>

\* A supervisor that came back takes over from one with a lower id, which goes on until it
\* has handled the claim.
HandOver ==
  /\ leading /\ leaderChanges < MaxLeaderChanges
  /\ leaderChanges' = leaderChanges + 1
  /\ StartsToLead
  /\ old' = 0
  /\ conn' = [n \in Nodes |-> IF conn[n] = "open" THEN "held" ELSE conn[n]]
  /\ UNCHANGED <<up, timer, gap, strikes, startFailures>>

\* Until then its reviver may start a node too, of those that its own registry gave up.
OldRevives(n) ==
  /\ old # Never /\ ~up[n]
  /\ up' = [up EXCEPT ![n] = TRUE]
  /\ timer' = [timer EXCEPT ![n] = 0]
  /\ downFor' = [downFor EXCEPT ![n] = 0]
  /\ UNCHANGED <<conn, leading, gap, old, registry, reviver, counters, steady>>

\* LeaderRuntime.stop; each connection's thread is inside a recv and sees the stop after one
\* more message.
OldStops ==
  /\ old # Never
  /\ old' = Never
  /\ conn' = [n \in Nodes |-> IF conn[n] = "held" THEN "served" ELSE conn[n]]
  /\ UNCHANGED <<up, timer, leading, gap, registry, reviver, counters, steady, downFor>>

-----------------------------------------------------------------------------
(* The chaos monkey, and time. *)

\* select_victims and _kill.
Strike ==
  /\ strikes < MaxStrikes
  /\ strikes' = strikes + 1
  /\ \E victims \in SUBSET {n \in Nodes \ Excluded : up[n]} :
       /\ victims # {} /\ Cardinality(victims) <= MaxVictims
       /\ up' = [n \in Nodes |-> up[n] /\ n \notin victims]
       /\ conn' = [n \in Nodes |-> IF n \in victims THEN "none" ELSE conn[n]]
       /\ steady' = steady \ victims
  /\ UNCHANGED <<timer, leading, gap, old, registry, reviver, leaderChanges, startFailures, downFor>>

\* Longest time a node stays down with no failed start: until the timeout is noticed or the
\* cooldown of an earlier attempt is over, and then until the reviver's next sweep.
RecoveryBound == (IF Cooldown > Timeout THEN Cooldown ELSE Timeout) + 1 + ReviveInterval

\* Longest time until a node that was up all along has registered with a new leader: the old
\* one goes on and serves three heartbeats before the client notices, and then it pauses.
RegisterBound == MaxOverlap + 3 * (Interval + Jitter) + (ReconnectDelay + Jitter)

GraceCap == (IF RegisterBound > Timeout THEN RegisterBound ELSE Timeout) + 1

Older(t, b) == IF t = Never THEN Never ELSE Bound(t + 1, b)

\* One tick passes when nothing that is due is later than Jitter and the sweeper has run.
Tick ==
  /\ \A n \in Nodes : up[n] => timer[n] < Due(n) + Jitter
  /\ leading => swept /\ reviverTimer < ReviveInterval
  /\ ~leading => gap < MaxGap
  /\ old # Never => old < MaxOverlap
  /\ timer' = [n \in Nodes |-> IF up[n] THEN timer[n] + 1 ELSE 0]
  /\ age' = [n \in Nodes |-> Older(age[n], Timeout + 1)]
  /\ attempt' = [n \in Nodes |-> Older(attempt[n], Cooldown + 1)]
  /\ graceAge' = Older(graceAge, GraceCap)
  /\ swept' = FALSE
  /\ reviverTimer' = IF leading THEN reviverTimer + 1 ELSE reviverTimer
  /\ gap' = IF leading THEN gap ELSE gap + 1
  /\ old' = Older(old, MaxOverlap)
  /\ downFor' = [n \in Nodes |-> IF leading /\ ~up[n]
                 THEN Bound(downFor[n] + 1, (MaxStartFailures + 1) * RecoveryBound + 1) ELSE downFor[n]]
  /\ UNCHANGED <<up, conn, leading, status, counters, steady>>

LeaderChange == LeaderCrash \/ HandOver

Next ==
  \/ \E n \in Nodes : Connect(n) \/ Beat(n) \/ OldRevives(n)
  \/ CheckTimeouts \/ ReviverSweep \/ LeaderChange \/ TakeOver \/ OldStops \/ Strike \/ Tick

\* Time passes and what is due is done; neither leader changes nor strikes have to happen.
Fairness ==
  /\ WF_vars(Tick)
  /\ WF_vars((\E n \in Nodes : Connect(n) \/ Beat(n)) \/ CheckTimeouts \/ ReviverSweep \/ TakeOver \/ OldStops)

Spec == Init /\ [][Next]_vars /\ Fairness

-----------------------------------------------------------------------------
(* Properties *)

Connections == {"none", "open", "held", "served", "answered", "broken"}

\* Every timer stays within its bounds.
TypeOK ==
  /\ up \in [Nodes -> BOOLEAN] /\ conn \in [Nodes -> Connections]
  /\ timer \in [Nodes -> Nat] /\ \A n \in Nodes : up[n] => timer[n] <= Due(n) + Jitter
  /\ leading \in BOOLEAN /\ gap \in 0..MaxGap /\ old \in {Never} \cup 0..MaxOverlap
  /\ status \in [Nodes -> {"unknown", "alive", "dead"}]
  /\ age \in [Nodes -> {Never} \cup 0..Timeout + 1]
  /\ graceAge \in {Never} \cup 0..GraceCap /\ swept \in BOOLEAN
  /\ attempt \in [Nodes -> {Never} \cup 0..Cooldown + 1]
  /\ reviverTimer \in 0..ReviveInterval
  /\ strikes \in Nat /\ leaderChanges \in Nat /\ startFailures \in Nat
  /\ steady \subseteq Nodes /\ downFor \in [Nodes -> Nat]

\* The registry declares no node dead that it hears of: one that is connected to the leader
\* never is, however late its heartbeats.  A node that has been up since the leader took over
\* only is while it has not found that leader yet, and not for long: the demoted leader may
\* go on and answer, the client notices two heartbeats late and pauses before it tries.  (To
\* give such a node up is harmless: docker start does nothing to a running container.)
NoFalseDeath == leading =>
  \A n \in Nodes :
    /\ up[n] /\ conn[n] = "open" => status[n] # "dead"
    /\ n \in steady /\ status[n] = "dead" => age[n] = Never /\ graceAge <= RegisterBound

\* No node that was there all along is given up at all: this takes a timeout of at least
\* RegisterBound, which the shipped settings do not give.
NoneGivenUp == leading => \A n \in steady : status[n] # "dead"

\* Detection and revival are timely under one leader (a new one starts from nothing, and the
\* time begins again): a node is not left down longer than one timeout or
\* cooldown and one round of the reviver per attempt that could fail.
DownIsShort == \A n \in Nodes : downFor[n] <= (startFailures + 1) * RecoveryBound

\* Every node comes back for good once strikes, leader crashes and failed starts are over,
\* one that died unseen between two leaders too.
Recovers == <>[](\A n \in Nodes : up[n] /\ conn[n] = "open" /\ status[n] = "alive")

-----------------------------------------------------------------------------
(* Inductive strengthening of NoFalseDeath *)

\* Heartbeats until a client that is not connected to the leader notices.
BeatsLeft(c) == CASE c = "none" -> 0 [] c = "broken" -> 1 [] c = "answered" -> 2 [] OTHER -> 3

\* Longest time until a node that has not registered yet does.
Registers(n) ==
  IF old # Never THEN RegisterBound - old
  ELSE IF conn[n] = "none" THEN ReconnectDelay + Jitter - timer[n]
  ELSE BeatsLeft(conn[n]) * (Interval + Jitter) - timer[n] + ReconnectDelay + Jitter

\* A connected node sent its last heartbeat no longer ago than its client says, and the
\* connection is to the present leader; one that is held is to a leader that still goes on.
Connected(n) ==
  /\ conn[n] = "open" =>
       leading /\ up[n] /\ status[n] = "alive" /\ age[n] # Never /\ age[n] <= timer[n]
  /\ conn[n] = "held" => old # Never

\* A node that was there all along has registered and is connected, or will have registered
\* before RegisterBound is over.
SteadyOK(n) ==
  n \in steady =>
    /\ up[n]
    /\ leading /\ age[n] # Never => conn[n] = "open"
    /\ leading /\ age[n] = Never => status[n] # "alive" /\ graceAge + Registers(n) <= RegisterBound

\* A node that was given up unseen outlasted the timeout.
GivenUpOK(n) == leading /\ status[n] = "dead" /\ age[n] = Never => graceAge > Timeout

WatchInv == TypeOK /\ \A n \in Nodes : Connected(n) /\ SteadyOK(n) /\ GivenUpOK(n)

-----------------------------------------------------------------------------
(* Inductive strengthening of DownIsShort *)

\* After its sweep of this tick the registry has given up every node it should.
SweepDone ==
  leading /\ swept => graceAge # Never /\ \A n \in Nodes : ~HeartbeatLost(n) /\ ~NeverSeen(n)

\* A node that is not given up was heard of, or is in its grace period, at least as long ago
\* as it went down.
Unnoticed(n) ==
  /\ status[n] = "alive" => age[n] # Never /\ downFor[n] <= age[n]
  /\ status[n] = "unknown" =>
       age[n] = Never /\ (downFor[n] = 0 \/ downFor[n] <= graceAge) /\ downFor[n] <= Timeout + 1

Spent == startFailures * RecoveryBound

\* A node in its cooldown went down after the last attempt, or that attempt failed.
InCooldown(n) ==
  attempt[n] # Never /\ attempt[n] <= Cooldown => downFor[n] <= Spent + attempt[n]

\* A node that the next sweep will try to start waits no longer than for that sweep.
NextInLine(n) ==
  n \in ToRevive =>
    downFor[n] <= Spent + (RecoveryBound - ReviveInterval) + reviverTimer

DownInv ==
  /\ TypeOK
  /\ SweepDone
  /\ \A n \in Nodes :
       /\ up[n] => downFor[n] = 0
       /\ leading => Unnoticed(n) /\ InCooldown(n) /\ NextInLine(n)
  /\ DownIsShort
=============================================================================
