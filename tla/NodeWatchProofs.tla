-------------------------- MODULE NodeWatchProofs --------------------------
(***************************************************************************)
(* Proofs about failure detection and revival, for any set of nodes, any   *)
(* timer settings that satisfy NodeWatchAssumption, and any number of      *)
(* strikes, leader changes and failed starts.                              *)
(***************************************************************************)
EXTENDS NodeWatch, FiniteSetTheorems, TLAPS

(* What the settings promise the proofs. *)
LEMMA Settings ==
  /\ Timeout \in Nat /\ Interval \in Nat /\ ReconnectDelay \in Nat /\ Jitter \in Nat
  /\ ReviveInterval \in Nat /\ Cooldown \in Nat /\ MaxGap \in Nat
  /\ MaxStartFailures \in Nat /\ MaxOverlap \in Nat
  /\ Interval + Jitter <= Timeout
BY NodeWatchAssumption

(* The bound on registering, and where the grace period's clock stops. *)
LEMMA GraceFacts ==
  /\ RegisterBound \in Nat /\ GraceCap \in Nat
  /\ GraceCap >= Timeout + 1 /\ GraceCap >= RegisterBound + 1
BY Settings DEF RegisterBound, GraceCap

(* RecoveryBound leaves one round of the reviver after the longer of timeout *)
(* and cooldown.                                                             *)
LEMMA BoundFacts ==
  /\ RecoveryBound \in Nat
  /\ RecoveryBound - ReviveInterval >= Timeout + 1
  /\ RecoveryBound - ReviveInterval >= Cooldown + 1
BY Settings DEF RecoveryBound

(* Growing older by one tick, up to the bound that the sweeps can tell. *)
LEMMA OlderFacts ==
  ASSUME NEW b \in Nat, NEW t \in {Never} \cup 0 .. b
  PROVE  /\ Older(t, b) \in {Never} \cup 0 .. b
         /\ Older(t, b) = Never <=> t = Never
         /\ Older(t, b) <= t + 1
         /\ t # Never /\ t < b => Older(t, b) = t + 1
         /\ t = b => Older(t, b) = b
BY DEF Older, Bound, Never

(* A client's timer and pause are natural numbers. *)
LEMMA DueType == \A n \in Nodes : Due(n) \in Nat
BY Settings DEF Due

-----------------------------------------------------------------------------
(* Types *)

(* The first leader starts with everything running and nobody registered. *)
LEMMA InitType == Init => TypeOK
<1> SUFFICES ASSUME Init PROVE TypeOK
  OBVIOUS
<1>1. /\ status = [n \in Nodes |-> "unknown"] /\ age = [n \in Nodes |-> Never]
      /\ attempt = [n \in Nodes |-> Never]
  BY DEF Init, FreshRegistry, FreshReviver
<1>2. /\ timer \in [Nodes -> Nat] /\ downFor \in [Nodes -> Nat]
      /\ up \in [Nodes -> BOOLEAN] /\ conn \in [Nodes -> Connections]
  BY DEF Init, Connections
<1>3. \A n \in Nodes : timer[n] <= Due(n) + Jitter
  BY Settings DEF Init, Due
<1>4. gap \in 0 .. MaxGap /\ reviverTimer \in 0 .. ReviveInterval /\ old = Never
  BY Settings DEF Init
<1> QED
  BY <1>1, <1>2, <1>3, <1>4 DEF Init, TypeOK

(* Every step keeps every timer within its bounds. *)
LEMMA NextType ==
  ASSUME TypeOK, [Next]_vars
  PROVE  TypeOK'
<1> USE Settings DEF TypeOK, Due
<1>1. ASSUME NEW n \in Nodes, Connect(n) PROVE TypeOK'
  BY <1>1 DEF Connect, Seen, reviver, counters, Connections
<1>2. ASSUME NEW n \in Nodes, Beat(n) PROVE TypeOK'
  <2>1. AfterBeat(conn[n]) \in Connections
    BY DEF AfterBeat, Connections
  <2>2. conn' \in [Nodes -> Connections] /\ \A p \in Nodes : p # n => conn'[p] = conn[p]
    BY <1>2, <2>1 DEF Beat
  <2>3. /\ timer' = [timer EXCEPT ![n] = 0]
        /\ age' \in [Nodes -> {Never} \cup 0 .. Timeout + 1]
        /\ status' \in [Nodes -> {"unknown", "alive", "dead"}]
        /\ UNCHANGED <<up, leading, gap, old, graceAge, swept, attempt, reviverTimer,
                       strikes, leaderChanges, startFailures, steady, downFor>>
    BY <1>2 DEF Beat, Seen, reviver, counters
  <2> QED
    BY <2>2, <2>3
<1>3. CASE CheckTimeouts
  BY <1>3, GraceFacts DEF CheckTimeouts, reviver, counters
<1>4. CASE ReviverSweep
  <2>1. PICK failed \in SUBSET ToRevive :
          /\ startFailures' = startFailures + Cardinality(failed)
          /\ LET started == {n \in ToRevive \ failed : ~up[n]} IN
             /\ up' = [n \in Nodes |-> up[n] \/ n \in started]
             /\ conn' = [n \in Nodes |-> IF n \in started THEN "none" ELSE conn[n]]
             /\ timer' = [n \in Nodes |-> IF n \in started THEN 0 ELSE timer[n]]
             /\ downFor' = [n \in Nodes |-> IF n \in started THEN 0 ELSE downFor[n]]
    BY <1>4 DEF ReviverSweep
  <2>2. failed \subseteq Nodes
    BY DEF ToRevive
  <2>3. Cardinality(failed) \in Nat
    BY <2>2, NodeWatchAssumption, FS_Subset, FS_CardinalityType
  <2>4. /\ attempt' \in [Nodes -> {Never} \cup 0 .. Cooldown + 1]
        /\ reviverTimer' = 0 /\ UNCHANGED <<leading, gap, old, registry, strikes, leaderChanges, steady>>
    BY <1>4 DEF ReviverSweep
  <2> QED
    BY <2>1, <2>3, <2>4 DEF registry, Connections
<1>5. CASE LeaderCrash
  <2>1. /\ conn' \in [Nodes -> Connections]
        /\ \A n \in Nodes : conn'[n] = "none" <=> conn[n] = "none"
        /\ gap' \in 0 .. MaxGap /\ leaderChanges' \in Nat /\ leading' = FALSE
        /\ UNCHANGED <<up, timer, old, status, age, graceAge, swept, attempt, reviverTimer,
                       strikes, startFailures, steady, downFor>>
    BY <1>5 DEF LeaderCrash, registry, reviver, Connections
  <2> QED
    BY <2>1
<1>6. CASE TakeOver \/ HandOver
  <2>1. /\ status' = [n \in Nodes |-> "unknown"] /\ age' = [n \in Nodes |-> Never]
        /\ attempt' = [n \in Nodes |-> Never] /\ downFor' = [n \in Nodes |-> 0]
        /\ graceAge' = Never /\ swept' = FALSE /\ leading' = TRUE
        /\ reviverTimer' = ReviveInterval /\ steady' \subseteq Nodes
        /\ UNCHANGED <<up, timer, gap, strikes, startFailures>>
    BY <1>6 DEF TakeOver, HandOver, StartsToLead, FreshRegistry, FreshReviver, counters
  <2>2. reviverTimer' \in 0 .. ReviveInterval /\ old' \in {Never} \cup 0 .. MaxOverlap
    BY <1>6, <2>1 DEF TakeOver, HandOver
  <2>3. /\ conn' \in [Nodes -> Connections] /\ leaderChanges' \in Nat
        /\ \A n \in Nodes : conn'[n] = "none" <=> conn[n] = "none"
    BY <1>6 DEF TakeOver, HandOver, Connections, counters
  <2> QED
    BY <2>1, <2>2, <2>3
<1>10. ASSUME NEW n \in Nodes, OldRevives(n) PROVE TypeOK'
  BY <1>10 DEF OldRevives, registry, reviver, counters
<1>11. CASE OldStops
  <2>1. /\ conn' \in [Nodes -> Connections] /\ old' = Never
        /\ \A n \in Nodes : conn'[n] = "none" <=> conn[n] = "none"
        /\ UNCHANGED <<up, timer, leading, gap, status, age, graceAge, swept, attempt, reviverTimer,
                       strikes, leaderChanges, startFailures, steady, downFor>>
    BY <1>11 DEF OldStops, registry, reviver, counters, Connections
  <2> QED
    BY <2>1
<1>7. CASE Strike
  <2>1. PICK victims \in SUBSET Nodes :
          /\ up' = [n \in Nodes |-> up[n] /\ n \notin victims]
          /\ conn' = [n \in Nodes |-> IF n \in victims THEN "none" ELSE conn[n]]
          /\ steady' = steady \ victims
    BY <1>7 DEF Strike
  <2>2. /\ UNCHANGED <<timer, leading, gap, old, status, age, graceAge, swept, attempt,
                       reviverTimer, leaderChanges, startFailures, downFor>>
        /\ strikes' \in Nat
    BY <1>7 DEF Strike, registry, reviver
  <2>3. \A n \in Nodes : up'[n] => conn'[n] = conn[n] /\ up[n]
    BY <2>1
  <2>4. up' \in [Nodes -> BOOLEAN] /\ conn' \in [Nodes -> Connections]
    BY <2>1 DEF Connections
  <2> QED
    BY <2>1, <2>2, <2>3, <2>4
<1>8. CASE Tick
  <2>1. /\ age' \in [Nodes -> {Never} \cup 0 .. Timeout + 1]
        /\ attempt' \in [Nodes -> {Never} \cup 0 .. Cooldown + 1]
        /\ graceAge' \in {Never} \cup 0 .. GraceCap
    BY <1>8, OlderFacts, GraceFacts DEF Tick
  <2>2. downFor' \in [Nodes -> Nat]
    <3>1. (MaxStartFailures + 1) * RecoveryBound + 1 \in Nat
      BY BoundFacts
    <3>2. \A n \in Nodes : Bound(downFor[n] + 1, (MaxStartFailures + 1) * RecoveryBound + 1) \in Nat
      BY <3>1 DEF Bound
    <3> QED
      BY <1>8, <3>2 DEF Tick
  <2>3. /\ timer' \in [Nodes -> Nat] /\ \A n \in Nodes : up'[n] => timer'[n] <= Due(n)' + Jitter
    BY <1>8 DEF Tick
  <2>4. gap' \in 0 .. MaxGap /\ reviverTimer' \in 0 .. ReviveInterval
    BY <1>8 DEF Tick
  <2>5. old' \in {Never} \cup 0 .. MaxOverlap
    BY <1>8, OlderFacts DEF Tick
  <2> QED
    BY <1>8, <2>1, <2>2, <2>3, <2>4, <2>5 DEF Tick, counters
<1>9. CASE UNCHANGED vars
  BY <1>9 DEF vars, registry, reviver, counters
<1> QED
  BY <1>1, <1>2, <1>3, <1>4, <1>5, <1>6, <1>7, <1>8, <1>9, <1>10, <1>11 DEF Next, LeaderChange

-----------------------------------------------------------------------------
(* No false death *)

(* Every step a client may be away from registering is within the bound. *)
LEMMA RegistersType ==
  ASSUME TypeOK, NEW n \in Nodes, up[n]
  PROVE  Registers(n) \in Int /\ 0 <= Registers(n) /\ Registers(n) <= RegisterBound
<1>1. /\ timer[n] \in Nat /\ timer[n] <= Due(n) + Jitter
      /\ old \in {Never} \cup 0 .. MaxOverlap
  BY DEF TypeOK
<1>2. CASE old # Never
  BY <1>1, <1>2, Settings DEF Registers, RegisterBound
<1>3. CASE old = Never /\ conn[n] = "none"
  BY <1>1, <1>3, Settings DEF Registers, RegisterBound, Due
<1>4. CASE old = Never /\ conn[n] # "none"
  <2>1. timer[n] <= Interval + Jitter
    BY <1>1, <1>4 DEF Due
  <2>2. BeatsLeft(conn[n]) \in {1, 2, 3}
    BY <1>4 DEF BeatsLeft
  <2>3. Registers(n) = BeatsLeft(conn[n]) * (Interval + Jitter) - timer[n] + ReconnectDelay + Jitter
    BY <1>4 DEF Registers
  <2> QED
    BY <1>1, <2>1, <2>2, <2>3, Settings DEF RegisterBound
<1> QED
  BY <1>2, <1>3, <1>4

(* WatchInv, one node at a time. *)
NodeWatched(n) == Connected(n) /\ SteadyOK(n) /\ GivenUpOK(n)

(* A step that leaves what the invariant reads of n alone keeps it for n. *)
LEMMA SameNode ==
  ASSUME NEW n \in Nodes, NodeWatched(n),
         UNCHANGED <<up[n], conn[n], timer[n], status[n], age[n], leading, old, graceAge>>,
         n \in steady' => n \in steady
  PROVE  NodeWatched(n)'
<1>1. Registers(n)' = Registers(n)
  BY DEF Registers, RegisterBound
<1> QED
  BY <1>1 DEF NodeWatched, Connected, SteadyOK, GivenUpOK, RegisterBound

(* At the start everyone is steady and has a whole grace period left. *)
LEMMA InitWatch == Init => WatchInv
<1> SUFFICES ASSUME Init PROVE WatchInv
  OBVIOUS
<1>1. TypeOK
  BY InitType
<1>2. status = [n \in Nodes |-> "unknown"] /\ age = [n \in Nodes |-> Never]
  BY DEF Init, FreshRegistry
<1>3. \A n \in Nodes : up[n] /\ conn[n] = "none" /\ -1 + Registers(n) <= RegisterBound
  BY <1>1, RegistersType, GraceFacts DEF Init
<1> QED
  BY <1>1, <1>2, <1>3 DEF Init, WatchInv, Connected, SteadyOK, GivenUpOK, Never

(* A message of n, on its connection or on a new one, makes it alive; a    *)
(* heartbeat on a lost connection brings n nearer to a new one.            *)
LEMMA ClientWatch ==
  ASSUME WatchInv, TypeOK', NEW n \in Nodes, Connect(n) \/ Beat(n)
  PROVE  WatchInv'
<1>0. /\ age \in [Nodes -> {Never} \cup 0 .. Timeout + 1] /\ conn \in [Nodes -> Connections]
      /\ timer \in [Nodes -> Nat] /\ DOMAIN status = Nodes
      /\ graceAge \in {Never} \cup 0 .. GraceCap /\ old \in {Never} \cup 0 .. MaxOverlap
      /\ (up[n] => timer[n] <= Due(n) + Jitter)
      /\ TypeOK /\ \A p \in Nodes : NodeWatched(p)
  BY DEF WatchInv, TypeOK, NodeWatched
<1>1. /\ UNCHANGED <<up, leading, old, graceAge, swept, steady>> /\ up[n]
      /\ timer' = [timer EXCEPT ![n] = 0]
  BY DEF Connect, Beat
<1>2. \A p \in Nodes : p # n => /\ conn'[p] = conn[p] /\ age'[p] = age[p]
                                /\ status'[p] = status[p] /\ timer'[p] = timer[p]
  BY <1>0, <1>1 DEF Connect, Beat, Seen
<1>3. \A p \in Nodes : p # n => NodeWatched(p)'
  BY <1>0, <1>1, <1>2, SameNode
<1>4. NodeWatched(n)'
  <2>1. CASE conn'[n] = "open" /\ Seen(n) /\ leading
    BY <1>0, <1>1, <2>1 DEF Seen, NodeWatched, Connected, SteadyOK, GivenUpOK, Never
  <2>2. CASE ~leading /\ conn[n] = "none" /\ UNCHANGED <<conn, age, status>>
    BY <1>0, <1>1, <2>2 DEF NodeWatched, Connected, SteadyOK, GivenUpOK
  <2>3. CASE old # Never /\ conn[n] # "open" /\ conn'[n] # "open" /\ UNCHANGED <<age, status>>
    <3>1. Registers(n)' = Registers(n)
      BY <1>1, <2>3 DEF Registers, RegisterBound
    <3> QED
      BY <1>0, <1>1, <2>3, <3>1 DEF NodeWatched, Connected, SteadyOK, GivenUpOK, RegisterBound
  <2>4. CASE /\ old = Never /\ conn[n] # "open" /\ conn[n] # "none"
             /\ conn'[n] = AfterBeat(conn[n]) /\ UNCHANGED <<age, status>>
    <3>0. timer[n] \in Nat /\ timer[n] <= Interval + Jitter /\ timer'[n] = 0
      BY <1>0, <1>1, <2>4 DEF Due
    <3>1. conn[n] \in {"served", "answered", "broken"}
      BY <1>0, <2>4 DEF NodeWatched, Connected, Connections
    <3>2. /\ Registers(n)' \in Int /\ Registers(n) \in Int /\ Registers(n)' <= Registers(n)
          /\ conn'[n] # "open" /\ conn'[n] # "held"
      <4>1. CASE conn[n] = "broken"
        <5>1. /\ conn'[n] = "none" /\ Registers(n)' = ReconnectDelay + Jitter - timer'[n]
              /\ Registers(n) = 1 * (Interval + Jitter) - timer[n] + ReconnectDelay + Jitter
          BY <1>1, <2>4, <4>1 DEF AfterBeat, Registers, BeatsLeft
        <5> QED
          BY <3>0, <5>1, Settings
      <4>2. CASE conn[n] = "answered"
        <5>1. /\ conn'[n] = "broken"
              /\ Registers(n)' = 1 * (Interval + Jitter) - timer'[n] + ReconnectDelay + Jitter
              /\ Registers(n) = 2 * (Interval + Jitter) - timer[n] + ReconnectDelay + Jitter
          BY <1>1, <2>4, <4>2 DEF AfterBeat, Registers, BeatsLeft
        <5> QED
          BY <3>0, <5>1, Settings
      <4>3. CASE conn[n] = "served"
        <5>1. /\ conn'[n] = "answered"
              /\ Registers(n)' = 2 * (Interval + Jitter) - timer'[n] + ReconnectDelay + Jitter
              /\ Registers(n) = 3 * (Interval + Jitter) - timer[n] + ReconnectDelay + Jitter
          BY <1>1, <2>4, <4>3 DEF AfterBeat, Registers, BeatsLeft
        <5> QED
          BY <3>0, <5>1, Settings
      <4> QED
        BY <3>1, <4>1, <4>2, <4>3
    <3>3. Connected(n)' /\ GivenUpOK(n)'
      BY <1>0, <1>1, <2>4, <3>2 DEF NodeWatched, Connected, GivenUpOK
    <3>4. SteadyOK(n)'
      <4>1. n \in steady /\ leading => age[n] = Never /\ status[n] # "alive"
                                       /\ graceAge + Registers(n) <= RegisterBound
        BY <1>0, <2>4 DEF NodeWatched, SteadyOK
      <4>2. n \in steady /\ leading => graceAge + Registers(n)' <= RegisterBound
        BY <1>0, <3>2, <4>1, GraceFacts DEF Never
      <4> QED
        BY <1>1, <2>4, <4>1, <4>2 DEF SteadyOK, RegisterBound
    <3> QED
      BY <3>3, <3>4 DEF NodeWatched
  <2>5. CASE Connect(n)
    <3>1. conn[n] = "none"
      BY <2>5 DEF Connect
    <3> QED
      BY <1>0, <2>1, <2>2, <2>3, <2>5, <3>1 DEF Connect
  <2>6. CASE Beat(n)
    <3>1. conn[n] # "none" /\ conn'[n] = AfterBeat(conn[n])
      BY <1>0, <2>6 DEF Beat
    <3>2. CASE conn[n] = "open"
      <4>1. conn'[n] = "open" /\ Seen(n) /\ leading
        BY <1>0, <2>6, <3>1, <3>2 DEF Beat, AfterBeat, NodeWatched, Connected
      <4> QED
        BY <2>1, <4>1
    <3>3. CASE conn[n] # "open"
      <4>1. UNCHANGED <<age, status>> /\ conn'[n] # "open"
        BY <1>0, <2>6, <3>1, <3>3 DEF Beat, AfterBeat, Connections
      <4> QED
        BY <2>3, <2>4, <3>1, <3>3, <4>1
    <3> QED
      BY <3>2, <3>3
  <2> QED
    BY <2>5, <2>6
<1> QED
  BY <1>3, <1>4 DEF WatchInv, NodeWatched

(* The sweep gives up no connected node, and one that was there all along  *)
(* only while it has not registered.                                       *)
LEMMA SweepWatch ==
  ASSUME WatchInv, TypeOK', CheckTimeouts
  PROVE  WatchInv'
<1>0. /\ age \in [Nodes -> {Never} \cup 0 .. Timeout + 1]
      /\ status \in [Nodes -> {"unknown", "alive", "dead"}]
      /\ timer \in [Nodes -> Nat] /\ graceAge \in {Never} \cup 0 .. GraceCap /\ TypeOK
  BY DEF WatchInv, TypeOK
<1>1. /\ UNCHANGED <<up, conn, timer, leading, old, age, steady>> /\ leading
      /\ graceAge' = (IF graceAge = Never THEN 0 ELSE graceAge)
      /\ \A n \in Nodes : status'[n] = IF HeartbeatLost(n) \/ NeverSeen(n) THEN "dead" ELSE status[n]
  BY <1>0 DEF CheckTimeouts
<1>2. ASSUME NEW n \in Nodes PROVE Connected(n)' /\ SteadyOK(n)' /\ GivenUpOK(n)'
  <2>1. conn[n] = "open" => ~HeartbeatLost(n) /\ ~NeverSeen(n)
    <3>1. conn[n] = "open" => up[n] /\ status[n] = "alive" /\ age[n] # Never /\ age[n] <= timer[n]
      BY DEF WatchInv, Connected
    <3>2. conn[n] = "open" => timer[n] <= Interval + Jitter
      BY <3>1 DEF WatchInv, TypeOK, Due
    <3> QED
      BY <1>0, <3>1, <3>2, Settings DEF HeartbeatLost, NeverSeen, Never
  <2>2. Connected(n)'
    BY <1>1, <2>1 DEF WatchInv, Connected
  <2>3. SteadyOK(n)'
    <3> SUFFICES ASSUME n \in steady, age[n] = Never
                 PROVE  status'[n] # "alive" /\ graceAge' + Registers(n)' <= RegisterBound
      BY <1>1 DEF WatchInv, SteadyOK, RegisterBound
    <3>1. status[n] # "alive" /\ up[n] /\ graceAge + Registers(n) <= RegisterBound
      BY <1>1 DEF WatchInv, SteadyOK
    <3>2. Registers(n)' = Registers(n)
      BY <1>1 DEF Registers, RegisterBound
    <3>3. Registers(n) \in Int /\ Registers(n) <= RegisterBound
      BY <1>0, <3>1, RegistersType
    <3> QED
      BY <1>0, <1>1, <3>1, <3>2, <3>3, GraceFacts DEF Never
  <2>4. GivenUpOK(n)'
    <3> SUFFICES ASSUME status'[n] = "dead", age[n] = Never PROVE graceAge' > Timeout
      BY <1>1 DEF GivenUpOK
    <3>1. CASE NeverSeen(n)
      BY <1>1, <3>1 DEF NeverSeen
    <3>2. CASE ~NeverSeen(n)
      <4>1. status[n] = "dead"
        BY <1>1, <3>2 DEF HeartbeatLost
      <4>2. graceAge > Timeout
        BY <1>1, <4>1 DEF WatchInv, GivenUpOK
      <4> QED
        BY <1>0, <1>1, <4>2, Settings DEF Never
    <3> QED
      BY <3>1, <3>2
  <2> QED
    BY <2>2, <2>3, <2>4
<1> QED
  BY <1>2 DEF WatchInv

(* Both clocks of a connected node, and both of a steady one, move together. *)
LEMMA TickWatch ==
  ASSUME WatchInv, TypeOK', Tick
  PROVE  WatchInv'
<1>0. /\ age \in [Nodes -> {Never} \cup 0 .. Timeout + 1] /\ timer \in [Nodes -> Nat]
      /\ graceAge \in {Never} \cup 0 .. GraceCap /\ old \in {Never} \cup 0 .. MaxOverlap
      /\ TypeOK
  BY DEF WatchInv, TypeOK
<1>1. /\ UNCHANGED <<up, conn, leading, status, steady>>
      /\ graceAge' = Older(graceAge, GraceCap)
      /\ old' = Older(old, MaxOverlap) /\ (old # Never => old < MaxOverlap)
      /\ \A n \in Nodes : /\ age'[n] = Older(age[n], Timeout + 1)
                          /\ up[n] => timer'[n] = timer[n] + 1 /\ timer[n] < Due(n) + Jitter
  BY DEF Tick
<1>2. /\ old' = Never <=> old = Never
      /\ old # Never => old' = old + 1
  BY <1>0, <1>1, Settings, OlderFacts
<1>3. /\ graceAge' \in {Never} \cup 0 .. GraceCap /\ graceAge' <= graceAge + 1
      /\ graceAge > Timeout => graceAge' > Timeout
  <2>1. /\ graceAge' \in {Never} \cup 0 .. GraceCap /\ graceAge' <= graceAge + 1
        /\ graceAge # Never /\ graceAge < GraceCap => graceAge' = graceAge + 1
        /\ graceAge = GraceCap => graceAge' = GraceCap
    BY <1>0, <1>1, GraceFacts, OlderFacts
  <2> QED
    BY <1>0, <2>1, GraceFacts, Settings DEF Never
<1>4. ASSUME NEW n \in Nodes PROVE Connected(n)' /\ SteadyOK(n)' /\ GivenUpOK(n)'
  <2>1. /\ age'[n] \in {Never} \cup 0 .. Timeout + 1 /\ (age'[n] = Never <=> age[n] = Never)
        /\ age'[n] <= age[n] + 1
    BY <1>0, <1>1, Settings, OlderFacts
  <2>2. Connected(n)'
    BY <1>0, <1>1, <1>2, <2>1 DEF WatchInv, Connected, Never
  <2>3. GivenUpOK(n)'
    BY <1>1, <1>3, <2>1 DEF WatchInv, GivenUpOK
  <2>4. SteadyOK(n)'
    <3> SUFFICES ASSUME n \in steady PROVE SteadyOK(n)'
      BY <1>1 DEF SteadyOK
    <3>1. up[n] /\ timer'[n] = timer[n] + 1 /\ timer[n] \in Nat
      BY <1>0, <1>1 DEF WatchInv, SteadyOK
    <3>2. Registers(n) \in Int
      BY <1>0, <3>1, RegistersType
    <3>3. Registers(n)' = Registers(n) - 1
      <4>1. CASE old # Never
        BY <1>0, <1>2, <4>1, GraceFacts DEF Registers, RegisterBound
      <4>2. CASE old = Never /\ conn[n] = "none"
        BY <1>1, <1>2, <3>1, <4>2, Settings DEF Registers
      <4>3. CASE old = Never /\ conn[n] # "none"
        <5>1. BeatsLeft(conn[n]) \in {1, 2, 3}
          BY <4>3 DEF BeatsLeft
        <5>2. /\ Registers(n) = BeatsLeft(conn[n]) * (Interval + Jitter) - timer[n] + ReconnectDelay + Jitter
              /\ Registers(n)' = BeatsLeft(conn[n]) * (Interval + Jitter) - timer'[n] + ReconnectDelay + Jitter
          BY <1>1, <1>2, <4>3 DEF Registers, BeatsLeft
        <5> QED
          BY <3>1, <5>1, <5>2, Settings
      <4> QED
        BY <4>1, <4>2, <4>3
    <3>4. leading /\ age[n] = Never => graceAge' + Registers(n)' <= RegisterBound
      <4>1. leading /\ age[n] = Never => graceAge + Registers(n) <= RegisterBound
        BY DEF WatchInv, SteadyOK
      <4> QED
        BY <1>0, <1>3, <3>2, <3>3, <4>1, GraceFacts DEF Never
    <3> QED
      BY <1>1, <2>1, <3>1, <3>4 DEF WatchInv, SteadyOK, RegisterBound
  <2> QED
    BY <2>2, <2>3, <2>4
<1> QED
  BY <1>4 DEF WatchInv

(* Revival and strikes. *)
LEMMA NodeFaultWatch ==
  ASSUME WatchInv, TypeOK', ReviverSweep \/ Strike \/ \E n \in Nodes : OldRevives(n)
  PROVE  WatchInv'
<1>0. DOMAIN conn = Nodes /\ DOMAIN up = Nodes /\ DOMAIN timer = Nodes
      /\ \A n \in Nodes : NodeWatched(n)
  BY DEF WatchInv, TypeOK, NodeWatched
<1>1. CASE ReviverSweep \/ \E n \in Nodes : OldRevives(n)
  <2>1. /\ UNCHANGED <<leading, old, status, age, graceAge, swept, steady>>
        /\ \A n \in Nodes : up[n] => up'[n] /\ conn'[n] = conn[n] /\ timer'[n] = timer[n]
        /\ \A n \in Nodes : ~up[n] => conn'[n] \in {"none", conn[n]}
    BY <1>0, <1>1 DEF ReviverSweep, OldRevives, registry
  <2>2. \A n \in Nodes : Connected(n)' /\ GivenUpOK(n)'
    BY <2>1 DEF WatchInv, Connected, GivenUpOK
  <2>3. ASSUME NEW n \in Nodes PROVE SteadyOK(n)'
    <3>1. n \in steady => up[n] /\ Registers(n)' = Registers(n)
      BY <2>1 DEF WatchInv, SteadyOK, Registers, RegisterBound
    <3> QED
      BY <2>1, <3>1 DEF WatchInv, SteadyOK, RegisterBound
  <2> QED
    BY <2>2, <2>3 DEF WatchInv
<1>2. CASE Strike
  <2>1. PICK victims \in SUBSET Nodes :
          /\ up' = [n \in Nodes |-> up[n] /\ n \notin victims]
          /\ conn' = [n \in Nodes |-> IF n \in victims THEN "none" ELSE conn[n]]
          /\ steady' = steady \ victims
          /\ UNCHANGED <<timer, leading, old, status, age, graceAge, swept>>
    BY <1>2 DEF Strike, registry
  <2>2. ASSUME NEW n \in Nodes PROVE NodeWatched(n)'
    <3>1. CASE n \in victims
      BY <1>0, <2>1, <3>1 DEF NodeWatched, Connected, SteadyOK, GivenUpOK
    <3>2. CASE n \notin victims
      <4>1. up'[n] = up[n] /\ conn'[n] = conn[n] /\ (n \in steady' => n \in steady)
        BY <2>1, <3>2 DEF WatchInv, TypeOK
      <4> QED
        BY <1>0, <2>1, <4>1, SameNode
    <3> QED
      BY <3>1, <3>2
  <2> QED
    BY <2>2 DEF WatchInv, NodeWatched
<1> QED
  BY <1>1, <1>2

(* Changes of the leading supervisor: nobody is connected to a new one, and *)
(* everyone who is up is steady and has the whole time to register.         *)
LEMMA LeaderWatch ==
  ASSUME WatchInv, TypeOK', LeaderChange \/ TakeOver \/ OldStops
  PROVE  WatchInv'
<1>0. /\ TypeOK /\ timer \in [Nodes -> Nat] /\ conn \in [Nodes -> Connections]
      /\ old \in {Never} \cup 0 .. MaxOverlap /\ graceAge \in {Never} \cup 0 .. GraceCap
  BY DEF WatchInv, TypeOK
<1>1. CASE LeaderCrash
  <2>1. /\ UNCHANGED <<up, steady, old>> /\ ~leading' /\ \A n \in Nodes : conn'[n] # "open"
        /\ \A n \in Nodes : conn'[n] = "held" => conn[n] = "held"
    BY <1>1 DEF LeaderCrash
  <2> QED
    BY <2>1 DEF WatchInv, Connected, SteadyOK, GivenUpOK
<1>2. CASE TakeOver \/ HandOver
  <2>1. /\ UNCHANGED <<up, timer>> /\ graceAge' = Never
        /\ \A n \in Nodes : status'[n] = "unknown" /\ age'[n] = Never
        /\ \A n \in steady' : up[n]
    BY <1>2 DEF TakeOver, HandOver, StartsToLead, FreshRegistry
  <2>2. \A n \in Nodes : conn'[n] # "open" /\ (conn'[n] = "held" => old' # Never)
    BY <1>0, <1>2 DEF TakeOver, HandOver, WatchInv, Connected, Never
  <2>3. ASSUME NEW n \in steady', n \in Nodes PROVE -1 + Registers(n)' <= RegisterBound
    <3>1. /\ timer'[n] \in Nat /\ timer'[n] <= Due(n)' + Jitter
          /\ old' \in {Never} \cup 0 .. MaxOverlap
      BY <2>1, <2>3 DEF TypeOK
    <3>2. CASE old' # Never
      BY <3>1, <3>2, GraceFacts, Settings DEF Registers, RegisterBound, Never
    <3>3. CASE old' = Never
      <4>1. BeatsLeft(conn'[n]) \in {0, 1, 2, 3}
        BY DEF BeatsLeft
      <4>2. \/ Registers(n)' = ReconnectDelay + Jitter - timer'[n]
            \/ Registers(n)' = BeatsLeft(conn'[n]) * (Interval + Jitter) - timer'[n] + ReconnectDelay + Jitter
        BY <3>3 DEF Registers, BeatsLeft
      <4> QED
        BY <3>1, <4>1, <4>2, Settings DEF RegisterBound
    <3> QED
      BY <3>2, <3>3
  <2> QED
    BY <2>1, <2>2, <2>3 DEF WatchInv, Connected, SteadyOK, GivenUpOK, RegisterBound, Never
<1>3. CASE OldStops
  <2>1. /\ UNCHANGED <<up, timer, leading, status, age, graceAge, swept, steady>>
        /\ old # Never /\ old' = Never
        /\ \A n \in Nodes : conn'[n] = IF conn[n] = "held" THEN "served" ELSE conn[n]
    BY <1>3 DEF OldStops, registry
  <2>2. ASSUME NEW n \in Nodes PROVE Connected(n)' /\ SteadyOK(n)' /\ GivenUpOK(n)'
    <3>1. Connected(n)' /\ GivenUpOK(n)'
      BY <2>1 DEF WatchInv, Connected, GivenUpOK
    <3>2. SteadyOK(n)'
      <4> SUFFICES ASSUME n \in steady, leading, age[n] = Never
                   PROVE  graceAge + Registers(n)' <= RegisterBound
        BY <2>1 DEF WatchInv, SteadyOK, RegisterBound
      <4>1. /\ graceAge + Registers(n) <= RegisterBound
            /\ Registers(n) = RegisterBound - old /\ timer[n] \in Nat
        BY <1>0, <2>1 DEF WatchInv, SteadyOK, Registers
      <4>2. BeatsLeft(conn'[n]) \in {0, 1, 2, 3}
        BY DEF BeatsLeft
      <4>3. \/ Registers(n)' = ReconnectDelay + Jitter - timer[n]
            \/ Registers(n)' = BeatsLeft(conn'[n]) * (Interval + Jitter) - timer[n] + ReconnectDelay + Jitter
        BY <2>1 DEF Registers, BeatsLeft
      <4>4. Registers(n)' \in Int /\ Registers(n)' <= RegisterBound - MaxOverlap
        BY <4>1, <4>2, <4>3, Settings DEF RegisterBound
      <4>5. graceAge <= old
        BY <1>0, <4>1, GraceFacts DEF Never
      <4> QED
        BY <1>0, <2>1, <4>4, <4>5, Settings, GraceFacts DEF Never
    <3> QED
      BY <3>1, <3>2
  <2> QED
    BY <2>2 DEF WatchInv
<1> QED
  BY <1>1, <1>2, <1>3 DEF LeaderChange

(* The invariant is inductive. *)
LEMMA NextWatch ==
  ASSUME WatchInv, [Next]_vars
  PROVE  WatchInv'
<1>1. TypeOK'
  BY NextType DEF WatchInv
<1>2. CASE UNCHANGED vars
  BY <1>1, <1>2, SameNode DEF vars, registry, WatchInv, NodeWatched
<1> QED
  BY <1>1, <1>2, ClientWatch, SweepWatch, TickWatch, NodeFaultWatch, LeaderWatch DEF Next

(***************************************************************************)
(* The registry never declares a node dead that is connected to the leader *)
(* (check_timeouts), if a late heartbeat is within the timeout, as it is   *)
(* with the shipped settings; and one that has been up since the leader    *)
(* took over only before it has registered, and that takes at most         *)
(* RegisterBound: whatever late heartbeats, crashes, demotions and         *)
(* connections to a leader on its way out come together.                   *)
(***************************************************************************)
THEOREM NoFalseDeaths == Spec => []NoFalseDeath
<1>1. WatchInv => NoFalseDeath
  <2> SUFFICES ASSUME WatchInv, leading, NEW n \in Nodes, status[n] = "dead"
               PROVE  /\ conn[n] # "open"
                      /\ n \in steady => age[n] = Never /\ graceAge <= RegisterBound
    BY DEF NoFalseDeath
  <2>1. conn[n] # "open"
    BY DEF WatchInv, Connected
  <2>2. ASSUME n \in steady PROVE age[n] = Never /\ graceAge <= RegisterBound
    <3>1. up[n] /\ age[n] = Never /\ graceAge + Registers(n) <= RegisterBound
      BY <2>1, <2>2 DEF WatchInv, SteadyOK
    <3>2. Registers(n) \in Int /\ 0 <= Registers(n)
      BY <3>1, RegistersType DEF WatchInv
    <3>3. graceAge \in {Never} \cup 0 .. GraceCap
      BY DEF WatchInv, TypeOK
    <3> QED
      BY <3>1, <3>2, <3>3, GraceFacts DEF Never
  <2> QED
    BY <2>1, <2>2
<1> QED
  BY InitWatch, NextWatch, <1>1, PTL DEF Spec

(***************************************************************************)
(* With a timeout of at least RegisterBound no node that was there all     *)
(* along is ever given up: the overlap of two leaders, three heartbeats, a *)
(* reconnection and their delays are what HEARTBEAT_TIMEOUT has to cover.  *)
(***************************************************************************)
THEOREM LongTimeoutGivesUpNone ==
  ASSUME RegisterBound <= Timeout
  PROVE  Spec => []NoneGivenUp
<1>1. WatchInv => NoneGivenUp
  <2> SUFFICES ASSUME WatchInv, leading, NEW n \in steady, status[n] = "dead" PROVE FALSE
    BY DEF NoneGivenUp
  <2>1. n \in Nodes /\ conn[n] # "open"
    BY DEF WatchInv, TypeOK, Connected
  <2>2. up[n] /\ age[n] = Never /\ graceAge + Registers(n) <= RegisterBound
    BY <2>1 DEF WatchInv, SteadyOK
  <2>3. Registers(n) \in Int /\ 0 <= Registers(n)
    BY <2>1, <2>2, RegistersType DEF WatchInv
  <2>4. graceAge > Timeout /\ graceAge \in {Never} \cup 0 .. GraceCap
    BY <2>1, <2>2 DEF WatchInv, TypeOK, GivenUpOK
  <2> QED
    BY <2>2, <2>3, <2>4, GraceFacts, Settings DEF Never
<1> QED
  BY InitWatch, NextWatch, <1>1, PTL DEF Spec

-----------------------------------------------------------------------------
(* Revival is timely *)

(* Each failed start buys one more round of detection and revival. *)
LEMMA SpentGrows ==
  ASSUME NEW a \in Nat, NEW c \in Nat, NEW r \in Nat
  PROVE  /\ a * r \in Nat /\ (a + 1) * r = a * r + r
         /\ (a + c) * r >= a * r
         /\ c >= 1 => (a + c) * r >= a * r + r
<1>1. (a + c) * r = a * r + c * r /\ c * r \in Nat /\ a * r \in Nat
  OBVIOUS
<1>2. c >= 1 => c * r >= r
  <2> SUFFICES ASSUME c >= 1 PROVE c * r >= r
    OBVIOUS
  <2>1. c * r = (c - 1) * r + r /\ c - 1 \in Nat
    OBVIOUS
  <2>2. (c - 1) * r \in Nat
    BY <2>1
  <2> QED
    BY <2>1, <2>2
<1>3. (a + 1) * r = a * r + r
  OBVIOUS
<1> QED
  BY <1>1, <1>2, <1>3

(* The terms of the invariant are numbers. *)
LEMMA SpentType ==
  ASSUME TypeOK
  PROVE  Spent \in Nat /\ (startFailures + 1) * RecoveryBound = Spent + RecoveryBound
BY BoundFacts, SpentGrows DEF TypeOK, Spent

(* The part of the invariant that is about one node. *)
NodeDown(n) ==
  /\ up[n] => downFor[n] = 0
  /\ leading => Unnoticed(n) /\ InCooldown(n) /\ NextInLine(n)
  /\ downFor[n] <= Spent + RecoveryBound

(* DownInv, one node at a time. *)
LEMMA DownByNode ==
  ASSUME TypeOK
  PROVE  DownInv <=> SweepDone /\ \A n \in Nodes : NodeDown(n)
BY SpentType DEF DownInv, NodeDown, DownIsShort

(* The same for the next state. *)
LEMMA DownNext ==
  ASSUME TypeOK', SweepDone', \A n \in Nodes : NodeDown(n)'
  PROVE  DownInv'
<1>1. startFailures' \in Nat /\ Spent' = startFailures' * RecoveryBound
  BY DEF TypeOK, Spent, RecoveryBound
<1>2. (startFailures' + 1) * RecoveryBound = Spent' + RecoveryBound
  BY <1>1, BoundFacts, SpentGrows
<1>3. DownIsShort'
  BY <1>2 DEF DownIsShort, NodeDown, RecoveryBound
<1> QED
  BY <1>3 DEF DownInv, NodeDown

(* A node whose verdict is st, last heard of ag ticks and last tried att     *)
(* ticks ago, is down no longer than the bound: it is not noticed, in its    *)
(* cooldown, or waiting for the reviver's next sweep.                        *)
LEMMA DownBound ==
  ASSUME NEW spent \in Nat, NEW d \in Nat, NEW rt \in 0 .. ReviveInterval,
         NEW ag \in {Never} \cup 0 .. Timeout + 1,
         NEW att \in {Never} \cup 0 .. Cooldown + 1, NEW st \in {"unknown", "alive", "dead"},
         st = "alive" => ag # Never /\ d <= ag,
         st = "unknown" => d <= Timeout + 1,
         att # Never /\ att <= Cooldown => d <= spent + att,
         st = "dead" /\ (att = Never \/ att > Cooldown)
           => d <= spent + (RecoveryBound - ReviveInterval) + rt
  PROVE  d <= spent + RecoveryBound
<1>1. CASE st # "dead"
  <2>1. d <= Timeout + 1
    BY <1>1, Settings DEF Never
  <2> QED
    BY <2>1, BoundFacts, Settings
<1>2. CASE st = "dead" /\ (att = Never \/ att > Cooldown)
  BY <1>2, BoundFacts, Settings
<1>3. CASE att # Never /\ att <= Cooldown
  BY <1>3, BoundFacts, Settings DEF Never
<1> QED
  BY <1>1, <1>2, <1>3, Settings DEF Never

(* A node that is up has been down for no time at all. *)
LEMMA UpIsFine ==
  ASSUME NEW n \in Nodes, TypeOK', downFor'[n] = 0,
         status'[n] = "alive" => age'[n] # Never, status'[n] = "unknown" => age'[n] = Never
  PROVE  NodeDown(n)'
<1>1. /\ Spent' \in Nat /\ RecoveryBound \in Nat /\ RecoveryBound - ReviveInterval >= 0
      /\ ReviveInterval \in Nat
  <2>1. startFailures' \in Nat /\ Spent' = startFailures' * RecoveryBound
    BY DEF TypeOK, Spent, RecoveryBound
  <2>2. RecoveryBound \in Nat /\ RecoveryBound - ReviveInterval >= 0 /\ ReviveInterval \in Nat
    BY BoundFacts, Settings
  <2>3. startFailures' * RecoveryBound \in Nat
    BY <2>1, <2>2, SpentGrows
  <2> QED
    BY <2>1, <2>2, <2>3
<1>2. /\ age'[n] \in {Never} \cup 0 .. Timeout + 1 /\ reviverTimer' \in 0 .. ReviveInterval
      /\ attempt'[n] \in {Never} \cup 0 .. Cooldown + 1
  BY DEF TypeOK
<1>3. Unnoticed(n)'
  BY <1>2, Settings DEF Unnoticed, Never
<1>4. InCooldown(n)'
  BY <1>1, <1>2, Settings DEF InCooldown, Never
<1>5. NextInLine(n)'
  <2>1. NextInLine(n)' <=>
          (n \in ToRevive' => downFor'[n] <= Spent' + (RecoveryBound - ReviveInterval) + reviverTimer')
    BY DEF NextInLine, RecoveryBound
  <2>2. 0 <= Spent' + (RecoveryBound - ReviveInterval) + reviverTimer'
    <3>1. RecoveryBound - ReviveInterval \in Nat /\ reviverTimer' \in Nat /\ Spent' \in Nat
      BY <1>1, <1>2
    <3> QED
      BY <3>1
  <2> QED
    BY <2>1, <2>2
<1> QED
  BY <1>1, <1>3, <1>4, <1>5 DEF NodeDown, RecoveryBound

(* Nothing is down at the start. *)
LEMMA InitDown == Init => DownInv
<1> SUFFICES ASSUME Init PROVE DownInv
  OBVIOUS
<1>1. TypeOK
  BY InitType
<1>2. /\ \A n \in Nodes : /\ up[n] /\ downFor[n] = 0 /\ status[n] = "unknown"
                           /\ age[n] = Never /\ attempt[n] = Never
      /\ ~swept /\ Spent \in Nat /\ RecoveryBound \in Nat
  BY <1>1, SpentType, BoundFacts DEF Init, FreshRegistry, FreshReviver
<1>3. SweepDone /\ \A n \in Nodes : NodeDown(n)
  <2>1. SweepDone
    BY <1>2 DEF SweepDone
  <2>2. ASSUME NEW n \in Nodes PROVE NodeDown(n)
    <3>1. Unnoticed(n) /\ InCooldown(n)
      BY <1>2, Settings DEF Unnoticed, InCooldown
    <3>2. n \notin ToRevive
      BY <1>2 DEF ToRevive
    <3> QED
      BY <1>2, <3>1, <3>2 DEF NodeDown, NextInLine
  <2> QED
    BY <2>1, <2>2
<1> QED
  BY <1>1, <1>3, DownByNode

(* A message of n comes only while n is up, and takes back no verdict that *)
(* is due.                                                                 *)
LEMMA ClientDown ==
  ASSUME DownInv, TypeOK', NEW n \in Nodes, Connect(n) \/ Beat(n)
  PROVE  DownInv'
<1>0. TypeOK /\ SweepDone /\ \A p \in Nodes : NodeDown(p)
  BY DownByNode DEF DownInv
<1>1. /\ UNCHANGED <<up, leading, graceAge, swept, attempt, reviverTimer, startFailures, downFor>>
      /\ up[n] /\ Spent' = Spent
      /\ \/ UNCHANGED <<age, status>>
         \/ age'[n] = 0 /\ status'[n] = "alive"
      /\ \A p \in Nodes : p # n => age'[p] = age[p] /\ status'[p] = status[p]
  BY <1>0 DEF Connect, Beat, Seen, reviver, counters, TypeOK, Spent
<1>2. SweepDone'
  BY <1>0, <1>1, Settings DEF SweepDone, HeartbeatLost, NeverSeen
<1>3. \A p \in Nodes : p # n => NodeDown(p)'
  BY <1>0, <1>1 DEF NodeDown, Unnoticed, InCooldown, NextInLine, ToRevive
<1>4. NodeDown(n)'
  <2>1. CASE UNCHANGED <<age, status>>
    BY <1>0, <1>1, <2>1 DEF NodeDown, Unnoticed, InCooldown, NextInLine, ToRevive
  <2>2. CASE age'[n] = 0 /\ status'[n] = "alive"
    BY <1>0, <1>1, <2>2, UpIsFine DEF NodeDown, Never
  <2> QED
    BY <1>1, <2>1, <2>2
<1> QED
  BY <1>2, <1>3, <1>4, DownNext

(* A node that the sweep gives up waits for the reviver from then on. *)
LEMMA SweepDown ==
  ASSUME DownInv, TypeOK', CheckTimeouts
  PROVE  DownInv'
<1>0. TypeOK /\ SweepDone /\ \A p \in Nodes : NodeDown(p)
  BY DownByNode DEF DownInv
<1>1. /\ UNCHANGED <<up, leading, age, attempt, reviverTimer, startFailures, downFor>>
      /\ graceAge' = (IF graceAge = Never THEN 0 ELSE graceAge) /\ Spent' = Spent
      /\ \A n \in Nodes : status'[n] = IF HeartbeatLost(n) \/ NeverSeen(n) THEN "dead" ELSE status[n]
  BY DEF CheckTimeouts, reviver, counters, Spent
<1>2. SweepDone'
  BY <1>1, Settings DEF SweepDone, HeartbeatLost, NeverSeen, Never
<1>3. ASSUME NEW n \in Nodes PROVE NodeDown(n)'
  <2> SUFFICES ASSUME leading
               PROVE  Unnoticed(n)' /\ InCooldown(n)' /\ NextInLine(n)'
    BY <1>0, <1>1 DEF NodeDown
  <2>0. /\ Spent \in Nat /\ downFor[n] \in Nat /\ reviverTimer \in 0 .. ReviveInterval
        /\ age[n] \in {Never} \cup 0 .. Timeout + 1
        /\ graceAge \in {Never} \cup 0 .. GraceCap
        /\ attempt[n] \in {Never} \cup 0 .. Cooldown + 1
        /\ status[n] \in {"unknown", "alive", "dead"}
    BY <1>0, SpentType DEF TypeOK
  <2>1. Unnoticed(n) /\ InCooldown(n) /\ NextInLine(n)
    BY <1>0 DEF NodeDown
  <2>2. Unnoticed(n)'
    BY <1>1, <2>0, <2>1 DEF Unnoticed, Never
  <2>3. InCooldown(n)'
    BY <1>1, <2>1 DEF InCooldown
  <2>4. NextInLine(n)'
    <3>1. CASE n \in ToRevive
      BY <1>1, <2>1, <3>1 DEF NextInLine
    <3>2. CASE status[n] # "dead"
      <4>1. downFor[n] <= Timeout + 1
        BY <2>0, <2>1, <3>2, Settings DEF Unnoticed, Never
      <4> QED
        BY <1>1, <2>0, <4>1, BoundFacts, Settings DEF NextInLine
    <3>3. CASE status[n] = "dead" /\ n \notin ToRevive
      BY <1>1, <3>3 DEF NextInLine, ToRevive
    <3> QED
      BY <2>0, <3>1, <3>2, <3>3
  <2> QED
    BY <2>2, <2>3, <2>4
<1> QED
  BY <1>2, <1>3, DownNext

(* The reviver's sweep starts every node in line, or pays for the failure. *)
LEMMA ReviverDown ==
  ASSUME DownInv, TypeOK', ReviverSweep
  PROVE  DownInv'
<1>0. TypeOK /\ SweepDone /\ \A p \in Nodes : NodeDown(p)
  BY DownByNode DEF DownInv
<1>1. PICK failed \in SUBSET ToRevive :
        /\ startFailures' = startFailures + Cardinality(failed)
        /\ LET started == {n \in ToRevive \ failed : ~up[n]} IN
           /\ up' = [n \in Nodes |-> up[n] \/ n \in started]
           /\ downFor' = [n \in Nodes |-> IF n \in started THEN 0 ELSE downFor[n]]
  BY DEF ReviverSweep
<1>2. /\ UNCHANGED <<leading, status, age, graceAge, swept>> /\ reviverTimer' = 0
      /\ \A n \in Nodes : attempt'[n] = IF n \in ToRevive THEN 0 ELSE attempt[n]
  BY DEF ReviverSweep, registry
<1>3. failed \subseteq Nodes /\ IsFiniteSet(failed) /\ Cardinality(failed) \in Nat
      /\ \A n \in failed : Cardinality(failed) >= 1
  <2>1. failed \subseteq Nodes /\ IsFiniteSet(failed)
    BY NodeWatchAssumption, FS_Subset DEF ToRevive
  <2> QED
    BY <2>1, FS_CardinalityType, FS_EmptySet
<1>4. /\ Spent \in Nat /\ Spent' \in Nat /\ Spent' >= Spent
      /\ \A n \in failed : Spent' >= Spent + RecoveryBound
  BY <1>0, <1>1, <1>3, SpentGrows, BoundFacts DEF Spent, TypeOK
<1>5. SweepDone'
  BY <1>0, <1>2 DEF SweepDone, HeartbeatLost, NeverSeen
<1>6. ASSUME NEW n \in Nodes PROVE NodeDown(n)'
  <2>0. /\ downFor[n] \in Nat /\ RecoveryBound \in Nat
        /\ attempt[n] \in {Never} \cup 0 .. Cooldown + 1
    BY <1>0, BoundFacts DEF TypeOK
  <2>1. CASE n \in failed \/ n \notin ToRevive \/ up[n]
    <3>1. up'[n] = up[n] /\ downFor'[n] = downFor[n]
      BY <1>0, <1>1, <2>1 DEF TypeOK
    <3>2. downFor[n] <= Spent + RecoveryBound
      BY <1>0 DEF NodeDown
    <3>3. up[n] => NodeDown(n)'
      <4>1. leading
        BY DEF ReviverSweep
      <4>2. up[n] => downFor'[n] = 0 /\ Unnoticed(n)
        BY <1>0, <3>1, <4>1 DEF NodeDown
      <4> QED
        BY <1>2, <4>2, UpIsFine DEF Unnoticed
    <3>4. ASSUME ~up[n], leading PROVE Unnoticed(n)' /\ InCooldown(n)' /\ NextInLine(n)'
      <4>1. Unnoticed(n)'
        BY <1>0, <1>2, <3>1, <3>4 DEF NodeDown, Unnoticed
      <4>2. InCooldown(n)'
        <5>1. CASE n \in failed
          BY <1>2, <1>4, <2>0, <3>1, <3>2, <5>1 DEF InCooldown
        <5>2. CASE n \notin ToRevive
          BY <1>0, <1>2, <1>4, <2>0, <3>1, <3>4, <5>2, Settings DEF NodeDown, InCooldown, Never
        <5> QED
          BY <2>1, <3>4, <5>1, <5>2
      <4>3. n \notin ToRevive'
        BY <1>2, Settings DEF ToRevive, Never
      <4> QED
        BY <4>1, <4>2, <4>3 DEF NextInLine
    <3> QED
      BY <1>2, <1>4, <2>0, <3>1, <3>2, <3>3, <3>4 DEF NodeDown
  <2>2. CASE n \in ToRevive \ failed /\ ~up[n]
    <3>1. up'[n] /\ downFor'[n] = 0 /\ leading
      BY <1>1, <2>2 DEF ReviverSweep
    <3>2. Unnoticed(n)
      BY <1>0, <3>1 DEF NodeDown
    <3> QED
      BY <1>2, <3>1, <3>2, UpIsFine DEF Unnoticed
  <2> QED
    BY <2>1, <2>2
<1> QED
  BY <1>5, <1>6, DownNext

(* One tick: every clock that bounds the time a node is down moves with it. *)
LEMMA TickDown ==
  ASSUME DownInv, TypeOK', Tick
  PROVE  DownInv'
<1>0. TypeOK /\ SweepDone /\ \A p \in Nodes : NodeDown(p)
  BY DownByNode DEF DownInv
<1>1. /\ UNCHANGED <<up, leading, status, startFailures>> /\ Spent' = Spent /\ swept' = FALSE
      /\ graceAge' = Older(graceAge, GraceCap)
      /\ \A n \in Nodes : /\ age'[n] = Older(age[n], Timeout + 1)
                          /\ attempt'[n] = Older(attempt[n], Cooldown + 1)
                          /\ ~(leading /\ ~up[n]) => downFor'[n] = downFor[n]
      /\ leading => swept /\ reviverTimer < ReviveInterval /\ reviverTimer' = reviverTimer + 1
  BY DEF Tick, counters, Spent
<1>2. SweepDone'
  BY <1>1 DEF SweepDone
<1>3. ASSUME NEW n \in Nodes PROVE NodeDown(n)'
  <2>0. /\ Spent \in Nat /\ downFor[n] \in Nat /\ reviverTimer \in 0 .. ReviveInterval
        /\ age[n] \in {Never} \cup 0 .. Timeout + 1
        /\ graceAge \in {Never} \cup 0 .. GraceCap
        /\ attempt[n] \in {Never} \cup 0 .. Cooldown + 1
        /\ status[n] \in {"unknown", "alive", "dead"}
    BY <1>0, SpentType DEF TypeOK
  <2>1. CASE ~leading
    BY <1>0, <1>1, <2>1 DEF NodeDown
  <2>3. CASE leading /\ up[n]
    <3>1. downFor'[n] = 0 /\ Unnoticed(n)
      BY <1>0, <1>1, <2>3 DEF NodeDown
    <3>2. age'[n] = Never <=> age[n] = Never
      BY <1>1, <2>0, Settings, OlderFacts
    <3> QED
      BY <1>1, <3>1, <3>2, UpIsFine DEF Unnoticed
  <2>2. CASE leading /\ ~up[n]
    <3>1. downFor'[n] \in Nat /\ downFor'[n] <= downFor[n] + 1
      <4>1. (MaxStartFailures + 1) * RecoveryBound + 1 \in Nat
        BY Settings, BoundFacts, SpentGrows
      <4>2. downFor'[n] = Bound(downFor[n] + 1, (MaxStartFailures + 1) * RecoveryBound + 1)
        BY <2>2 DEF Tick
      <4> QED
        BY <2>0, <4>1, <4>2 DEF Bound
    <3>2. Unnoticed(n) /\ InCooldown(n) /\ NextInLine(n)
      BY <1>0, <2>2 DEF NodeDown
    <3>3. graceAge # Never /\ ~HeartbeatLost(n) /\ ~NeverSeen(n)
      BY <1>0, <1>1, <2>2 DEF SweepDone
    <3>4. Unnoticed(n)'
      <4>1. CASE status[n] = "alive"
        <5>1. age[n] # Never /\ age[n] <= Timeout /\ downFor[n] <= age[n]
          BY <2>0, <3>2, <3>3, <4>1, Settings DEF Unnoticed, HeartbeatLost, Never
        <5>2. age'[n] = age[n] + 1 /\ age'[n] # Never
          <6>1. Timeout + 1 \in Nat /\ age[n] < Timeout + 1
            BY <2>0, <5>1, Settings DEF Never
          <6> QED
            BY <1>1, <2>0, <5>1, <6>1, OlderFacts
        <5> QED
          BY <1>1, <2>0, <3>1, <4>1, <5>1, <5>2 DEF Unnoticed, Never
      <4>2. CASE status[n] = "unknown"
        <5>1. age[n] = Never /\ graceAge <= Timeout /\ downFor[n] <= graceAge
          BY <2>0, <3>2, <3>3, <4>2, Settings DEF Unnoticed, NeverSeen, Never
        <5>2. graceAge' = graceAge + 1 /\ age'[n] = Never
          <6>1. Timeout + 1 \in Nat /\ GraceCap \in Nat /\ graceAge < GraceCap
            BY <2>0, <3>3, <5>1, Settings, GraceFacts DEF Never
          <6>2. age'[n] = Never
            BY <1>1, <2>0, <5>1, <6>1, OlderFacts
          <6> QED
            BY <1>1, <2>0, <3>3, <6>1, <6>2, OlderFacts
        <5>3. downFor'[n] <= graceAge' /\ downFor'[n] <= Timeout + 1
          BY <2>0, <3>1, <3>3, <5>1, <5>2, Settings DEF Never
        <5> QED
          BY <1>1, <4>2, <5>2, <5>3 DEF Unnoticed
      <4>3. CASE status[n] = "dead"
        BY <1>1, <4>3 DEF Unnoticed
      <4> QED
        BY <2>0, <4>1, <4>2, <4>3
    <3>5. /\ attempt'[n] \in {Never} \cup 0 .. Cooldown + 1
          /\ attempt'[n] = Never <=> attempt[n] = Never
          /\ attempt[n] # Never /\ attempt[n] <= Cooldown => attempt'[n] = attempt[n] + 1
          /\ attempt[n] = Cooldown + 1 => attempt'[n] = Cooldown + 1
      <4>1. Cooldown + 1 \in Nat
        BY Settings
      <4>2. /\ attempt'[n] \in {Never} \cup 0 .. Cooldown + 1
            /\ attempt'[n] = Never <=> attempt[n] = Never
            /\ attempt[n] # Never /\ attempt[n] < Cooldown + 1 => attempt'[n] = attempt[n] + 1
            /\ attempt[n] = Cooldown + 1 => attempt'[n] = Cooldown + 1
        BY <1>1, <2>0, <4>1, OlderFacts
      <4>3. attempt[n] # Never /\ attempt[n] <= Cooldown => attempt[n] < Cooldown + 1
        BY <2>0, Settings DEF Never
      <4> QED
        BY <4>2, <4>3
    <3>6. InCooldown(n)'
      BY <1>1, <2>0, <3>1, <3>2, <3>5, Settings DEF InCooldown, Never
    <3>7. NextInLine(n)'
      <4>1. CASE n \in ToRevive
        BY <1>1, <2>0, <2>2, <3>1, <3>2, <4>1, BoundFacts, Settings DEF NextInLine
      <4>2. CASE n \notin ToRevive
        <5> SUFFICES ASSUME n \in ToRevive' PROVE NextInLine(n)'
          BY DEF NextInLine
        <5>1. attempt[n] # Never /\ attempt[n] <= Cooldown
          BY <1>1, <2>0, <3>5, <4>2, Settings DEF ToRevive, Never
        <5>2. downFor[n] <= Spent + Cooldown
          BY <2>0, <3>2, <5>1, Settings DEF InCooldown, Never
        <5> QED
          BY <1>1, <2>0, <2>2, <3>1, <5>2, BoundFacts, Settings DEF NextInLine
      <4> QED
        BY <4>1, <4>2
    <3>8. downFor'[n] <= Spent' + RecoveryBound
      <4>1. /\ Spent' \in Nat /\ downFor'[n] \in Nat /\ reviverTimer' \in 0 .. ReviveInterval
            /\ age'[n] \in {Never} \cup 0 .. Timeout + 1
            /\ attempt'[n] \in {Never} \cup 0 .. Cooldown + 1
            /\ status'[n] \in {"unknown", "alive", "dead"}
        BY <1>1, <2>0 DEF TypeOK
      <4>2. /\ status'[n] = "alive" => age'[n] # Never /\ downFor'[n] <= age'[n]
            /\ status'[n] = "unknown" => downFor'[n] <= Timeout + 1
        BY <3>4 DEF Unnoticed
      <4>3. attempt'[n] # Never /\ attempt'[n] <= Cooldown => downFor'[n] <= Spent' + attempt'[n]
        BY <3>6 DEF InCooldown
      <4>4. status'[n] = "dead" /\ (attempt'[n] = Never \/ attempt'[n] > Cooldown)
              => downFor'[n] <= Spent' + (RecoveryBound - ReviveInterval) + reviverTimer'
        BY <3>7 DEF NextInLine, ToRevive, RecoveryBound
      <4> QED
        BY <4>1, <4>2, <4>3, <4>4, DownBound
    <3> QED
      BY <1>1, <2>2, <3>4, <3>6, <3>7, <3>8 DEF NodeDown, RecoveryBound
  <2> QED
    BY <2>1, <2>2, <2>3
<1> QED
  BY <1>2, <1>3, DownNext

(* Leader changes forget the past of every node, strikes start a new one. *)
LEMMA FaultDown ==
  ASSUME DownInv, TypeOK', LeaderChange \/ TakeOver \/ OldStops \/ Strike
  PROVE  DownInv'
<1>0. TypeOK /\ SweepDone /\ \A p \in Nodes : NodeDown(p)
  BY DownByNode DEF DownInv
<1>1. CASE LeaderCrash
  <2>1. UNCHANGED <<up, downFor, startFailures>> /\ ~leading' /\ Spent' = Spent
    BY <1>1 DEF LeaderCrash, Spent
  <2> QED
    BY <1>0, <2>1, DownNext DEF SweepDone, NodeDown
<1>2. CASE TakeOver \/ HandOver
  <2>1. /\ \A n \in Nodes : downFor'[n] = 0 /\ status'[n] = "unknown" /\ age'[n] = Never
        /\ ~swept'
    BY <1>2 DEF TakeOver, HandOver, StartsToLead, FreshRegistry
  <2>2. \A n \in Nodes : NodeDown(n)'
    BY <2>1, UpIsFine
  <2> QED
    BY <2>1, <2>2, DownNext DEF SweepDone
<1>3. CASE Strike \/ OldStops
  <2>1. /\ UNCHANGED <<leading, status, age, graceAge, swept, attempt, reviverTimer,
                       startFailures, downFor>>
        /\ Spent' = Spent
        /\ \A n \in Nodes : up'[n] => up[n]
    BY <1>3 DEF Strike, OldStops, registry, reviver, counters, Spent
  <2>2. SweepDone'
    BY <1>0, <2>1 DEF SweepDone, HeartbeatLost, NeverSeen
  <2>3. \A n \in Nodes : NodeDown(n)'
    BY <1>0, <2>1 DEF NodeDown, Unnoticed, InCooldown, NextInLine, ToRevive
  <2> QED
    BY <2>2, <2>3, DownNext
<1> QED
  BY <1>1, <1>2, <1>3 DEF LeaderChange

(* A node that a demoted leader starts is not down any more. *)
LEMMA OldRevivesDown ==
  ASSUME DownInv, TypeOK', NEW n \in Nodes, OldRevives(n)
  PROVE  DownInv'
<1>0. TypeOK /\ SweepDone /\ \A p \in Nodes : NodeDown(p)
  BY DownByNode DEF DownInv
<1>1. /\ UNCHANGED <<leading, status, age, graceAge, swept, attempt, reviverTimer, startFailures>>
      /\ Spent' = Spent /\ downFor'[n] = 0
      /\ \A p \in Nodes : p # n => up'[p] = up[p] /\ downFor'[p] = downFor[p]
  BY <1>0 DEF OldRevives, registry, reviver, counters, Spent, TypeOK
<1>2. SweepDone'
  BY <1>0, <1>1 DEF SweepDone, HeartbeatLost, NeverSeen
<1>3. \A p \in Nodes : p # n => NodeDown(p)'
  BY <1>0, <1>1 DEF NodeDown, Unnoticed, InCooldown, NextInLine, ToRevive
<1>4. NodeDown(n)'
  <2>1. CASE leading
    <3>1. Unnoticed(n)
      BY <1>0, <2>1 DEF NodeDown
    <3> QED
      BY <1>1, <3>1, UpIsFine DEF Unnoticed
  <2>2. CASE ~leading
    <3>1. Spent \in Nat /\ RecoveryBound \in Nat
      BY <1>0, SpentType, BoundFacts
    <3> QED
      BY <1>1, <2>2, <3>1 DEF NodeDown, RecoveryBound
  <2> QED
    BY <2>1, <2>2
<1> QED
  BY <1>2, <1>3, <1>4, DownNext

(* The invariant is inductive. *)
LEMMA NextDown ==
  ASSUME DownInv, [Next]_vars
  PROVE  DownInv'
<1>1. TypeOK'
  BY NextType DEF DownInv
<1>2. CASE UNCHANGED vars
  BY <1>1, <1>2
     DEF vars, registry, reviver, counters, DownInv, SweepDone, HeartbeatLost, NeverSeen,
         Unnoticed, InCooldown, NextInLine, ToRevive, Spent, DownIsShort
<1> QED
  BY <1>1, <1>2, ClientDown, SweepDown, ReviverDown, TickDown, FaultDown, OldRevivesDown DEF Next

(***************************************************************************)
(* A node is not left down longer than one timeout or cooldown and one     *)
(* round of the reviver for each start that failed, whichever verdict the  *)
(* registry had on it and however recently it was revived before           *)
(* (check_timeouts, Reviver.sweep).                                        *)
(***************************************************************************)
THEOREM RevivalIsTimely == Spec => []DownIsShort
<1>1. DownInv => DownIsShort
  BY DEF DownInv
<1> QED
  BY InitDown, NextDown, <1>1, PTL DEF Spec
=============================================================================
