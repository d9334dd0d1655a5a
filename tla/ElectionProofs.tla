--------------------------- MODULE ElectionProofs ---------------------------
(***************************************************************************)
(* Proofs about the supervisors' election, for any number of supervisors,  *)
(* kills and late exceptions, and for event queues of any length.          *)
(***************************************************************************)
EXTENDS Election, TLAPS

(* What can wait in an event queue. *)
Messages == {LeaderDown, Election, Cut} \cup {Claim(i) : i \in Supervisors}

(* The inductive invariant: only well-formed messages are queued, the      *)
(* fields are typed, and a supervisor follows what it names.               *)
ElectionInv ==
  /\ events \in [Supervisors -> Seq(Messages)]
  /\ TypeOK
  /\ FollowsWhatItNames

(* A message of type "leader" carries the index of a supervisor. *)
LEMMA ClaimFacts ==
  /\ \A i \in Supervisors : Claim(i) \in Messages
  /\ LeaderDown \in Messages /\ Election \in Messages /\ Cut \in Messages
  /\ \A m \in Messages : m.type = "leader" => m.idx \in Supervisors
<1>1. LeaderDown.type # "leader" /\ Election.type # "leader" /\ Cut.type # "leader"
  BY DEF LeaderDown, Election, Cut
<1>2. \A i : Claim(i).idx = i
  BY DEF Claim
<1> QED
  BY <1>1, <1>2 DEF Messages

(* Sending keeps the queues typed (_broadcast_message, the event queue). *)
LEMMA SendType ==
  ASSUME NEW evs \in [Supervisors -> Seq(Messages)], NEW e \in Messages, NEW peers
  PROVE  Broadcast(evs, e, peers) \in [Supervisors -> Seq(Messages)]
<1>1. ASSUME NEW s \in Supervisors PROVE Enqueue(evs[s], e) \in Seq(Messages)
  <2>1. evs[s] \in Seq(Messages) /\ Append(evs[s], e) \in Seq(Messages)
    OBVIOUS
  <2> QED
    BY <2>1 DEF Enqueue
<1> QED
  BY <1>1 DEF Broadcast

(* So does taking the first event. *)
LEMMA PopType ==
  ASSUME ElectionInv, NEW s \in Supervisors, events[s] # <<>>
  PROVE  /\ Pop(s) \in [Supervisors -> Seq(Messages)]
         /\ Head(events[s]) \in Messages /\ Tail(events[s]) \in Seq(Messages)
<1>1. events[s] \in Seq(Messages)
  BY DEF ElectionInv
<1>2. Head(events[s]) \in Messages /\ Tail(events[s]) \in Seq(Messages)
  BY <1>1
<1> QED
  BY <1>2 DEF Pop, ElectionInv

(* A message is only sent to a supervisor that is up: the queue of one that *)
(* is down stays empty.                                                    *)
LEMMA DownStaysEmpty ==
  ASSUME ElectionInv, NEW s \in Supervisors, up[s], NEW e, NEW peers, NEW evs,
         evs = events \/ evs = Pop(s)
  PROVE  \A p \in Supervisors : ~up[p] => Broadcast(evs, e, peers)[p] = <<>>
<1>1. \A p \in Supervisors : ~up[p] => evs[p] = <<>>
  BY DEF ElectionInv, TypeOK, Pop
<1> QED
  BY <1>1 DEF Broadcast

(* _change_runtime keeps the types, whatever the runtime becomes. *)
LEMMA ChangeRuntimeType ==
  ASSUME TypeOK, NEW s \in Supervisors, NEW kind \in {"leader", "replica"},
         NEW l \in Supervisors \cup {None}, ChangeRuntime(s, kind, l)
  PROVE  /\ runtime' \in [Supervisors -> {"none", "leader", "replica"}]
         /\ at' \in [Supervisors -> Places]
         /\ harm' \subseteq {"cut off", "deaf", "stuck"}
         /\ link' \in [Supervisors -> {"new", "up", "broken"}]
         /\ target' \in [Supervisors -> Supervisors \cup {None}]
         /\ runtime'[s] = kind /\ target'[s] = l
         /\ \A p \in Supervisors : p # s => runtime'[p] = runtime[p] /\ target'[p] = target[p]
<1>1. Stopped(s) \in Places
  BY DEF TypeOK, Stopped, Places
<1>2. at' \in [Supervisors -> Places] /\ harm' \subseteq {"cut off", "deaf", "stuck"}
  BY <1>1 DEF TypeOK, ChangeRuntime
<1> QED
  BY <1>2 DEF TypeOK, ChangeRuntime

(* Every supervisor boots well typed and names no leader. *)
LEMMA InitElection == Init => ElectionInv
<1> SUFFICES ASSUME Init PROVE ElectionInv
  OBVIOUS
<1>1. <<LeaderDown>> \in Seq(Messages)
  BY ClaimFacts
<1>2. events \in [Supervisors -> Seq(Messages)]
  BY <1>1 DEF Init, Boot
<1>3. TypeOK
  BY ElectionAssumption DEF Init, Boot, TypeOK, Places
<1>4. FollowsWhatItNames
  BY DEF Init, Boot, FollowsWhatItNames
<1> QED
  BY <1>2, <1>3, <1>4 DEF ElectionInv

(* The runtime worker and the announce worker leave the named leader, the  *)
(* runtime's target and the event worker's place alone.                    *)
LEMMA QuietStep ==
  ASSUME ElectionInv, UNCHANGED <<leader, runtime, target, pc>>,
         events' \in [Supervisors -> Seq(Messages)],
         up' \in [Supervisors -> BOOLEAN], kills' = kills, raises' \in 0 .. MaxRaises,
         link' \in [Supervisors -> {"new", "up", "broken"}],
         at' \in [Supervisors -> Places],
         starter' \in [Supervisors -> Supervisors \cup {None}],
         harm' \subseteq {"cut off", "deaf", "stuck"},
         \A p \in Supervisors : ~up'[p] => ~up[p] /\ events'[p] = <<>>
  PROVE  ElectionInv'
<1>1. TypeOK'
  BY DEF ElectionInv, TypeOK
<1>2. FollowsWhatItNames'
  BY DEF ElectionInv, FollowsWhatItNames
<1> QED
  BY <1>1, <1>2 DEF ElectionInv

(* The event worker, on the loss of the leader, up to _promote. *)
LEMMA LeaderDownKeeps ==
  ASSUME ElectionInv, NEW s \in Supervisors, HandleLeaderDown(s)
  PROVE  ElectionInv'
<1>1. /\ Pop(s) \in [Supervisors -> Seq(Messages)] /\ up[s] /\ pc[s] = "idle"
      /\ UNCHANGED <<up, kills, raises, starter, runtime, at, harm, link, target>>
  BY PopType DEF HandleLeaderDown, Handles, SameRuntime
<1>2. /\ events' \in [Supervisors -> Seq(Messages)]
      /\ \A p \in Supervisors : ~up'[p] => events'[p] = <<>>
  BY <1>1, ClaimFacts, SendType, DownStaysEmpty DEF HandleLeaderDown
<1>3. CASE UNCHANGED <<leader, pc>>
  BY <1>1, <1>2, <1>3, QuietStep DEF ElectionInv, TypeOK
<1>4. CASE leader' = [leader EXCEPT ![s] = None] /\ UNCHANGED pc
  BY <1>1, <1>2, <1>4 DEF ElectionInv, TypeOK, FollowsWhatItNames
<1>5. CASE pc' = [pc EXCEPT ![s] = "promote"] /\ UNCHANGED leader
  BY <1>1, <1>2, <1>5 DEF ElectionInv, TypeOK, FollowsWhatItNames
<1> QED
  BY <1>3, <1>4, <1>5 DEF HandleLeaderDown

(* _promote, and the write of _leader after it. *)
LEMMA PromoteKeeps ==
  ASSUME ElectionInv, NEW s \in Supervisors, Promote(s) \/ ClearLeader(s)
  PROVE  ElectionInv'
<1>1. CASE Promote(s)
  <2>1. /\ ChangeRuntime(s, "leader", None) /\ TypeOK /\ up[s] /\ pc' = [pc EXCEPT ![s] = "clear"]
        /\ UNCHANGED <<up, events, leader, starter, kills, raises>>
    BY <1>1 DEF Promote, ElectionInv
  <2>2. /\ runtime' \in [Supervisors -> {"none", "leader", "replica"}]
        /\ at' \in [Supervisors -> Places]
        /\ harm' \subseteq {"cut off", "deaf", "stuck"}
        /\ link' \in [Supervisors -> {"new", "up", "broken"}]
        /\ target' \in [Supervisors -> Supervisors \cup {None}]
        /\ runtime'[s] = "leader" /\ target'[s] = None
        /\ \A p \in Supervisors : p # s => runtime'[p] = runtime[p] /\ target'[p] = target[p]
    BY <2>1, ChangeRuntimeType
  <2>3. TypeOK'
    BY <2>1, <2>2 DEF TypeOK
  <2>4. FollowsWhatItNames'
    <3>1. pc'[s] = "clear" /\ leader'[s] = leader[s]
      BY <2>1 DEF TypeOK
    <3>2. \A p \in Supervisors : p # s =>
            /\ pc'[p] = pc[p] /\ leader'[p] = leader[p]
            /\ runtime'[p] = runtime[p] /\ target'[p] = target[p]
      BY <2>1, <2>2 DEF TypeOK
    <3> QED
      BY <2>2, <3>1, <3>2 DEF ElectionInv, FollowsWhatItNames
  <2> QED
    BY <2>1, <2>3, <2>4 DEF ElectionInv
<1>2. CASE ClearLeader(s)
  <2>1. /\ leader' = [leader EXCEPT ![s] = None] /\ pc' = [pc EXCEPT ![s] = "idle"]
        /\ UNCHANGED <<up, events, starter, kills, raises, runtime, at, harm, link, target>>
    BY <1>2 DEF ClearLeader, SameRuntime
  <2>2. TypeOK'
    BY <2>1 DEF ElectionInv, TypeOK
  <2>3. FollowsWhatItNames'
    BY <2>1 DEF ElectionInv, TypeOK, FollowsWhatItNames
  <2> QED
    BY <2>1, <2>2, <2>3 DEF ElectionInv
<1> QED
  BY <1>1, <1>2

(* The event worker, on the claim of another supervisor, up to _downgrade. *)
LEMMA NewLeaderKeeps ==
  ASSUME ElectionInv, NEW s \in Supervisors, HandleNewLeader(s)
  PROVE  ElectionInv'
<1> DEFINE claim == Head(events[s]).idx
<1>1. /\ Pop(s) \in [Supervisors -> Seq(Messages)] /\ up[s] /\ claim \in Supervisors
      /\ pc[s] = "idle"
      /\ UNCHANGED <<up, kills, raises, starter, runtime, at, harm, link, target>>
  BY PopType, ClaimFacts DEF HandleNewLeader, Handles, SameRuntime
<1>2. /\ events' \in [Supervisors -> Seq(Messages)]
      /\ \A p \in Supervisors : ~up'[p] => events'[p] = <<>>
  <2>1. events' = Pop(s) \/ events' = Broadcast(Pop(s), Claim(s), Peers(s))
    BY DEF HandleNewLeader
  <2>2. \A p \in Supervisors : ~up[p] => Pop(s)[p] = <<>>
    BY <1>1 DEF Pop, ElectionInv, TypeOK
  <2> QED
    BY <1>1, <2>1, <2>2, ClaimFacts, SendType, DownStaysEmpty
<1>3. CASE UNCHANGED <<leader, pc>>
  BY <1>1, <1>2, <1>3, QuietStep DEF ElectionInv, TypeOK
<1>4. CASE claim > s /\ leader' = [leader EXCEPT ![s] = claim] /\ pc' = [pc EXCEPT ![s] = "downgrade"]
  <2>1. claim # None
    BY <1>1 DEF Supervisors, None
  <2> HIDE DEF claim
  <2>2. TypeOK'
    BY <1>1, <1>2, <1>4 DEF ElectionInv, TypeOK
  <2>3. FollowsWhatItNames'
    BY <1>1, <1>4, <2>1 DEF ElectionInv, TypeOK, FollowsWhatItNames
  <2> QED
    BY <1>2, <2>2, <2>3 DEF ElectionInv
<1> QED
  BY <1>3, <1>4 DEF HandleNewLeader

(* _downgrade *)
LEMMA DowngradeKeeps ==
  ASSUME ElectionInv, NEW s \in Supervisors, Downgrade(s)
  PROVE  ElectionInv'
<1>1. /\ ChangeRuntime(s, "replica", leader[s]) /\ TypeOK /\ up[s]
      /\ leader[s] \in Supervisors \cup {None} /\ leader[s] # None /\ leader[s] > s
      /\ pc' = [pc EXCEPT ![s] = "idle"]
      /\ UNCHANGED <<up, events, leader, starter, kills, raises>>
  BY DEF Downgrade, ElectionInv, TypeOK, FollowsWhatItNames
<1>2. /\ runtime' \in [Supervisors -> {"none", "leader", "replica"}]
      /\ at' \in [Supervisors -> Places]
      /\ harm' \subseteq {"cut off", "deaf", "stuck"}
      /\ link' \in [Supervisors -> {"new", "up", "broken"}]
      /\ target' \in [Supervisors -> Supervisors \cup {None}]
      /\ runtime'[s] = "replica" /\ target'[s] = leader[s]
      /\ \A p \in Supervisors : p # s => runtime'[p] = runtime[p] /\ target'[p] = target[p]
  BY <1>1, ChangeRuntimeType
<1>3. TypeOK'
  BY <1>1, <1>2 DEF TypeOK
<1>4. FollowsWhatItNames'
  <2>1. pc'[s] = "idle" /\ leader'[s] = leader[s]
    BY <1>1 DEF TypeOK
  <2>2. \A p \in Supervisors : p # s =>
          /\ pc'[p] = pc[p] /\ leader'[p] = leader[p]
          /\ runtime'[p] = runtime[p] /\ target'[p] = target[p]
    <3>1. pc \in [Supervisors -> {"idle", "promote", "clear", "downgrade", "dead"}]
      BY <1>1 DEF TypeOK
    <3> QED
      BY <1>1, <1>2, <3>1
  <2>3. FollowsWhatItNames /\ leader[s] # None /\ leader[s] > s
    BY <1>1 DEF ElectionInv
  <2>4. runtime'[s] = "replica" /\ target'[s] = leader[s]
    BY <1>2
  <2> QED
    BY <2>1, <2>2, <2>3, <2>4 DEF FollowsWhatItNames
<1> QED
  BY <1>1, <1>3, <1>4 DEF ElectionInv

(* A connection that is cut ends the event worker where it is. *)
LEMMA CutKeeps ==
  ASSUME ElectionInv, NEW s \in Supervisors, HandleCut(s)
  PROVE  ElectionInv'
<1>1. /\ pc[s] = "idle" /\ pc' = [pc EXCEPT ![s] = "dead"]
      /\ events' = [events EXCEPT ![s] = <<>>] /\ harm' = harm \cup {"deaf"}
      /\ UNCHANGED <<up, leader, runtime, target, at, link, starter, kills, raises>>
  BY DEF HandleCut, Handles
<1>2. TypeOK'
  BY <1>1 DEF ElectionInv, TypeOK
<1>3. FollowsWhatItNames'
  BY <1>1 DEF ElectionInv, TypeOK, FollowsWhatItNames
<1>4. events' \in [Supervisors -> Seq(Messages)]
  BY <1>1 DEF ElectionInv
<1> QED
  BY <1>2, <1>3, <1>4 DEF ElectionInv

(* A killed supervisor forgets whom it followed; what it was sending       *)
(* reaches only supervisors that are up.                                   *)
LEMMA DiesKeeps ==
  ASSUME ElectionInv, NEW s \in Supervisors, NEW evs \in [Supervisors -> Seq(Messages)],
         \A p \in Supervisors : ~up[p] => evs[p] = <<>>, Dies(s, evs)
  PROVE  ElectionInv'
<1>1. kills' \in 0 .. MaxKills /\ raises' = raises
  <2>1. kills < MaxKills /\ kills' = kills + 1 /\ raises' = raises
    BY DEF Dies
  <2>2. kills \in 0 .. MaxKills /\ MaxKills \in Nat
    BY ElectionAssumption DEF ElectionInv, TypeOK
  <2> QED
    BY <2>1, <2>2
<1>2. /\ leader' = [leader EXCEPT ![s] = None] /\ runtime' = [runtime EXCEPT ![s] = "none"]
      /\ target' = [target EXCEPT ![s] = None] /\ up' = [up EXCEPT ![s] = FALSE]
      /\ events' = [evs EXCEPT ![s] = <<>>] /\ pc' = [pc EXCEPT ![s] = "idle"]
      /\ at' = [at EXCEPT ![s] = "waiting"]
  BY DEF Dies, Boot
<1>3. /\ link' \in [Supervisors -> {"new", "up", "broken"}]
      /\ starter' \in [Supervisors -> Supervisors \cup {None}]
      /\ harm' \subseteq {"cut off", "deaf", "stuck"}
  BY DEF Dies, ElectionInv, TypeOK
<1>4. events' \in [Supervisors -> Seq(Messages)]
  BY <1>2
<1>5. TypeOK'
  BY <1>1, <1>2, <1>3 DEF ElectionInv, TypeOK, Places
<1>6. FollowsWhatItNames'
  BY <1>2 DEF ElectionInv, TypeOK, FollowsWhatItNames
<1> QED
  BY <1>4, <1>5, <1>6 DEF ElectionInv

(* A kill, also in the middle of a send, keeps the invariant. *)
LEMMA KillKeeps ==
  ASSUME ElectionInv, NEW s \in Supervisors, Kill(s) \/ KillMidSend(s)
  PROVE  ElectionInv'
<1>0. /\ events \in [Supervisors -> Seq(Messages)]
      /\ \A p \in Supervisors : ~up[p] => events[p] = <<>>
  BY DEF ElectionInv, TypeOK
<1>1. CASE Kill(s)
  BY <1>0, <1>1, DiesKeeps DEF Kill
<1>2. CASE KillMidSend(s)
  <2>1. PICK m \in {Claim(s), Election}, peers \in {Peers(s), Greater(s)} : \E p \in peers :
          /\ up[p]
          /\ Dies(s, [Broadcast(events, m, {q \in peers : q < p}) EXCEPT ![p] = Append(@, Cut)])
    BY <1>2 DEF KillMidSend
  <2>2. PICK p \in peers :
          /\ up[p]
          /\ Dies(s, [Broadcast(events, m, {q \in peers : q < p}) EXCEPT ![p] = Append(@, Cut)])
    BY <2>1
  <2> DEFINE sent == Broadcast(events, m, {q \in peers : q < p})
             evs == [sent EXCEPT ![p] = Append(@, Cut)]
  <2>3. p \in Supervisors /\ m \in Messages /\ up[s]
    BY <2>2, ClaimFacts DEF Peers, Greater, Dies
  <2>4. sent \in [Supervisors -> Seq(Messages)]
    BY <1>0, <2>3, SendType
  <2>5. \A q \in Supervisors : ~up[q] => sent[q] = <<>>
    BY <2>3, DownStaysEmpty
  <2>6. Dies(s, evs)
    BY <2>2
  <2> HIDE DEF sent
  <2>7. evs \in [Supervisors -> Seq(Messages)]
    <3>1. Append(sent[p], Cut) \in Seq(Messages)
      BY <2>3, <2>4, ClaimFacts
    <3> QED
      BY <2>4, <3>1
  <2>8. \A q \in Supervisors : ~up[q] => evs[q] = <<>>
    BY <2>2, <2>4, <2>5
  <2> HIDE DEF evs
  <2> QED
    BY <2>6, <2>7, <2>8, DiesKeeps
<1> QED
  BY <1>1, <1>2

(* Every step of every thread keeps the invariant. *)
LEMMA NextElection ==
  ASSUME ElectionInv, [Next]_vars
  PROVE  ElectionInv'
<1> USE DEF SameRuntime
<1>0. /\ events \in [Supervisors -> Seq(Messages)] /\ TypeOK
      /\ \A s \in Supervisors : Append(events[s], LeaderDown) \in Seq(Messages)
  BY ClaimFacts DEF ElectionInv
<1>1. ASSUME NEW s \in Supervisors, HandleElection(s) PROVE ElectionInv'
  <2>1. Append(Tail(events[s]), LeaderDown) \in Seq(Messages)
    BY <1>1, PopType, ClaimFacts DEF HandleElection, Handles
  <2> QED
    BY <1>0, <1>1, <2>1, QuietStep DEF HandleElection, Handles, TypeOK
<1>2. ASSUME NEW s \in Supervisors, Announce(s) PROVE ElectionInv'
  <2>1. events' = Broadcast(events, Claim(s), Peers(s)) /\ up[s]
        /\ UNCHANGED <<up, pc, leader, starter, kills, raises, runtime, at, harm, link, target>>
    BY <1>2 DEF Announce
  <2>2. events' \in [Supervisors -> Seq(Messages)]
    BY <1>0, <2>1, ClaimFacts, SendType
  <2>3. \A p \in Supervisors : ~up[p] => events'[p] = <<>>
    BY <2>1, DownStaysEmpty
  <2> QED
    BY <1>0, <2>1, <2>2, <2>3, QuietStep DEF TypeOK
<1>3. ASSUME NEW s \in Supervisors, RuntimeWorker(s) PROVE ElectionInv'
  <2>1. CASE PickRuntime(s) \/ StartRuntime(s) \/ ReplicaConnects(s)
    <3>1. UNCHANGED <<up, events, pc, leader, runtime, target, starter, kills, raises, harm>>
      BY <2>1 DEF PickRuntime, StartRuntime, ReplicaConnects
    <3>2. /\ link' \in [Supervisors -> {"new", "up", "broken"}]
          /\ at' \in [Supervisors -> Places]
      BY <1>0, <2>1 DEF PickRuntime, StartRuntime, ReplicaConnects, TypeOK, Places
    <3> QED
      BY <1>0, <3>1, <3>2, QuietStep DEF TypeOK
  <2>2. CASE OldRuntimeRaises(s)
    <3>1. raises' \in 0 .. MaxRaises /\ at' \in [Supervisors -> Places]
      <4>1. /\ raises < MaxRaises /\ raises' = raises + 1
            /\ at' = [at EXCEPT ![s] = "waiting"]
        BY <2>2 DEF OldRuntimeRaises
      <4>2. raises \in 0 .. MaxRaises /\ MaxRaises \in Nat /\ at \in [Supervisors -> Places]
        BY <1>0, ElectionAssumption DEF TypeOK
      <4>3. raises' \in 0 .. MaxRaises
        BY <4>1, <4>2
      <4> QED
        BY <4>1, <4>2, <4>3 DEF Places
    <3>2. events' \in [Supervisors -> Seq(Messages)]
      BY <1>0, <2>2 DEF OldRuntimeRaises
    <3> QED
      BY <1>0, <2>2, <3>1, <3>2, QuietStep DEF OldRuntimeRaises, TypeOK
  <2>3. CASE ReplicaLosesLeader(s)
    <3>1. /\ at' \in [Supervisors -> Places]
          /\ events' \in [Supervisors -> Seq(Messages)]
      BY <1>0, <2>3 DEF ReplicaLosesLeader, TypeOK, Places
    <3> QED
      BY <1>0, <2>3, <3>1, QuietStep DEF ReplicaLosesLeader, Replica, TypeOK
  <2> QED
    BY <1>3, <2>1, <2>2, <2>3 DEF RuntimeWorker
<1>4. ASSUME NEW s \in Supervisors, Revive(s) PROVE ElectionInv'
  <2>1. Boot.events \in Seq(Messages)
    BY ClaimFacts DEF Boot
  <2> QED
    BY <1>0, <1>4, <2>1, QuietStep DEF Revive, TypeOK
<1>5. CASE UNCHANGED vars
  BY <1>5 DEF vars, ElectionInv, TypeOK, FollowsWhatItNames
<1> QED
  BY <1>1, <1>2, <1>3, <1>4, <1>5, LeaderDownKeeps, PromoteKeeps, NewLeaderKeeps,
     DowngradeKeeps, CutKeeps, KillKeeps DEF Next, EventWorker

(***************************************************************************)
(* Every field keeps its type, and a supervisor that is down has no event, *)
(* whoever sends to it and whenever it dies, in the middle of a send too    *)
(* (_broadcast_message).                                                   *)
(***************************************************************************)
THEOREM ElectionTyped == Spec => []TypeOK
<1>1. ElectionInv => TypeOK
  BY DEF ElectionInv
<1> QED
  BY InitElection, NextElection, <1>1, PTL DEF Spec

(***************************************************************************)
(* The fields that the event worker and the runtime worker share agree     *)
(* whenever the event worker is not between its two writes of them: a      *)
(* supervisor that names a leader pings that leader and no other.  In      *)
(* between it names the leader it is about to ping, or has the leader's    *)
(* runtime already; and it never names or pings itself or a lower id       *)
(* (_handle_new_leader, _handle_leader_down, _change_runtime).             *)
(***************************************************************************)
THEOREM FollowsNamed == Spec => []FollowsWhatItNames
<1>1. ElectionInv => FollowsWhatItNames
  BY DEF ElectionInv
<1> QED
  BY InitElection, NextElection, <1>1, PTL DEF Spec

(***************************************************************************)
(* The greatest supervisor is never a replica: whatever claims and late    *)
(* exceptions reach it, there is always one that nobody can talk out of    *)
(* leading (_handle_new_leader never follows an equal or lower id).        *)
(***************************************************************************)
THEOREM GreatestNeverFollows ==
  Spec => [](runtime[N - 1] # "replica" /\ leader[N - 1] = None)
<1>1. ElectionInv => runtime[N - 1] # "replica" /\ leader[N - 1] = None
  <2> SUFFICES ASSUME ElectionInv PROVE runtime[N - 1] # "replica" /\ leader[N - 1] = None
    OBVIOUS
  <2>1. N - 1 \in Supervisors /\ \A p \in Supervisors \cup {None} : ~(p > N - 1)
    BY ElectionAssumption DEF Supervisors, None
  <2> QED
    BY <2>1 DEF ElectionInv, TypeOK, FollowsWhatItNames
<1> QED
  BY InitElection, NextElection, <1>1, PTL DEF Spec
=============================================================================
