--------------------------- MODULE ExecutionProofs ---------------------------
(***************************************************************************)
(* Proofs about module Execution, for any number of starts, of pods that   *)
(* become unready and of failing calls.                                    *)
(***************************************************************************)
EXTENDS Execution, TLAPS

ExecutionTypeOK ==
  /\ state \in {"Committed", "Started", "Stopped", "Destroyed"}
  /\ call \in {"idle", "waitRunning", "waitStopped", "stop", "destroy"}
  /\ starts \in 0..MaxStarts
  /\ status \in BOOLEAN /\ cancelled \in BOOLEAN /\ overlap \in BOOLEAN
  /\ pods \in [Gens -> {"none", "pending", "ready", "terminating", "gone"}]
  /\ waiter \in [Gens -> {"none", "begin", "polling", "running", "called", "gaveUp"}]
  /\ seenReady \subseteq Gens
  /\ faults \in Nat

\* The replica set is that of the last start, its status has been true of its pod, and
\* the pods of earlier starts have ended, unless a start overlapped with them.
ClusterInv ==
  /\ replicaSet \in {0, starts}
  /\ status => replicaSet # 0 /\ replicaSet \in seenReady
  /\ \A g \in Gens :
       /\ pods[g] = "ready" => g \in seenReady
       /\ pods[g] # "none" => g <= starts
       /\ pods[g] \in Up /\ g # starts => overlap

\* A goroutine of StartWithCallback has left its loop because of its own start's pod
\* or a later one's.
WaiterInv ==
  \A g \in Gens :
    /\ waiter[g] # "none" => g <= starts
    /\ waiter[g] \in {"running", "called"} => \E h \in seenReady : h >= g

\* In which states an instance lacks its replica set, or has one too many.
StateInv ==
  /\ call = "stop" => state = "Started"
  /\ call = "destroy" => state \in {"Started", "Stopped"}
  /\ call \in {"stop", "destroy"} => replicaSet = 0
  /\ call = "waitStopped" => state = "Stopped"
  /\ state = "Started" /\ replicaSet = 0 => call \in {"stop", "destroy"} \/ faults > 0 \/ cancelled
  /\ state # "Started" /\ replicaSet # 0 => faults > 0

\* What a result says of the state it was returned in still holds.
ResultInv ==
  /\ result.op = "waitStopped" => state = "Stopped"
  /\ StalePodNeedsOverlap

ExecutionInv ==
  ExecutionTypeOK /\ ClusterInv /\ WaiterInv /\ StateInv /\ ResultInv /\ PanicNeedsFailure

-----------------------------------------------------------------------------

\* Nothing runs at first: no start, no pod, no goroutine.
LEMMA ExecutionInit == Init => ExecutionInv
<1> SUFFICES ASSUME Init PROVE ExecutionInv
  OBVIOUS
<1> USE ExecutionAssumption DEF Init
<1>1. ExecutionTypeOK
  <2>1. status \in BOOLEAN /\ cancelled \in BOOLEAN /\ overlap \in BOOLEAN
    OBVIOUS
  <2>2. starts \in 0..MaxStarts /\ faults \in Nat
    OBVIOUS
  <2> QED BY <2>1, <2>2 DEF ExecutionTypeOK
<1>2. ClusterInv
  <2>1. replicaSet = 0 /\ status = FALSE /\ \A g \in Gens : pods[g] = "none"
    OBVIOUS
  <2> QED BY <2>1 DEF ClusterInv, Up
<1>3. WaiterInv
  BY DEF WaiterInv
<1>4. StateInv
  BY DEF StateInv
<1>5. ResultInv /\ PanicNeedsFailure
  BY DEF ResultInv, StalePodNeedsOverlap, NoResult, PanicNeedsFailure
<1> QED BY <1>1, <1>2, <1>3, <1>4, <1>5 DEF ExecutionInv

\* A return that properties are not about, and the beginning of a call.
LEMMA NoResultInv ==
  ASSUME result' = NoResult
  PROVE  ResultInv'
BY DEF ResultInv, StalePodNeedsOverlap, NoResult

\* createReplicaSet, by StartAsync and by a start that fails
LEMMA CreateInv ==
  ASSUME ExecutionInv, createReplicaSet
  PROVE  /\ starts' \in Gens /\ starts' \in 0..MaxStarts /\ starts' = starts + 1
         /\ replicaSet' = starts' /\ replicaSet' # 0
         /\ status' = FALSE /\ overlap' \in BOOLEAN
         /\ pods' \in [Gens -> {"none", "pending", "ready", "terminating", "gone"}]
         /\ UNCHANGED seenReady
         /\ ClusterInv'
<1> USE ExecutionAssumption DEF ExecutionInv
<1>1. /\ starts' \in Gens /\ starts' \in 0..MaxStarts /\ starts' = starts + 1
      /\ replicaSet' = starts' /\ replicaSet' # 0
      /\ starts \in Nat
  BY DEF createReplicaSet, ExecutionTypeOK, Gens
<1>2. pods' = [pods EXCEPT ![starts'] = "pending"] /\ UNCHANGED seenReady
  BY DEF createReplicaSet
<1>3. status' = FALSE
  BY DEF createReplicaSet
<1>4. overlap' = (overlap \/ \E g \in Gens : pods[g] \in Up)
  BY DEF createReplicaSet
<1>5. overlap' \in BOOLEAN
  BY <1>4
<1>6. pods' \in [Gens -> {"none", "pending", "ready", "terminating", "gone"}]
  BY <1>2 DEF ExecutionTypeOK
<1>7. ASSUME NEW g \in Gens
      PROVE  /\ pods'[g] = "ready" => g \in seenReady'
             /\ pods'[g] # "none" => g <= starts'
             /\ pods'[g] \in Up /\ g # starts' => overlap'
  <2>1. CASE g = starts'
    BY <1>1, <1>2, <2>1 DEF ExecutionTypeOK, Gens
  <2>2. CASE g # starts'
    <3>1. pods'[g] = pods[g]
      BY <1>2, <2>2 DEF ExecutionTypeOK
    <3>2. pods[g] \in Up => overlap'
      BY <1>4
    <3>3. pods[g] # "none" => g <= starts'
      BY <1>1 DEF ClusterInv, Gens
    <3> QED BY <1>2, <3>1, <3>2, <3>3 DEF ClusterInv
  <2> QED BY <2>1, <2>2
<1> QED BY <1>1, <1>2, <1>3, <1>5, <1>6, <1>7 DEF ClusterInv

\* A start, with or without a goroutine that waits for it, keeps what is known of
\* these goroutines: that of the new start has seen nothing yet.
LEMMA CreateWaiterInv ==
  ASSUME ExecutionInv, createReplicaSet,
         waiter' = waiter \/ waiter' = [waiter EXCEPT ![starts'] = "begin"]
  PROVE  WaiterInv'
<1>1. /\ starts' \in Gens /\ starts' = starts + 1 /\ starts \in Nat
      /\ UNCHANGED seenReady
  <2>1. starts \in Nat
    BY ExecutionAssumption DEF ExecutionInv, ExecutionTypeOK
  <2> QED BY <2>1, CreateInv, Zenon
<1>2. ASSUME NEW g \in Gens
      PROVE  /\ waiter'[g] # "none" => g <= starts'
             /\ waiter'[g] \in {"running", "called"} => \E h \in seenReady' : h >= g
  <2>1. waiter'[g] = waiter[g] \/ (g = starts' /\ waiter'[g] = "begin")
    <3>1. waiter \in [Gens -> {"none", "begin", "polling", "running", "called", "gaveUp"}]
      BY DEF ExecutionInv, ExecutionTypeOK
    <3> QED BY <1>1, <3>1
  <2>2. g \in Nat /\ (waiter[g] # "none" => g <= starts')
    BY <1>1, ExecutionAssumption DEF ExecutionInv, WaiterInv, Gens
  <2>3. waiter[g] \in {"running", "called"} => \E h \in seenReady' : h >= g
    BY <1>1 DEF ExecutionInv, WaiterInv
  <2>4. CASE waiter'[g] = waiter[g]
    BY <2>2, <2>3, <2>4
  <2>5. CASE g = starts' /\ waiter'[g] = "begin"
    BY <1>1, <2>2, <2>5
  <2> QED BY <2>1, <2>4, <2>5
<1> QED BY <1>2 DEF WaiterInv

\* StartAsync, alone or within Start or StartWithCallback, successful or not.
LEMMA StartInv ==
  ASSUME ExecutionInv, panic = NoPanic, StartAsync \/ StartFails
  PROVE  ExecutionInv'
<1> USE ExecutionAssumption DEF ExecutionInv
<1>1. call = "idle" /\ state \in {"Committed", "Stopped"} /\ panic' = NoPanic
  BY DEF StartAsync, StartFails, Startable
<1>2. PanicNeedsFailure'
  BY <1>1 DEF PanicNeedsFailure
<1>3. result' = NoResult
  BY DEF StartAsync, StartFails, Return, Enter
<1>4. CASE StartAsync
  <2>1. /\ createReplicaSet /\ state' = "Started" /\ call' \in {"idle", "waitRunning"}
        /\ UNCHANGED <<cancelled, faults>>
        /\ waiter' = waiter \/ waiter' = [waiter EXCEPT ![starts'] = "begin"]
    BY <1>4 DEF StartAsync, Return, Enter
  <2>2. ExecutionTypeOK'
    <3>1. waiter' \in [Gens -> {"none", "begin", "polling", "running", "called", "gaveUp"}]
      BY <2>1 DEF ExecutionTypeOK
    <3>2. status' \in BOOLEAN /\ cancelled' \in BOOLEAN /\ overlap' \in BOOLEAN
      BY <2>1, CreateInv, Zenon DEF ExecutionTypeOK
    <3> QED BY <2>1, <3>1, <3>2, CreateInv, Zenon DEF ExecutionTypeOK
  <2>3. WaiterInv'
    BY <2>1, CreateWaiterInv
  <2>4. StateInv'
    BY <2>1, CreateInv DEF StateInv
  <2> QED BY <1>2, <1>3, <2>1, <2>2, <2>3, <2>4, CreateInv, NoResultInv
<1>5. CASE StartFails
  <2>1. call' = "idle" /\ UNCHANGED <<state, waiter, cancelled>>
    BY <1>5 DEF StartFails, Return
  <2>2. CASE Fault /\ createReplicaSet
    <3>1. faults' \in Nat /\ faults' > 0
      BY <2>2 DEF Fault, ExecutionTypeOK
    <3>2. ExecutionTypeOK'
      <4>1. status' \in BOOLEAN /\ cancelled' \in BOOLEAN /\ overlap' \in BOOLEAN
        BY <2>1, <2>2, CreateInv, Zenon DEF ExecutionTypeOK
      <4> QED BY <2>1, <2>2, <3>1, <4>1, CreateInv, Zenon DEF ExecutionTypeOK
    <3>3. WaiterInv'
      BY <2>1, <2>2, CreateWaiterInv
    <3>4. StateInv'
      BY <2>1, <2>2, <3>1, CreateInv DEF StateInv
    <3> QED BY <1>2, <1>3, <2>2, <3>2, <3>3, <3>4, CreateInv, NoResultInv
  <2>3. CASE UNCHANGED <<cluster, overlap>> /\ (Fault \/ UNCHANGED faults)
    <3>1. faults' \in Nat /\ (faults > 0 => faults' > 0)
      BY <2>3 DEF Fault, ExecutionTypeOK
    <3>2. ExecutionTypeOK'
      BY <2>1, <2>3, <3>1 DEF ExecutionTypeOK, cluster
    <3>3. ClusterInv' /\ WaiterInv'
      BY <2>1, <2>3 DEF ClusterInv, WaiterInv, cluster
    <3>4. StateInv'
      BY <1>1, <2>1, <2>3, <3>1 DEF StateInv, cluster
    <3> QED BY <1>2, <1>3, <3>2, <3>3, <3>4, NoResultInv
  <2> QED BY <1>5, <2>2, <2>3 DEF StartFails
<1> QED BY <1>4, <1>5

\* Stop and Destroy, as far as the replica set
LEMMA DestroyInv ==
  ASSUME ExecutionInv, panic = NoPanic, Stop \/ Destroy
  PROVE  ExecutionInv'
<1> USE ExecutionAssumption DEF ExecutionInv
<1>1. PICK op \in {"stop", "destroy"} :
        /\ destroyPod(op)
        /\ op = "stop" => state = "Started"
        /\ op = "destroy" => state \in {"Started", "Stopped"}
  BY DEF Stop, Destroy
<1>2. /\ call' = op /\ result' = NoResult /\ replicaSet' = 0
      /\ UNCHANGED <<state, pods, starts, seenReady, waiter, cancelled, panic, overlap, faults>>
  BY <1>1 DEF destroyPod, Enter
<1>3. status' = FALSE
  BY <1>1 DEF destroyPod
<1>4. ExecutionTypeOK'
  BY <1>2, <1>3 DEF ExecutionTypeOK
<1>5. ClusterInv' /\ WaiterInv'
  BY <1>2, <1>3 DEF ClusterInv, WaiterInv
<1>6. StateInv' /\ PanicNeedsFailure'
  BY <1>1, <1>2 DEF StateInv, PanicNeedsFailure
<1> QED BY <1>2, <1>4, <1>5, <1>6, NoResultInv

\* The rest of Stop and Destroy, and the beginning of the two waits
LEMMA CallInv ==
  ASSUME ExecutionInv, panic = NoPanic, Destroyed \/ DestroyFails \/ Wait
  PROVE  ExecutionInv'
<1> USE ExecutionAssumption DEF ExecutionInv
<1>1. UNCHANGED <<cluster, waiter, cancelled, panic, overlap>>
  BY DEF Destroyed, DestroyFails, Wait
<1>2. ClusterInv' /\ WaiterInv' /\ PanicNeedsFailure'
  BY <1>1 DEF cluster, ClusterInv, WaiterInv, PanicNeedsFailure
<1>3. CASE Destroyed
  <2>1. /\ call \in {"stop", "destroy"} /\ state = "Started" /\ call' = "idle"
        /\ state' = IF call = "stop" THEN "Stopped" ELSE "Destroyed"
        /\ result' = NoResult /\ UNCHANGED faults
    BY <1>3 DEF Destroyed, Return
  <2>2. ExecutionTypeOK' /\ StateInv'
    BY <1>1, <2>1 DEF cluster, ExecutionTypeOK, StateInv
  <2> QED BY <1>2, <2>1, <2>2, NoResultInv
<1>4. CASE DestroyFails
  <2>1. /\ call \in {"stop", "destroy"} /\ call' = "idle" /\ UNCHANGED state
        /\ result' = NoResult
    BY <1>4 DEF DestroyFails, Return
  <2>2. /\ faults' \in Nat /\ faults' >= faults
        /\ faults' > 0 \/ state = "Stopped" \/ cancelled
    BY <1>4 DEF DestroyFails, Fault, ExecutionTypeOK
  <2>3. ExecutionTypeOK'
    BY <1>1, <2>1, <2>2 DEF cluster, ExecutionTypeOK
  <2>4. StateInv'
    BY <1>1, <2>1, <2>2 DEF cluster, StateInv
  <2> QED BY <1>2, <2>1, <2>3, <2>4, NoResultInv
<1>5. CASE Wait
  <2>1. /\ call = "idle" /\ UNCHANGED <<state, faults>> /\ result' = NoResult
        /\ \/ state = "Started" /\ call' = "waitRunning"
           \/ state = "Stopped" /\ call' = "waitStopped"
    BY <1>5 DEF Wait, Enter
  <2>2. ExecutionTypeOK' /\ StateInv'
    BY <1>1, <2>1 DEF cluster, ExecutionTypeOK, StateInv
  <2> QED BY <1>2, <2>1, <2>2, NoResultInv
<1> QED BY <1>3, <1>4, <1>5

\* The polls of WaitInstanceIsRunning and WaitInstanceIsStopped.
LEMMA WaitInv ==
  ASSUME ExecutionInv, panic = NoPanic, WaitInstanceIsRunning \/ WaitInstanceIsStopped
  PROVE  ExecutionInv'
<1> USE ExecutionAssumption DEF ExecutionInv
<1>1. /\ UNCHANGED <<state, cluster, waiter, cancelled, panic, overlap>>
      /\ call \in {"waitRunning", "waitStopped"} /\ call' = "idle"
  BY DEF WaitInstanceIsRunning, WaitInstanceIsStopped, Return
<1>2. faults' = faults \/ faults' = faults + 1
  BY DEF WaitInstanceIsRunning, WaitInstanceIsStopped, Looked, Fault
<1>3. ExecutionTypeOK'
  BY <1>1, <1>2 DEF ExecutionTypeOK, cluster
<1>4. ClusterInv' /\ WaiterInv' /\ PanicNeedsFailure'
  BY <1>1 DEF cluster, ClusterInv, WaiterInv, PanicNeedsFailure
<1>5. StateInv'
  BY <1>1, <1>2 DEF cluster, ExecutionTypeOK, StateInv
<1>6. ResultInv'
  <2>1. CASE WaitInstanceIsRunning
    BY <2>1, NoResultInv DEF WaitInstanceIsRunning, Return
  <2>2. CASE WaitInstanceIsStopped
    <3>1. result' = [op |-> "waitStopped", pod |-> 0] /\ state = "Stopped"
      BY <2>2 DEF WaitInstanceIsStopped, Return, StateInv
    <3> QED BY <1>1, <3>1 DEF ResultInv, StalePodNeedsOverlap
  <2> QED BY <2>1, <2>2
<1> QED BY <1>3, <1>4, <1>5, <1>6

-----------------------------------------------------------------------------
(* The goroutine of StartWithCallback *)

\* A lookup that says "running" has seen the status of the replica set of the last
\* start, whose pod has therefore been ready.
LEMMA RunningWasReady ==
  ASSUME ExecutionInv, NEW g \in Gens, waiter[g] # "none", Looked("yes")
  PROVE  \E h \in seenReady : h >= g
<1>1. status /\ replicaSet # 0
  BY DEF Looked, IsRunning
<1>2. replicaSet = starts /\ starts \in seenReady
  BY <1>1 DEF ExecutionInv, ClusterInv
<1>3. starts >= g
  BY ExecutionAssumption DEF ExecutionInv, ExecutionTypeOK, WaiterInv, Gens
<1> QED BY <1>2, <1>3

\* A step of the goroutine that StartWithCallback has left behind.
LEMMA WaiterStepInv ==
  ASSUME ExecutionInv, panic = NoPanic, NEW g \in Gens, StartWithCallback(g)
  PROVE  ExecutionInv'
<1> USE ExecutionAssumption DEF ExecutionInv
<1>1. UNCHANGED <<state, cluster, call, result, cancelled, panic, overlap>>
  BY DEF StartWithCallback, WaiterBegin, WaiterPoll, Callback
<1>2. faults' = faults \/ faults' = faults + 1
  BY DEF StartWithCallback, WaiterBegin, WaiterPoll, Callback, Looked, Fault
<1>3. PICK w \in {"polling", "running", "called", "gaveUp"} :
        /\ waiter' = [waiter EXCEPT ![g] = w]
        /\ w = "running" => Looked("yes")
        /\ w = "called" => waiter[g] = "running"
        /\ waiter[g] # "none"
  BY DEF StartWithCallback, WaiterBegin, WaiterPoll, Callback
<1>4. ExecutionTypeOK'
  <2>1. waiter' \in [Gens -> {"none", "begin", "polling", "running", "called", "gaveUp"}]
    BY <1>3 DEF ExecutionTypeOK
  <2>2. faults' \in Nat
    BY <1>2 DEF ExecutionTypeOK
  <2> QED BY <1>1, <2>1, <2>2 DEF ExecutionTypeOK, cluster
<1>5. WaiterInv'
  <2>1. w \in {"running", "called"} => \E h \in seenReady : h >= g
    BY <1>3, RunningWasReady DEF WaiterInv
  <2>2. UNCHANGED <<starts, seenReady>>
    BY <1>1 DEF cluster
  <2> QED BY <1>3, <2>1, <2>2 DEF ExecutionTypeOK, WaiterInv
<1>6. ClusterInv' /\ PanicNeedsFailure'
  BY <1>1 DEF cluster, ClusterInv, PanicNeedsFailure
<1>7. StateInv'
  BY <1>1, <1>2 DEF cluster, ExecutionTypeOK, StateInv
<1>8. ResultInv'
  BY <1>1 DEF cluster, ResultInv, StalePodNeedsOverlap
<1> QED BY <1>4, <1>5, <1>6, <1>7, <1>8

-----------------------------------------------------------------------------
(* Commands, logs, the address and the forwarding of a port *)

LEMMA AddressInv ==
  ASSUME ExecutionInv, panic = NoPanic,
         NEW op \in {"command", "logs", "address", "forward"}, NEW part \in Parts,
         Address(op, part)
  PROVE  ExecutionInv'
<1> USE ExecutionAssumption DEF ExecutionInv
<1>1. /\ UNCHANGED <<state, cluster, waiter, cancelled, overlap, faults>>
      /\ call = "idle" /\ call' = "idle" /\ ~cancelled /\ Addressable(op)
  BY DEF Address, Return
<1>2. ExecutionTypeOK' /\ ClusterInv' /\ WaiterInv' /\ StateInv'
  BY <1>1 DEF cluster, ExecutionTypeOK, ClusterInv, WaiterInv, StateInv
<1>3. CASE Return(op, FALSE, 0) /\ UNCHANGED panic
  <2>1. result' = NoResult /\ panic' = NoPanic
    BY <1>3 DEF Return
  <2> QED BY <1>2, <2>1, NoResultInv DEF PanicNeedsFailure
<1>4. ASSUME NEW g \in GetFirstPodFromReplicaSet(op, part),
             Return(op, g # 0, g), panic' = IF g = 0 THEN Panic(op, part) ELSE panic
      PROVE  ResultInv' /\ PanicNeedsFailure'
  <2>1. CASE g = 0
    <3>1. result' = NoResult /\ panic' = Panic(op, part)
      BY <1>4, <2>1 DEF Return
    <3>2. ReplicaSetOf(op, part) = 0
      BY <2>1 DEF GetFirstPodFromReplicaSet, Gens
    <3>3. \/ op = "logs"
          \/ part = "clonedSidecar"
          \/ part = "sidecar" /\ op \in {"address", "forward"}
          \/ state = "Started" /\ replicaSet = 0
      BY <1>1, <3>2 DEF ReplicaSetOf, Addressable, Parts
    <3>4. state = "Started" /\ replicaSet = 0 => faults > 0
      BY <1>1 DEF StateInv
    <3> QED BY <1>1, <3>1, <3>3, <3>4, NoResultInv DEF PanicNeedsFailure, Panic
  <2>2. CASE g # 0
    <3>1. g \in Gens /\ pods[g] \in Up /\ ReplicaSetOf(op, part) # 0
      BY <2>2 DEF GetFirstPodFromReplicaSet
    <3>2. replicaSet = starts
      BY <3>1 DEF ReplicaSetOf, ClusterInv
    <3>3. g # replicaSet => overlap
      BY <3>1, <3>2 DEF ClusterInv
    <3>4. result' = NoResult \/ result' = [op |-> "command", pod |-> g]
      BY <1>4 DEF Return
    <3>5. ResultInv'
      BY <1>1, <3>3, <3>4, NoResultInv DEF cluster, ResultInv, StalePodNeedsOverlap
    <3> QED BY <1>4, <2>2, <3>5 DEF PanicNeedsFailure
  <2> QED BY <2>1, <2>2
<1> QED BY <1>2, <1>3, <1>4 DEF Address

-----------------------------------------------------------------------------
(* The cluster and the context *)

LEMMA ClusterStepInv ==
  ASSUME ExecutionInv, panic = NoPanic, Cluster, Unchanged
  PROVE  ExecutionInv'
<1> USE ExecutionAssumption DEF ExecutionInv
<1>1. /\ UNCHANGED <<state, call, result, waiter, cancelled, panic, overlap, faults>>
      /\ UNCHANGED <<replicaSet, starts>>
  BY DEF Unchanged, Cluster, Kubelet, PodReady, PodUnready, PodEnds, UpdateStatus
<1>2. StateInv' /\ ResultInv' /\ PanicNeedsFailure'
  BY <1>1 DEF StateInv, ResultInv, StalePodNeedsOverlap, PanicNeedsFailure
<1>3. CASE UpdateStatus
  <2>1. UNCHANGED <<pods, seenReady>> /\ replicaSet # 0
    BY <1>3 DEF UpdateStatus
  <2>2. status' \in BOOLEAN
    BY <1>3 DEF UpdateStatus
  <2>3. status' => replicaSet \in seenReady
    <3>1. status' => pods[replicaSet] = "ready"
      BY <1>3 DEF UpdateStatus, ExecutionTypeOK
    <3>2. replicaSet \in Gens
      BY <2>1 DEF ClusterInv, ExecutionTypeOK, Gens
    <3> QED BY <3>1, <3>2 DEF ClusterInv
  <2>4. ExecutionTypeOK'
    BY <1>1, <2>1, <2>2 DEF ExecutionTypeOK
  <2>5. ClusterInv' /\ WaiterInv'
    BY <1>1, <2>1, <2>3 DEF ClusterInv, WaiterInv
  <2> QED BY <1>2, <2>4, <2>5
<1>4. ASSUME NEW g \in Gens, Kubelet(g) \/ PodUnready(g)
      PROVE  ExecutionInv'
  <2>1. PICK p \in {"pending", "ready", "terminating", "gone"} :
          /\ pods' = [pods EXCEPT ![g] = p]
          /\ pods[g] \in Up
          /\ p = "ready" => g \in seenReady'
    BY <1>4 DEF Kubelet, PodReady, PodUnready, PodEnds, Up
  <2>2. UNCHANGED status /\ (seenReady' = seenReady \/ seenReady' = seenReady \cup {g})
    BY <1>4 DEF Kubelet, PodReady, PodUnready, PodEnds
  <2>3. ExecutionTypeOK'
    BY <1>1, <2>1, <2>2 DEF ExecutionTypeOK
  <2>4. ClusterInv'
    <3>1. ASSUME NEW h \in Gens
          PROVE  /\ pods'[h] = "ready" => h \in seenReady'
                 /\ pods'[h] # "none" => h <= starts'
                 /\ pods'[h] \in Up /\ h # starts' => overlap'
      <4>1. CASE h = g
        BY <1>1, <2>1, <4>1 DEF ClusterInv, ExecutionTypeOK, Up
      <4>2. CASE h # g
        BY <1>1, <2>1, <2>2, <4>2 DEF ClusterInv, ExecutionTypeOK
      <4> QED BY <4>1, <4>2
    <3> QED BY <1>1, <2>2, <3>1 DEF ClusterInv
  <2>5. WaiterInv'
    BY <1>1, <2>2 DEF WaiterInv
  <2> QED BY <1>2, <2>3, <2>4, <2>5
<1> QED BY <1>3, <1>4 DEF Cluster

\* The context ends.
LEMMA CancelInv ==
  ASSUME ExecutionInv, Cancel
  PROVE  ExecutionInv'
<1> USE DEF ExecutionInv
<1>1. /\ UNCHANGED <<state, cluster, call, result, waiter, panic, overlap, faults>>
      /\ cancelled' \in BOOLEAN /\ cancelled'
  BY DEF Cancel
<1>2. ExecutionTypeOK' /\ ClusterInv' /\ WaiterInv'
  BY <1>1 DEF cluster, ExecutionTypeOK, ClusterInv, WaiterInv
<1>3. StateInv' /\ ResultInv' /\ PanicNeedsFailure'
  BY <1>1 DEF cluster, StateInv, ResultInv, StalePodNeedsOverlap, PanicNeedsFailure
<1> QED BY <1>2, <1>3

-----------------------------------------------------------------------------
(* The theorems *)

LEMMA ExecutionStep == ExecutionInv /\ [Next]_vars => ExecutionInv'
<1> SUFFICES ASSUME ExecutionInv, [Next]_vars PROVE ExecutionInv'
  OBVIOUS
<1>1. CASE UNCHANGED vars
  BY <1>1 DEF vars, cluster, ExecutionInv, ExecutionTypeOK, ClusterInv, WaiterInv, StateInv,
     ResultInv, StalePodNeedsOverlap, PanicNeedsFailure
<1>2. CASE panic = NoPanic /\ Begin
  <2>1. CASE StartAsync \/ StartFails
    BY <1>2, <2>1, StartInv
  <2>2. CASE Stop \/ Destroy
    BY <1>2, <2>2, DestroyInv
  <2>3. CASE Wait
    BY <1>2, <2>3, CallInv
  <2>4. ASSUME NEW part \in Parts,
               ExecuteCommand(part) \/ Logs(part) \/ GetEphemeralIP(part) \/ PortForwardTCP(part)
        PROVE  ExecutionInv'
    BY <1>2, <2>4, AddressInv DEF ExecuteCommand, Logs, GetEphemeralIP, PortForwardTCP
  <2> QED BY <1>2, <2>1, <2>2, <2>3, <2>4 DEF Begin
<1>3. CASE panic = NoPanic /\ Step
  BY <1>3, CallInv, WaitInv DEF Step
<1>4. CASE panic = NoPanic /\ Cancel
  BY <1>4, CancelInv
<1>5. ASSUME NEW g \in Gens, panic = NoPanic, StartWithCallback(g)
      PROVE  ExecutionInv'
  BY <1>5, WaiterStepInv
<1>6. CASE panic = NoPanic /\ Cluster /\ Unchanged
  BY <1>6, ClusterStepInv
<1> QED BY <1>1, <1>2, <1>3, <1>4, <1>5, <1>6 DEF Next

\* The invariant holds in every behaviour of the test, its goroutines and the cluster.
THEOREM ExecutionInvHolds == Spec => []ExecutionInv
BY ExecutionInit, ExecutionStep, PTL DEF Spec

\* The callback of StartWithCallback runs only when a pod of its start, or of a later
\* start, has been ready, however the test stops and restarts the instance meanwhile.
THEOREM CallbacksAreLate == Spec => []CallbackMeansReady
<1>1. ExecutionInv => CallbackMeansReady
  BY DEF ExecutionInv, WaiterInv, CallbackMeansReady
<1> QED BY <1>1, ExecutionInvHolds, PTL

\* A nil pod is dereferenced only by the logs of an instance without a pod, for a
\* cloned sidecar, by the address or a port of a sidecar, or after a Stop or Destroy
\* that failed half way.
THEOREM PanicsAreKnown == Spec => []PanicNeedsFailure
<1>1. ExecutionInv => PanicNeedsFailure
  BY DEF ExecutionInv
<1> QED BY <1>1, ExecutionInvHolds, PTL

\* A command that GetFirstPodFromReplicaSet sends to the pod of another start needs a
\* restart before the old pod had ended.
THEOREM StalePodsOverlap == Spec => []StalePodNeedsOverlap
<1>1. ExecutionInv => StalePodNeedsOverlap
  BY DEF ExecutionInv, ResultInv
<1> QED BY <1>1, ExecutionInvHolds, PTL

\* When WaitInstanceIsStopped has returned and no call has failed, a pod that is left
\* has lost its replica set.
THEOREM StoppedPodsEnd == Spec => []StoppedPodWillEnd
<1>1. ExecutionInv => StoppedPodWillEnd
  <2> SUFFICES ASSUME ExecutionInv, result.op = "waitStopped", faults = 0
               PROVE  \A g \in Gens : pods[g] \in Up => g # replicaSet
    BY DEF StoppedPodWillEnd
  <2>1. replicaSet = 0
    BY DEF ExecutionInv, ResultInv, StateInv
  <2> QED BY <2>1 DEF Gens
<1> QED BY <1>1, ExecutionInvHolds, PTL
=============================================================================
