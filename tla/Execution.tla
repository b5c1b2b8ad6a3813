------------------------------ MODULE Execution ------------------------------
(***************************************************************************)
(* What a test does with a running instance (pkg/instance/execution.go,    *)
(* network.go, monitoring.go): it waits for it, is called back, runs       *)
(* commands in its pod, reads its logs and address, forwards a port.       *)
(*                                                                         *)
(* All of this looks at a pod that others change.  Deleting a replica set  *)
(* removes the object at once; the garbage collector takes its pod away    *)
(* later.  The status of a replica set lags behind its pod.  The goroutine *)
(* of StartWithCallback polls while the test goes on to stop, restart or   *)
(* destroy the instance.  The g-th start makes the g-th replica set and    *)
(* its pod.  How Start, Stop and Destroy make their calls is in module     *)
(* Instance; here they are the call on the replica set and the rest.       *)
(***************************************************************************)
EXTENDS Naturals, FiniteSets

CONSTANTS
  MaxStarts,   \* bound: replica sets created
  MaxFlaps,    \* bound: times a ready pod becomes unready
  MaxFaults    \* bound: calls that fail on their way

ASSUME ExecutionAssumption == {MaxStarts, MaxFlaps, MaxFaults} \subseteq Nat

Gens == 1..MaxStarts

VARIABLES
  state,       \* Instance.state
  replicaSet,  \* the start that made the replica set that exists, or 0
  status,      \* its status: ReadyReplicas = Replicas
  pods,        \* pods[g]: the pod of the g-th replica set
  starts,      \* number of replica sets created
  call,        \* the call the test's goroutine is in
  result,      \* what its last call returned
  waiter,      \* waiter[g]: the goroutine of the StartWithCallback that made start g
  cancelled,   \* the test's context is done
  panic,       \* where a nil pod was dereferenced
  seenReady,   \* history: the starts whose pod has been ready
  overlap,     \* history: an instance was started while an old pod was there
  flaps, faults

cluster == <<replicaSet, status, pods, starts, seenReady, flaps>>
vars == <<state, cluster, call, result, waiter, cancelled, panic, overlap, faults>>

\* The parts of an instance that a test addresses.  A sidecar that came with a clone
\* is not marked as one and does not know its parent (module Names).
Parts == {"main", "sidecar", "clonedSidecar"}

NoResult == [op |-> "none", pod |-> 0]

\* The operation that dereferences a nil pod, and the part it was called on.
Panic(op, part) == [op |-> op, part |-> part]

NoPanic == Panic("none", "main")

\* The processes of the pod exist.
Up == {"pending", "ready", "terminating"}

\* A committed instance; all its other resources are deployed without a failure.
Init ==
  /\ state = "Committed"
  /\ replicaSet = 0 /\ status = FALSE /\ starts = 0
  /\ pods = [g \in Gens |-> "none"]
  /\ call = "idle"
  /\ result = NoResult
  /\ waiter = [g \in Gens |-> "none"]
  /\ cancelled = FALSE /\ panic = NoPanic
  /\ seenReady = {} /\ overlap = FALSE
  /\ flaps = 0 /\ faults = 0

\* The call returns to the test.  The results that properties are about are
\* remembered, until the test makes another call.
Return(op, ok, pod) ==
  /\ call' = "idle"
  /\ result' = IF ok /\ op \in {"waitStopped", "command"}
               THEN [op |-> op, pod |-> pod] ELSE NoResult

\* The test's goroutine is in a call from here on.
Enter(c) == call' = c /\ result' = NoResult

Fault == faults < MaxFaults /\ faults' = faults + 1

-----------------------------------------------------------------------------
(* Start, Stop and Destroy *)

\* The replica set is created; the service account and roles of the pod are not
\* told apart from it.
createReplicaSet ==
  /\ replicaSet = 0
  /\ starts < MaxStarts
  /\ starts' = starts + 1
  /\ replicaSet' = starts'
  /\ status' = FALSE
  /\ pods' = [pods EXCEPT ![starts'] = "pending"]
  /\ overlap' = (overlap \/ \E g \in Gens : pods[g] \in Up)
  /\ UNCHANGED <<seenReady, flaps>>

\* (With a context that is done every API call fails and changes nothing.)
Startable == call = "idle" /\ state \in {"Committed", "Stopped"} /\ ~cancelled

\* How the test starts the instance: StartAsync returns, Start goes on to wait, the
\* goroutine of StartWithCallback is begun.
StartAsync ==
  /\ Startable
  /\ createReplicaSet
  /\ state' = "Started"
  /\ \/ Return("start", TRUE, 0) /\ UNCHANGED waiter
     \/ Enter("waitRunning") /\ UNCHANGED waiter
     \/ /\ Return("start", TRUE, 0)
        /\ waiter' = [waiter EXCEPT ![starts'] = "begin"]
  /\ UNCHANGED <<cancelled, panic, faults>>

\* The creation fails on its way, or meets the replica set of an attempt that
\* failed after it had taken effect.
StartFails ==
  /\ Startable
  /\ \/ Fault /\ createReplicaSet
     \/ Fault /\ UNCHANGED <<cluster, overlap>>
     \/ replicaSet # 0 /\ UNCHANGED <<cluster, overlap, faults>>
  /\ Return("start", FALSE, 0)
  /\ UNCHANGED <<state, waiter, cancelled, panic>>

\* Mutant: the replica set is left.
DestroyOthers(op) ==
  /\ call = "idle"
  /\ ~cancelled
  /\ Enter(op)
  /\ UNCHANGED <<state, cluster, waiter, cancelled, panic, overlap, faults>>

\* destroyPod deletes the replica set, unless it is missing, before anything else.
destroyPod(op) ==
  /\ call = "idle"
  /\ ~cancelled
  /\ Enter(op)
  /\ replicaSet' = 0
  /\ status' = FALSE
  /\ UNCHANGED <<state, pods, starts, seenReady, flaps, waiter, cancelled,
                 panic, overlap, faults>>

Stop == state = "Started" /\ destroyPod("stop")

Destroy == state \in {"Started", "Stopped"} /\ destroyPod("destroy")

\* The rest of Stop and Destroy succeeds and the state is set.  It cannot succeed
\* for a stopped instance, whose service account is gone.
Destroyed ==
  /\ call \in {"stop", "destroy"}
  /\ state = "Started"
  /\ state' = IF call = "stop" THEN "Stopped" ELSE "Destroyed"
  /\ Return(call, TRUE, 0)
  /\ UNCHANGED <<cluster, waiter, cancelled, panic, overlap, faults>>

DestroyFails ==
  /\ call \in {"stop", "destroy"}
  /\ \/ Fault
     \/ (state = "Stopped" \/ cancelled) /\ UNCHANGED faults
  /\ Return(call, FALSE, 0)
  /\ UNCHANGED <<state, cluster, waiter, cancelled, panic, overlap>>

-----------------------------------------------------------------------------
(* Waiting *)

\* Mutant: a replica set that is there counts as running.
RunningIfCreated ==
  IF state \notin {"Started", "Stopped"} \/ replicaSet = 0 \/ cancelled THEN "error" ELSE "yes"

\* What a lookup that is answered tells; a missing replica set is an error.
IsRunning ==
  IF state \notin {"Started", "Stopped"} \/ replicaSet = 0 \/ cancelled THEN "error"
  ELSE IF status THEN "yes" ELSE "no"

\* The lookup may also fail on its way.
Looked(answer) ==
  \/ answer = IsRunning /\ UNCHANGED faults
  \/ answer = "error" /\ Fault

\* Mutant: a missing replica set is taken for one that is not ready yet.
PollOn(answer) == answer = "yes" \/ cancelled

\* WaitInstanceIsRunning leaves its loop; otherwise it looks again after a second.
WaitIsOver(answer) == answer \in {"yes", "error"}

WaitInstanceIsRunning ==
  /\ call = "waitRunning"
  /\ \E answer \in {"yes", "no", "error"} :
       /\ Looked(answer)
       /\ WaitIsOver(answer)
       /\ Return("waitRunning", answer = "yes", 0)
  /\ UNCHANGED <<state, cluster, waiter, cancelled, panic, overlap>>

\* WaitInstanceIsStopped leaves its loop at any answer but "running": an error of
\* the lookup is never returned, since "running" is false then.
WaitInstanceIsStopped ==
  /\ call = "waitStopped"
  /\ \E answer \in {"no", "error"} : Looked(answer)
  /\ Return("waitStopped", TRUE, 0)
  /\ UNCHANGED <<state, cluster, waiter, cancelled, panic, overlap>>

\* The test calls one of them.
Wait ==
  /\ call = "idle"
  /\ \/ state = "Started" /\ Enter("waitRunning")
     \/ state = "Stopped" /\ Enter("waitStopped")
  /\ UNCHANGED <<state, cluster, waiter, cancelled, panic, overlap, faults>>

\* The goroutine of StartWithCallback: the check of the state, the loop, the callback.
WaiterBegin(g) ==
  /\ waiter[g] = "begin"
  /\ waiter' = [waiter EXCEPT ![g] = IF state = "Started" THEN "polling" ELSE "gaveUp"]
  /\ UNCHANGED <<state, cluster, call, result, cancelled, panic, overlap, faults>>

WaiterPoll(g) ==
  /\ waiter[g] = "polling"
  /\ \E answer \in {"yes", "no", "error"} :
       /\ Looked(answer)
       /\ WaitIsOver(answer)
       /\ waiter' = [waiter EXCEPT ![g] = IF answer = "yes" THEN "running" ELSE "gaveUp"]
  /\ UNCHANGED <<state, cluster, call, result, cancelled, panic, overlap>>

Callback(g) ==
  /\ waiter[g] = "running"
  /\ waiter' = [waiter EXCEPT ![g] = "called"]
  /\ UNCHANGED <<state, cluster, call, result, cancelled, panic, overlap, faults>>

StartWithCallback(g) == WaiterBegin(g) \/ WaiterPoll(g) \/ Callback(g)

-----------------------------------------------------------------------------
(* Commands, logs, the address and the forwarding of a port begin with the pod *)

\* Whose replica set is looked up: a sidecar runs in its parent's pod, which
\* ExecuteCommand and Logs know, for sidecars that are marked, and GetEphemeralIP and
\* PortForwardTCP do not.
ReplicaSetOf(op, part) ==
  IF part = "main" \/ (part = "sidecar" /\ op \in {"command", "logs"}) THEN replicaSet ELSE 0

\* Mutant: the pods are listed although there is no replica set.
AnyPod(op, part) == {g \in Gens : pods[g] \in Up}

\* GetFirstPodFromReplicaSet lists by the labels, which all starts of an instance
\* share; without a replica set it returns no pod (0) and no error.
GetFirstPodFromReplicaSet(op, part) ==
  IF ReplicaSetOf(op, part) = 0 THEN {0} ELSE {g \in Gens : pods[g] \in Up}

\* Mutant: commands are accepted by an instance that is stopped or destroyed.
AddressableAnytime(op) == state # "Committed"

\* Logs has no check of the state.
Addressable(op) == op = "logs" \/ state = "Started"

\* The pod is looked up and used.  Without a pod, or when the command or the call
\* fails, the error is returned; a pod that is nil is dereferenced.  (That the pod ends
\* between the lookup and the use is a failure of the use.)
Address(op, part) ==
  /\ call = "idle"
  /\ ~cancelled
  /\ Addressable(op)
  /\ \/ Return(op, FALSE, 0) /\ UNCHANGED panic
     \/ \E g \in GetFirstPodFromReplicaSet(op, part) :
          /\ Return(op, g # 0, g)
          /\ panic' = IF g = 0 THEN Panic(op, part) ELSE panic
  /\ UNCHANGED <<state, cluster, waiter, cancelled, overlap, faults>>

ExecuteCommand(part) == Address("command", part)

Logs(part) == Address("logs", part)

GetEphemeralIP(part) == Address("address", part)

\* As far as the pod; module PortForward goes on from there.
PortForwardTCP(part) == Address("forward", part)

-----------------------------------------------------------------------------
(* The cluster *)

PodReady(g) ==
  /\ pods[g] = "pending"
  /\ pods' = [pods EXCEPT ![g] = "ready"]
  /\ seenReady' = seenReady \cup {g}
  /\ UNCHANGED <<replicaSet, status, starts, flaps>>

PodUnready(g) ==
  /\ pods[g] = "ready"
  /\ flaps < MaxFlaps
  /\ flaps' = flaps + 1
  /\ pods' = [pods EXCEPT ![g] = "pending"]
  /\ UNCHANGED <<replicaSet, status, starts, seenReady>>

\* The garbage collector deletes the pod of a replica set that is gone, and the pod
\* takes its grace period to end.
PodEnds(g) ==
  /\ g # replicaSet
  /\ \/ pods[g] \in {"pending", "ready"} /\ pods' = [pods EXCEPT ![g] = "terminating"]
     \/ pods[g] = "terminating" /\ pods' = [pods EXCEPT ![g] = "gone"]
  /\ UNCHANGED <<replicaSet, status, starts, seenReady, flaps>>

UpdateStatus ==
  /\ replicaSet # 0
  /\ status # (pods[replicaSet] = "ready")
  /\ status' = ~status
  /\ UNCHANGED <<replicaSet, pods, starts, seenReady, flaps>>

Kubelet(g) == PodReady(g) \/ PodEnds(g)

Unchanged == UNCHANGED <<state, call, result, waiter, cancelled, panic, overlap, faults>>

\* The context of the test is cancelled, or its deadline passes.
Cancel ==
  /\ ~cancelled
  /\ cancelled' = TRUE
  /\ UNCHANGED <<state, cluster, call, result, waiter, panic, overlap, faults>>

-----------------------------------------------------------------------------

\* The test begins a call.
Begin ==
  \/ StartAsync \/ StartFails \/ Stop \/ Destroy \/ Wait
  \/ \E part \in Parts :
       ExecuteCommand(part) \/ Logs(part) \/ GetEphemeralIP(part) \/ PortForwardTCP(part)

\* The call goes on.
Step ==
  \/ Destroyed \/ DestroyFails
  \/ WaitInstanceIsRunning \/ WaitInstanceIsStopped

Cluster == UpdateStatus \/ \E g \in Gens : Kubelet(g) \/ PodUnready(g)

Next ==
  /\ panic = NoPanic
  /\ \/ Begin \/ Step \/ Cancel
     \/ \E g \in Gens : StartWithCallback(g)
     \/ Cluster /\ Unchanged

\* A call that has begun goes on, and so does a goroutine of StartWithCallback.  Pods
\* become ready and end, and the status of a replica set follows its pod.  Nothing is
\* assumed of the test.
Fairness ==
  /\ WF_vars(panic = NoPanic /\ Step)
  /\ \A g \in Gens : WF_vars(panic = NoPanic /\ StartWithCallback(g))
  /\ \A g \in Gens : WF_vars(panic = NoPanic /\ Kubelet(g) /\ Unchanged)
  /\ WF_vars(panic = NoPanic /\ UpdateStatus /\ Unchanged)

Spec == Init /\ [][Next]_vars /\ Fairness

-----------------------------------------------------------------------------
(* Properties *)

\* WaitInstanceIsRunning, Stop and Destroy return, and the goroutine of
\* StartWithCallback ends, although the instance is stopped, restarted or destroyed
\* under it and lookups fail.  (A stopped instance whose failed start
\* left a replica set is the exception: WaitInstanceIsStopped waits for its pod.)
CallsReturn ==
  /\ (call # "idle" /\ call # "waitStopped") ~> (call = "idle" \/ panic # NoPanic)
  /\ \A g \in Gens :
       waiter[g] = "begin" ~> (waiter[g] \in {"called", "gaveUp"} \/ panic # NoPanic)

\* The callback runs only when a pod of its start, or of a later start, has been ready:
\* neither the pod of an earlier start nor a replica set without a pod is enough.
CallbackMeansReady ==
  \A g \in Gens : waiter[g] = "called" => \E h \in seenReady : h >= g

\* A nil pod is dereferenced in four cases only: the logs of an instance that has no
\* pod, anything of a cloned sidecar, the address or a port of a sidecar, and a started
\* instance whose Stop or Destroy failed after it had deleted the replica set.
PanicNeedsFailure ==
  panic # NoPanic =>
    \/ panic.op = "logs"
    \/ panic.part = "clonedSidecar"
    \/ panic.part = "sidecar" /\ panic.op \in {"address", "forward"}
    \/ state = "Started" /\ faults > 0

\* A command runs in the pod of another start than the current one only if the
\* instance was started before its old pod had ended.
StalePodNeedsOverlap ==
  result.op = "command" /\ result.pod # replicaSet => overlap

\* WaitInstanceIsStopped "waits until the instance is not running anymore".  It does
\* not wait for the pod, which the garbage collector ends later; but a pod that is left
\* has lost its replica set, so that it will end, unless a call has failed.
StoppedPodWillEnd ==
  result.op = "waitStopped" /\ faults = 0 =>
    \A g \in Gens : pods[g] \in Up => g # replicaSet
=============================================================================
