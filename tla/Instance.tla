------------------------------ MODULE Instance ------------------------------
(***************************************************************************)
(* The life of an instance (pkg/instance): how a test prepares, starts,    *)
(* stops and destroys it, and which objects its handlers leave in the      *)
(* cluster.                                                                *)
(*                                                                         *)
(* StartAsync, Stop and Destroy make their API calls one by one.  Each of  *)
(* them is a list of SCRIPTS (deployResources, deployPod, destroyPod, ...) *)
(* that are walked call by call, so that any call can be refused by the    *)
(* API server or fail on its way, and leave the handler half done.  Every  *)
(* other operation changes the instance only, in one step.                 *)
(*                                                                         *)
(* An instance and its sidecars (its family) are driven by one goroutine   *)
(* of the test; different families run concurrently.                       *)
(***************************************************************************)
EXTENDS Integers, Sequences, FiniteSets, K8s

CONSTANTS
  Mains,          \* instances made by the test
  Sidecars,       \* instances made by Sidecars().Add
  Shapers,        \* the sidecars whose PreStart adds a proxy host (NetShaper)
  Ports,          \* the ports an instance may expose
  MaxTotalFiles,  \* maxTotalFilesBytes, in files of one unit each
  MaxEdits,       \* bound: changes of settings and sidecars added, over all instances
  MaxFaults       \* bound: API calls that fail on their way

Inst == Mains \cup Sidecars

ASSUME FamilyAssumption ==
  /\ Mains \cap Sidecars = {}
  /\ Shapers \subseteq Sidecars

ASSUME BoundAssumption ==
  /\ MaxTotalFiles \in Nat
  /\ MaxEdits \in Nat
  /\ MaxFaults \in Nat

VARIABLES
  state,     \* Instance.state
  sidecars,  \* sidecars.sidecars: those added to the instance, in order
  volume,    \* len(storage.volumes) > 0 (at most one is accepted)
  files,     \* len(storage.files)
  rules,     \* len(security.policyRules) > 0
  ports,     \* network.portsTCP and portsUDP
  rev,       \* number of changes made to the other settings of the pod
  unguarded, \* number of changes made to those without a state check
  flaws,     \* flaws[i]: the kinds of i's objects that cannot be created as they are set
  service,   \* network.kubernetesService # nil
  objs,      \* the objects that exist in the cluster, as <<kind, instance>>
  mounted,   \* mounted[i]: the number of files in i's config map
  exposed,   \* exposed[i]: the ports of i's service
  podSpec,   \* podSpec[i]: the pod i's replica set runs
  call,      \* call[i]: where the handler running on i is
  result,    \* result[i]: how the last operation on i was refused
  refused,   \* the instances whose pod was refused as invalid, half deployed
  edits,     \* number of changes of settings and sidecars added so far
  faults     \* number of API calls that have failed on their way

settings == <<volume, files, rules, ports, rev, unguarded, flaws>>
cluster  == <<objs, mounted, exposed, podSpec>>
vars == <<state, sidecars, settings, service, cluster, call, result, refused, edits, faults>>

-----------------------------------------------------------------------------
(* Types and shorthands *)

States == {"None", "Preparing", "Committed", "Started", "Stopped", "Destroyed"}

\* The states in which most settings may be changed.
Configurable == {"Preparing", "Committed", "Stopped"}

Objects == Kinds \X Inst

Idle == [op |-> "idle", stage |-> 0, step |-> 1]

\* The handler op at its first call of the given stage.
At(op, stage) == [op |-> op, stage |-> stage, step |-> 1]

\* The last operation was not refused.
Ok == [op |-> "idle", err |-> "ok", kind |-> "none"]

Failure(op, err, kind) == [op |-> op, err |-> err, kind |-> kind]

Attached(i) == {sidecars[i][q] : q \in 1..Len(sidecars[i])}

Family(i) == {i} \cup Attached(i)

\* No handler is running on i's family: its goroutine is free for another call.
Free(i) ==
  \A j \in Inst :
    (j = i \/ \E m \in Mains : {i, j} \subseteq Family(m)) => call[j] = Idle

Templates == [volume : BOOLEAN, files : 0..MaxTotalFiles,
              ports : SUBSET Ports, rev : Nat]

Pods == [main : Templates, unguarded : Nat, sidecars : Seq(Templates)]

\* The kinds whose creation a setting can make invalid.
Fallible == {"PersistentVolumeClaim", "Role", "ReplicaSet"}

Ops == {"idle", "start", "stop", "destroy"}

Calls == [op : Ops, stage : Nat, step : Nat \ {0}]

Results == [op : Ops, err : {"ok", "exists", "missing", "invalid", "state"},
            kind : Kinds \cup {"none"}]

Template(i) == [volume |-> volume[i], files |-> files[i],
                ports |-> ports[i], rev |-> rev[i]]

\* prepareReplicaSetConfig: the pod that the replica set runs.  The pull policy and
\* the type (a label) are those of the instance: a sidecar's are not in the pod.
PodTemplate(i) ==
  [main  |-> Template(i),
   unguarded |-> unguarded[i],
   sidecars |-> [q \in 1..Len(sidecars[i]) |-> Template(sidecars[i][q])]]

\* The pod of a replica set that was never created.
NoPod == [main |-> [volume |-> FALSE, files |-> 0, ports |-> {}, rev |-> 0],
          unguarded |-> 0, sidecars |-> <<>>]

SettingsTypeOK ==
  /\ state \in [Inst -> States]
  /\ sidecars \in [Inst -> Seq(Sidecars)]
  /\ volume \in [Inst -> BOOLEAN]
  /\ files \in [Inst -> 0..MaxTotalFiles]
  /\ rules \in [Inst -> BOOLEAN]
  /\ ports \in [Inst -> SUBSET Ports]
  /\ rev \in [Inst -> Nat]
  /\ unguarded \in [Inst -> Nat]
  /\ flaws \in [Inst -> SUBSET Fallible]
  /\ edits \in 0..MaxEdits

ClusterTypeOK ==
  /\ service \in [Inst -> BOOLEAN]
  /\ objs \subseteq Objects
  /\ mounted \in [Inst -> 0..MaxTotalFiles]
  /\ exposed \in [Inst -> SUBSET Ports]
  /\ podSpec \in [Inst -> Pods]
  /\ faults \in 0..MaxFaults

ControlTypeOK ==
  /\ call \in [Inst -> Calls]
  /\ result \in [Inst -> Results]
  /\ refused \subseteq Inst

\* The variables have the types of the fields and objects they stand for; the
\* files of an instance, in particular, stay within maxTotalFilesBytes.
TypeOK == SettingsTypeOK /\ ClusterTypeOK /\ ControlTypeOK

\* instance.New
Init ==
  /\ state = [i \in Inst |-> "None"]
  /\ sidecars = [i \in Inst |-> <<>>]
  /\ volume = [i \in Inst |-> FALSE]
  /\ files = [i \in Inst |-> 0]
  /\ rules = [i \in Inst |-> FALSE]
  /\ ports = [i \in Inst |-> {}]
  /\ rev = [i \in Inst |-> 0]
  /\ unguarded = [i \in Inst |-> 0]
  /\ flaws = [i \in Inst |-> {}]
  /\ service = [i \in Inst |-> FALSE]
  /\ objs = {}
  /\ mounted = [i \in Inst |-> 0]
  /\ exposed = [i \in Inst |-> {}]
  /\ podSpec = [i \in Inst |-> NoPod]
  /\ call = [i \in Inst |-> Idle]
  /\ result = [i \in Inst |-> Ok]
  /\ refused = {}
  /\ edits = 0
  /\ faults = 0

-----------------------------------------------------------------------------
(* Building the image *)

\* A new operation on i begins.
Begins(i) == result' = [result EXCEPT ![i] = Ok]

SetState(S, st) == state' = [i \in Inst |-> IF i \in S THEN st ELSE state[i]]

\* A sidecar is made by Sidecars().Add, so the test has none to prepare before.
SetImage(i) ==
  /\ state[i] \in {"None", "Preparing", "Stopped"}
  /\ i \in Sidecars => state[i] # "None"
  /\ Free(i)
  /\ SetState({i}, "Preparing")
  /\ Begins(i)
  /\ UNCHANGED <<sidecars, settings, service, cluster, call, refused, edits, faults>>

\* Preparing is set before the build: a failed build leaves it set too.
SetGitRepo(i) ==
  /\ i \in Mains
  /\ state[i] = "None"
  /\ Free(i)
  /\ SetState({i}, "Preparing")
  /\ Begins(i)
  /\ UNCHANGED <<sidecars, settings, service, cluster, call, refused, edits, faults>>

Commit(i) ==
  /\ state[i] = "Preparing"
  /\ Free(i)
  /\ SetState({i}, "Committed")
  /\ Begins(i)
  /\ UNCHANGED <<sidecars, settings, service, cluster, call, refused, edits, faults>>

-----------------------------------------------------------------------------
(* Changing the settings *)

Edit(i) ==
  /\ edits < MaxEdits
  /\ Free(i)
  /\ edits' = edits + 1
  /\ Begins(i)
  /\ UNCHANGED <<state, sidecars, service, cluster, call, refused, faults>>

\* A new value of a setting may make the pod invalid (a memory request above the
\* limit, a relative mount path), or correct the one that did.
Flaw(i, kind) ==
  flaws' \in {[flaws EXCEPT ![i] = @ \cup {kind}], [flaws EXCEPT ![i] = @ \ {kind}]}

\* A setting of the pod.
Set(i) ==
  /\ Edit(i)
  /\ rev' = [rev EXCEPT ![i] = @ + 1]
  /\ Flaw(i, "ReplicaSet")
  /\ UNCHANGED <<volume, files, rules, ports, unguarded>>

\* A setting of the pod that is changed in any state (a sidecar's is not in the pod).
SetUnguarded(i) ==
  /\ i \in Mains
  /\ Edit(i)
  /\ unguarded' = [unguarded EXCEPT ![i] = @ + 1]
  /\ UNCHANGED <<volume, files, rules, ports, rev>>

SetImagePullPolicy(i) == SetUnguarded(i) /\ Flaw(i, "ReplicaSet")

SetInstanceType(i) == SetUnguarded(i) /\ UNCHANGED flaws

SetStartCommand(i) == state[i] \in Configurable /\ Set(i)

SetArgs(i) == state[i] \in Configurable /\ Set(i)

\* In state Preparing the variable goes into the image instead.
SetEnvironmentVariable(i) == state[i] \in Configurable \ {"Preparing"} /\ Set(i)

SetNodeSelector(i) == state[i] \in {"Preparing", "Committed"} /\ Set(i)

\* Mutant: SetMemory without its state check.
SetMemoryAnytime(i) == Set(i)

SetMemory(i) == state[i] \in Configurable /\ Set(i)

SetCPU(i) == state[i] \in Configurable /\ Set(i)

SetPrivileged(i) == state[i] \in Configurable /\ Set(i)

AddKubernetesCapability(i) == state[i] \in Configurable /\ Set(i)

AddKubernetesCapabilities(i) == state[i] \in Configurable /\ Set(i)

checkStateForProbe(i) == state[i] \in Configurable

SetLivenessProbe(i) == checkStateForProbe(i) /\ Set(i)

SetReadinessProbe(i) == checkStateForProbe(i) /\ Set(i)

SetStartupProbe(i) == checkStateForProbe(i) /\ Set(i)

\* Rules and volumes are only appended: an invalid one (a rule without verbs, a
\* volume of size zero) stays.
MayFlaw(i, kind) == flaws' \in {flaws, [flaws EXCEPT ![i] = @ \cup {kind}]}

AddPolicyRule(i) ==
  /\ state[i] \in Configurable
  /\ Edit(i)
  /\ rules' = [rules EXCEPT ![i] = TRUE]
  /\ MayFlaw(i, "Role")
  /\ UNCHANGED <<volume, files, ports, rev, unguarded>>

AddVolumeWithOwner(i) ==
  /\ state[i] \in Configurable
  /\ ~volume[i]
  /\ Edit(i)
  /\ volume' = [volume EXCEPT ![i] = TRUE]
  /\ MayFlaw(i, "PersistentVolumeClaim")
  /\ UNCHANGED <<files, rules, ports, rev, unguarded>>

\* Mutant: only the new file is compared with the limit.
AddFileUnbounded(i, n) == files' = [files EXCEPT ![i] = @ + n]

\* n files are appended unless the total gets too large.
addFileToInstance(i, n) ==
  /\ files[i] + n <= MaxTotalFiles
  /\ files' = [files EXCEPT ![i] = @ + n]

\* AddFile and AddFileBytes; in state Preparing the file goes into the image.
AddFile(i) ==
  /\ state[i] \in Configurable \ {"Preparing"}
  /\ Edit(i)
  /\ addFileToInstance(i, 1)
  /\ UNCHANGED <<volume, rules, ports, rev, unguarded, flaws>>

\* Walks the folder with AddFile; the files before the first refusal stay.
AddFolder(i) ==
  /\ state[i] \in Configurable \ {"Preparing"}
  /\ Edit(i)
  /\ \E n \in 1..MaxTotalFiles : addFileToInstance(i, n)
  /\ UNCHANGED <<volume, rules, ports, rev, unguarded, flaws>>

\* AddPortTCP and AddPortUDP
AddPort(i, p) ==
  /\ state[i] \in Configurable
  /\ p \notin ports[i]
  /\ Edit(i)
  /\ ports' = [ports EXCEPT ![i] = @ \cup {p}]
  /\ UNCHANGED <<volume, files, rules, rev, unguarded, flaws>>

-----------------------------------------------------------------------------
(* Adding a sidecar: what each kind of sidecar sets up in Initialize *)

InitNetShaper(s) ==
  /\ s \in Shapers
  /\ \E p \in Ports : ports' = [ports EXCEPT ![s] = {p}]
  /\ UNCHANGED <<volume, files, rules, rev, unguarded, flaws>>

InitObsy(s) ==
  /\ s \notin Shapers
  /\ \E p, q \in Ports : p # q /\ ports' = [ports EXCEPT ![s] = {p, q}]
  /\ addFileToInstance(s, 1)
  /\ UNCHANGED <<volume, rules, rev, unguarded, flaws>>

InitTshark(s) ==
  /\ s \notin Shapers
  /\ volume' = [volume EXCEPT ![s] = TRUE]
  /\ UNCHANGED <<files, rules, ports, rev, unguarded, flaws>>

\* That a sidecar cannot have sidecars is found out after Initialize: the new
\* sidecar exists then, but is not attached.
AddSidecar(i, s) ==
  /\ edits < MaxEdits
  /\ state[i] \in Configurable
  /\ state[s] = "None"
  /\ Free(i)
  /\ edits' = edits + 1
  /\ InitNetShaper(s) \/ InitObsy(s) \/ InitTshark(s)
  /\ SetState({s}, "Committed")
  /\ sidecars' = IF i \in Mains THEN [sidecars EXCEPT ![i] = Append(@, s)] ELSE sidecars
  /\ Begins(i)
  /\ UNCHANGED <<service, cluster, call, refused, faults>>

-----------------------------------------------------------------------------
(* The scripts: the API calls of each function, in order *)

deployResources == <<DeployOrPatchService, CreatePersistentVolumeClaim, CreateOrUpdateConfigMap>>

\* PreStart of a NetShaper, and deployResources of any sidecar, which has no
\* service of its own.
deploySidecar == <<CreateMiddleware, CreateIngressRoute,
                   CreatePersistentVolumeClaim, CreateOrUpdateConfigMap>>

deployPod == <<CreateServiceAccount, CreateRole, CreateRoleBinding, CreateReplicaSet>>

\* Mutants: the account goes before the pod, stays, or the binding or the claim is
\* treated differently.
DestroyAccountFirst == <<DeleteServiceAccount, DeleteReplicaSet, DeleteRole, DeleteRoleBinding>>
DestroyKeepsAccount == <<DeleteReplicaSet, DeleteRole, DeleteRoleBinding>>
DestroyKeepsBinding == <<DeleteReplicaSet, DeleteServiceAccount, DeleteRole>>
DestroyDropsClaim == <<DeleteReplicaSet, DeleteServiceAccount, DeletePersistentVolumeClaim>>

destroyPod == <<DeleteReplicaSet, DeleteServiceAccount, DeleteRole, DeleteRoleBinding>>

\* Mutant: a disabled network is not enabled again.
DestroyKeepsPolicy == <<DeletePersistentVolumeClaim, DeleteConfigMap, DeleteService>>

destroyResources == <<DeletePersistentVolumeClaim, DeleteConfigMap, DeleteService, EnableIfDisabled>>

\* Mutant: Destroy forgets the resources of the sidecars.
LastStageOwn(i) ==
  IF call[i].op = "stop" THEN 0
  ELSE IF call[i].op = "destroy" THEN 1
  ELSE Len(sidecars[i]) + 1

\* The last stage of the handler that runs on i.  A start deploys the resources
\* of the family (stages 0..n), then the pod; a destroy removes the pod, then
\* the resources of the family.
LastStage(i) == IF call[i].op = "stop" THEN 0 ELSE Len(sidecars[i]) + 1

Script(i) ==
  IF call[i].op = "start"
  THEN IF call[i].stage = 0 THEN deployResources
       ELSE IF call[i].stage <= Len(sidecars[i]) THEN deploySidecar
       ELSE deployPod
  ELSE IF call[i].stage = 0 THEN destroyPod ELSE destroyResources

\* The member of the family whose objects the current stage is about.
Subject(i) ==
  LET q == IF call[i].op = "destroy" THEN call[i].stage - 1 ELSE call[i].stage
  IN  IF q \in 1..Len(sidecars[i]) THEN sidecars[i][q] ELSE i

Running(i) == call[i].op # "idle"

AtCall(i) == Running(i) /\ call[i].step <= Len(Script(i))

Current(i) == Script(i)[call[i].step]

\* The ports of the instance and its sidecars, which share one service.
FamilyPorts(i) == UNION {ports[j] : j \in Family(i)}

\* Two members of the family expose the same port.  AddPortTCP only compares
\* a port with those of its own instance.
PortsCollide(i) ==
  \E j, k \in Family(i) : j # k /\ ports[j] \cap ports[k] # {}

\* The conditions under which a function makes call c for x at all.
Needed(c, x) ==
  /\ c = DeployOrPatchService => FamilyPorts(x) # {}
  /\ c = DeleteService => service[x]
  /\ c.kind = "PersistentVolumeClaim" => volume[x]
  /\ c.kind = "ConfigMap" => files[x] > 0
  /\ c.kind \in {"Role", "RoleBinding"} => rules[x]
  /\ c.kind \in {"Middleware", "IngressRoute"} => x \in Shapers
  /\ c.kind = "NetworkPolicy" => x \notin Sidecars

\* AddHost, which PreStart calls, checks the sidecar's state.
AddHostAllowed(x) == state[x] \in {"Started", "Preparing", "Committed"}

\* IsDisabled, which enableIfDisabled calls, checks the instance's state.
IsDisabledAllowed(x) == state[x] = "Started"

\* The checks an instance makes before it calls the API server.
Allowed(c, x) ==
  /\ c.kind = "Middleware" => AddHostAllowed(x)
  /\ c.kind = "NetworkPolicy" => IsDisabledAllowed(x)

Exists(c, x) == <<c.kind, x>> \in objs

\* The validators of the client, or those of the API server, refuse call c for x.
\* Both come before the server looks whether the object is there.
Invalid(c, x) ==
  \/ c = DeployOrPatchService /\ PortsCollide(x)
  \/ c = CreatePersistentVolumeClaim /\ c.kind \in flaws[x] /\ ~Exists(c, x)
  \/ c = CreateRole /\ c.kind \in flaws[x]
  \/ c = CreateReplicaSet /\ \E j \in Family(x) : flaws[j] \ {"Role"} # {}

\* The answer to call c for x: "ok", or why it fails.
Answer(c, x) ==
  IF ~Allowed(c, x) THEN "state"
  ELSE IF Invalid(c, x) THEN "invalid"
  ELSE Conflict(c, Exists(c, x))

-----------------------------------------------------------------------------
(* StartAsync, Stop and Destroy *)

Enter(i, op, stage) ==
  /\ Free(i)
  /\ call' = [call EXCEPT ![i] = At(op, stage)]
  /\ Begins(i)
  /\ UNCHANGED <<state, sidecars, settings, service, cluster, refused, edits, faults>>

\* Mutant: the states of the sidecars are not looked at.
SidecarsUnverified(i) == i \in Inst

verifySidecarsStates(i) == \A s \in Attached(i) : state[s] \in {"Committed", "Stopped"}

\* The resources are deployed in state Committed only.
StartAsync(i) ==
  /\ state[i] \in {"Committed", "Stopped"}
  /\ verifySidecarsStates(i)
  /\ i \notin Sidecars
  /\ Enter(i, "start", IF state[i] = "Committed" THEN 0 ELSE Len(sidecars[i]) + 1)

Stop(i) == state[i] = "Started" /\ Enter(i, "stop", 0)

Destroy(i) == state[i] \in {"Started", "Stopped"} /\ Enter(i, "destroy", 0)

Advance(i) == call' = [call EXCEPT ![i].step = @ + 1]

\* f, the contents of the objects of a kind, after call c for x.
Write(f, c, kind, x, contents, none) ==
  [f EXCEPT ![x] = IF c.kind # kind THEN @
                   ELSE IF Writes(c, Exists(c, x)) THEN contents
                   ELSE IF Leaves(c) THEN @ ELSE none]

\* What the API server does when call c for x gets through.
Effect(c, x) ==
  /\ objs' = IF Leaves(c) THEN objs \cup {<<c.kind, x>>} ELSE objs \ {<<c.kind, x>>}
  /\ mounted' = Write(mounted, c, "ConfigMap", x, files[x], 0)
  /\ exposed' = Write(exposed, c, "Service", x, FamilyPorts(x), {})
  /\ podSpec' = Write(podSpec, c, "ReplicaSet", x, PodTemplate(x), NoPod)

Fail(i, err) ==
  /\ call' = [call EXCEPT ![i] = Idle]
  /\ result' = [result EXCEPT ![i] = Failure(call[i].op, err, Current(i).kind)]

Skip(i) ==
  /\ AtCall(i)
  /\ ~Needed(Current(i), Subject(i))
  /\ Advance(i)
  /\ UNCHANGED <<state, sidecars, settings, service, cluster, result, refused, edits, faults>>

\* The call succeeds; the client keeps the service it has written.
CallOk(i) ==
  LET c == Current(i)
      x == Subject(i)
  IN  /\ AtCall(i)
      /\ Needed(c, x)
      /\ Answer(c, x) = "ok"
      /\ Effect(c, x)
      /\ service' = IF c = DeployOrPatchService THEN [service EXCEPT ![x] = TRUE] ELSE service
      /\ Advance(i)
      /\ UNCHANGED <<state, sidecars, settings, result, refused, edits, faults>>

\* The call is refused, and the handler returns the error.
CallRefused(i) ==
  LET c == Current(i)
      x == Subject(i)
  IN  /\ AtCall(i)
      /\ Needed(c, x)
      /\ Answer(c, x) # "ok"
      /\ Fail(i, Answer(c, x))
      /\ refused' = IF Script(i) = deployPod /\ Answer(c, x) = "invalid"
                    THEN refused \cup {i} ELSE refused
      /\ UNCHANGED <<state, sidecars, settings, service, cluster, edits, faults>>

\* The call fails on its way (timeout, connection, cancelled context), before or
\* after the API server has carried it out, and the handler returns the error.
CallFault(i) ==
  LET c == Current(i)
      x == Subject(i)
  IN  /\ AtCall(i)
      /\ Needed(c, x)
      /\ Allowed(c, x)
      /\ c = CreateRole => ~Invalid(c, x)  \* validatePolicyRules: no call is made
      /\ faults < MaxFaults
      /\ faults' = faults + 1
      /\ \/ Answer(c, x) = "ok" /\ Effect(c, x)
         \/ UNCHANGED cluster
      /\ call' = [call EXCEPT ![i] = Idle]
      /\ UNCHANGED <<state, sidecars, settings, service, result, refused, edits>>

\* NetworkPolicyExists takes any error for "does not exist".
LookupFault(i) ==
  /\ AtCall(i)
  /\ Current(i).verb = "restore"
  /\ Needed(Current(i), Subject(i))
  /\ Allowed(Current(i), Subject(i))
  /\ faults < MaxFaults
  /\ faults' = faults + 1
  /\ Advance(i)
  /\ UNCHANGED <<state, sidecars, settings, service, cluster, result, refused, edits>>

NextStage(i) ==
  /\ Running(i)
  /\ ~AtCall(i)
  /\ call[i].stage < LastStage(i)
  /\ call' = [call EXCEPT ![i] = At(call[i].op, call[i].stage + 1)]
  /\ UNCHANGED <<state, sidecars, settings, service, cluster, result, refused, edits, faults>>

\* The state a handler that returns without an error leaves behind.
Outcome(op) ==
  IF op = "start" THEN "Started" ELSE IF op = "stop" THEN "Stopped" ELSE "Destroyed"

\* Mutant: the sidecars do not follow.
setStateAlone(i, st) == SetState({i}, st)

\* SetState and setStateForSidecars
setStateForSidecars(i, st) == SetState(Family(i), st)

Return(i) ==
  /\ Running(i)
  /\ ~AtCall(i)
  /\ call[i].stage = LastStage(i)
  /\ setStateForSidecars(i, Outcome(call[i].op))
  /\ call' = [call EXCEPT ![i] = Idle]
  /\ UNCHANGED <<sidecars, settings, service, cluster, result, refused, edits, faults>>

Step(i) ==
  \/ Skip(i) \/ CallOk(i) \/ CallRefused(i) \/ CallFault(i) \/ LookupFault(i)
  \/ NextStage(i) \/ Return(i)

-----------------------------------------------------------------------------
(* Network().Disable and Enable: one call each.  A call that fails on its way *)
(* has its effect or has none, so it is not told apart from these.           *)

Network(i, c) ==
  /\ state[i] = "Started"
  /\ Free(i)
  /\ Conflict(c, Exists(c, i)) = "ok"
  /\ Effect(c, i)
  /\ Begins(i)
  /\ UNCHANGED <<state, sidecars, settings, service, call, refused, edits, faults>>

Disable(i) == Network(i, CreateNetworkPolicy)

Enable(i) == Network(i, DeleteNetworkPolicy)

-----------------------------------------------------------------------------

Build(i) == SetImage(i) \/ SetGitRepo(i) \/ Commit(i)

Configure(i) ==
  \/ SetStartCommand(i) \/ SetArgs(i) \/ SetEnvironmentVariable(i) \/ SetNodeSelector(i)
  \/ SetMemory(i) \/ SetCPU(i) \/ SetPrivileged(i)
  \/ AddKubernetesCapability(i) \/ AddKubernetesCapabilities(i)
  \/ SetLivenessProbe(i) \/ SetReadinessProbe(i) \/ SetStartupProbe(i)
  \/ SetImagePullPolicy(i) \/ SetInstanceType(i)
  \/ AddPolicyRule(i) \/ AddVolumeWithOwner(i) \/ AddFile(i) \/ AddFolder(i)
  \/ \E p \in Ports : AddPort(i, p)
  \/ \E s \in Sidecars : AddSidecar(i, s)

Next ==
  \E i \in Inst :
    \/ Build(i) \/ Configure(i)
    \/ StartAsync(i) \/ Stop(i) \/ Destroy(i) \/ Step(i)
    \/ Disable(i) \/ Enable(i)

Spec == Init /\ [][Next]_vars

-----------------------------------------------------------------------------
(* Properties *)

Owned(i, kinds) == {o \in objs : o[1] \in kinds /\ o[2] = i}

Has(i, kind) == <<kind, i>> \in objs

\* Destroy that returns without an error has removed everything Start created
\* for the instance and its sidecars, whatever was configured, restarted,
\* upgraded or failed before.
CleanAfterDestroy ==
  \A i \in Inst : state[i] = "Destroyed" => Owned(i, PodKinds \cup ResourceKinds) = {}

\* Destroy gives a disabled network back (enableIfDisabled), unless a call failed.
NetworkRestored ==
  \A m \in Mains : state[m] = "Destroyed" /\ faults = 0 => ~Has(m, "NetworkPolicy")

\* setStateForSidecars: a sidecar is up, or destroyed, exactly when the instance
\* it was added to is; a sidecar that was never attached is neither.
SidecarsFollowParent ==
  \A s \in Sidecars, st \in {"Started", "Destroyed"} :
    state[s] = st <=> \E m \in Mains : s \in Attached(m) /\ state[m] = st

\* The pod of a started instance is the one its settings describe: no setter with a
\* state check gets past it between prepareReplicaSetConfig and Stop.  The two without
\* one do: their values in the pod may be those of an earlier moment.
PodReflectsSettings ==
  \A m \in Mains :
    state[m] = "Started" /\ Has(m, "ReplicaSet") =>
      \E n \in 0..unguarded[m] : podSpec[m] = [PodTemplate(m) EXCEPT !.unguarded = n]

\* While its pod is there, a started instance has the service account the pod
\* runs as, and the role and the binding of its policy rules: destroyPod takes
\* the pod away first, even when one of its calls fails.
PodIsAuthorized ==
  \A m \in Mains :
    state[m] = "Started" /\ Has(m, "ReplicaSet") =>
      /\ Has(m, "ServiceAccount")
      /\ rules[m] => Has(m, "Role") /\ Has(m, "RoleBinding")

\* What a Start that runs into an object of an earlier one has met, as long as no call
\* fails on its way: the proxy's objects, which nothing deletes, or the account of a
\* Start that deployPod gave up because a rule or the pod was invalid.  That one is
\* in the way of every later Start, and never the role, the binding or the pod.
NoLeftovers ==
  \A m \in Mains :
    faults = 0 /\ result[m].op = "start" /\ result[m].err = "exists" =>
      \/ result[m].kind \in {"Middleware", "IngressRoute"}
      \/ result[m].kind = "ServiceAccount" /\ m \in refused

\* Stop leaves nothing of the pod behind, so that Start can create it anew, unless
\* that Start is refused half way; even then there is no pod.
StoppedHasNoPod ==
  \A m \in Mains :
    state[m] = "Stopped" /\ call[m] = Idle /\ faults = 0 =>
      Owned(m, PodKinds) = {} \/ (m \in refused /\ ~Has(m, "ReplicaSet"))

\* All the pod of m refers to is in the cluster: the claims of its volumes, the
\* config maps with all of its files, the service with all of its ports.
Resolvable(m) ==
  /\ \A j \in Family(m) :
       /\ volume[j] => Has(j, "PersistentVolumeClaim")
       /\ files[j] > 0 => Has(j, "ConfigMap") /\ mounted[j] = files[j]
  /\ FamilyPorts(m) # {} => Has(m, "Service") /\ exposed[m] = FamilyPorts(m)

\* Start of a committed instance deploys all that the pods refer to, of the
\* instance and of each sidecar, also after an image upgrade or a failed Start.
StartDeploysAll ==
  [][\A m \in Mains : state[m] = "Committed" /\ state'[m] = "Started" => Resolvable(m)']_vars

\* Stop keeps the data of an instance with a volume: only Destroy, of the
\* instance or of the instance it is a sidecar of, deletes a claim.
OnlyDestroyLosesData ==
  [][\A i \in Inst :
       Has(i, "PersistentVolumeClaim") /\ ~Has(i, "PersistentVolumeClaim")' =>
         \E m \in Mains : i \in Family(m) /\ call[m].op = "destroy"]_vars

\* Start of a stopped or an upgraded instance meets nothing that an earlier start left,
\* and no sidecar in the wrong state, unless a call has failed before, an earlier Start
\* was refused half way, or a sidecar is a NetShaper: AddHost refuses that one in state
\* Stopped, and nobody deletes its objects.
RestartsWork ==
  \A m \in Mains :
    (result[m].op = "start" /\ result[m].err \in {"exists", "state"})
      => faults > 0 \/ m \in refused \/ Family(m) \cap Shapers # {}

Abstract ==
  INSTANCE Lifecycle WITH Mains <- Mains, Sidecars <- Sidecars, state <- state, sidecars <- sidecars

\* The handlers implement the life cycle of module Lifecycle.
ImplementsLifecycle == Abstract!LSpec

-----------------------------------------------------------------------------
(* What comments of the code say, and the code does not do *)

\* execution.go, destroyPod: "Skips if the pod is already destroyed".
DestroySkipsDestroyedPod ==
  \A m \in Mains :
    result[m].op = "destroy" /\ result[m].err = "missing" => result[m].kind \notin PodKinds
=============================================================================
