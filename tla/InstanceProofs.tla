--------------------------- MODULE InstanceProofs ---------------------------
(***************************************************************************)
(* Proofs about module Instance, for any instances, ports and bounds: its  *)
(* types, the parts of its inductive invariant, why the steps preserve     *)
(* each of them, and what follows.                                         *)
(***************************************************************************)
EXTENDS Instance, TLAPS

-----------------------------------------------------------------------------
(* Type correctness *)

\* A sidecar is an instance, and so is the subject of every call.
LEMMA SubjectType ==
  ASSUME SettingsTypeOK, NEW i \in Inst
  PROVE  /\ Len(sidecars[i]) \in Nat
         /\ \A q \in 1..Len(sidecars[i]) : sidecars[i][q] \in Sidecars /\ sidecars[i][q] \in Inst
         /\ Subject(i) \in Inst
<1>1. sidecars[i] \in Seq(Sidecars) /\ Sidecars \subseteq Inst
  BY DEF SettingsTypeOK, Inst
<1>2. /\ Len(sidecars[i]) \in Nat
      /\ \A q \in 1..Len(sidecars[i]) : sidecars[i][q] \in Sidecars /\ sidecars[i][q] \in Inst
  BY <1>1
<1> QED BY <1>2 DEF Subject

\* What prepareReplicaSetConfig returns is a pod.
LEMMA PodTemplateType ==
  ASSUME SettingsTypeOK, NEW i \in Inst
  PROVE  PodTemplate(i) \in Pods
<1>1. \A j \in Inst : Template(j) \in Templates
  BY DEF SettingsTypeOK, Template, Templates
<1>2. [q \in 1..Len(sidecars[i]) |-> Template(sidecars[i][q])] \in Seq(Templates)
  BY <1>1, SubjectType
<1>3. unguarded[i] \in Nat
  BY DEF SettingsTypeOK
<1> QED BY <1>1, <1>2, <1>3 DEF PodTemplate, Pods

\* Every call of every script is about a kind of object that exists.
LEMMA CurrentType ==
  ASSUME ControlTypeOK, NEW i \in Inst, AtCall(i)
  PROVE  Current(i).kind \in Kinds
<1>1. call[i].step \in Nat \ {0} /\ call[i].step <= Len(Script(i))
  BY DEF ControlTypeOK, AtCall, Calls
<1>2. Script(i) \in {deployResources, deploySidecar, deployPod, destroyPod, destroyResources}
  BY DEF Script
<1>3. \A c \in {deployResources, deploySidecar, deployPod, destroyPod, destroyResources} :
        \A k \in 1..Len(c) : c[k].kind \in Kinds
  BY DEF deployResources, deploySidecar, deployPod, destroyPod, destroyResources, Kinds,
         DeployOrPatchService, CreatePersistentVolumeClaim, CreateOrUpdateConfigMap,
         CreateMiddleware, CreateIngressRoute, CreateServiceAccount, CreateRole,
         CreateRoleBinding, CreateReplicaSet, DeleteReplicaSet, DeleteServiceAccount,
         DeleteRole, DeleteRoleBinding, DeletePersistentVolumeClaim, DeleteConfigMap,
         DeleteService, EnableIfDisabled
<1> QED BY <1>1, <1>2, <1>3 DEF Current

\* The setters keep the types of the settings, and a return those of the states.
LEMMA SettingsType ==
  ASSUME SettingsTypeOK, [Next]_vars
  PROVE  SettingsTypeOK'
<1>1. ASSUME NEW i \in Inst, Build(i) PROVE SettingsTypeOK'
  BY <1>1 DEF Build, SetImage, SetGitRepo, Commit, SetState, SettingsTypeOK, States, settings
<1>1a. ASSUME NEW i \in Inst, NEW k \in Fallible, Flaw(i, k) \/ MayFlaw(i, k) \/ UNCHANGED flaws
       PROVE  flaws' \in [Inst -> SUBSET Fallible]
  <2>1. flaws \in [Inst -> SUBSET Fallible]
    BY DEF SettingsTypeOK
  <2>2. \/ flaws' = flaws
        \/ flaws' = [flaws EXCEPT ![i] = @ \cup {k}]
        \/ flaws' = [flaws EXCEPT ![i] = @ \ {k}]
    BY <1>1a DEF Flaw, MayFlaw
  <2> QED BY <2>1, <2>2
<1>2. ASSUME NEW i \in Inst, Edit(i),
             /\ volume' \in [Inst -> BOOLEAN]
             /\ files' \in [Inst -> 0..MaxTotalFiles]
             /\ rules' \in [Inst -> BOOLEAN]
             /\ ports' \in [Inst -> SUBSET Ports]
             /\ rev' \in [Inst -> Nat]
             /\ unguarded' \in [Inst -> Nat]
             /\ flaws' \in [Inst -> SUBSET Fallible]
      PROVE  SettingsTypeOK'
  BY <1>2, BoundAssumption DEF Edit, SettingsTypeOK
<1>3. ASSUME NEW i \in Inst, Set(i) PROVE SettingsTypeOK'
  <2>1. /\ rev' \in [Inst -> Nat] /\ Edit(i)
        /\ UNCHANGED <<volume, files, rules, ports, unguarded>>
    BY <1>3 DEF Set, SettingsTypeOK
  <2>2. flaws' \in [Inst -> SUBSET Fallible]
    BY <1>3, <1>1a DEF Set, Fallible
  <2> QED BY <1>2, <2>1, <2>2 DEF SettingsTypeOK
<1>3a. ASSUME NEW i \in Inst, SetImagePullPolicy(i) \/ SetInstanceType(i) PROVE SettingsTypeOK'
  <2>1. /\ unguarded' \in [Inst -> Nat] /\ Edit(i)
        /\ UNCHANGED <<volume, files, rules, ports, rev>>
    <3>1. SetUnguarded(i)
      BY <1>3a DEF SetImagePullPolicy, SetInstanceType
    <3> QED BY <3>1 DEF SetUnguarded, SettingsTypeOK
  <2>2. flaws' \in [Inst -> SUBSET Fallible]
    BY <1>3a, <1>1a DEF SetImagePullPolicy, SetInstanceType, Fallible
  <2> QED BY <1>2, <2>1, <2>2 DEF SettingsTypeOK
<1>4. ASSUME NEW i \in Inst, NEW n \in Nat, addFileToInstance(i, n)
      PROVE  files' \in [Inst -> 0..MaxTotalFiles]
  BY <1>4, BoundAssumption DEF addFileToInstance, SettingsTypeOK
<1>5. ASSUME NEW i \in Inst, AddPolicyRule(i) PROVE SettingsTypeOK'
  <2>1. flaws' \in [Inst -> SUBSET Fallible]
    BY <1>5, <1>1a DEF AddPolicyRule, Fallible
  <2> QED BY <1>2, <1>5, <2>1 DEF AddPolicyRule, SettingsTypeOK
<1>6. ASSUME NEW i \in Inst, AddVolumeWithOwner(i) PROVE SettingsTypeOK'
  <2>1. flaws' \in [Inst -> SUBSET Fallible]
    BY <1>6, <1>1a DEF AddVolumeWithOwner, Fallible
  <2> QED BY <1>2, <1>6, <2>1 DEF AddVolumeWithOwner, SettingsTypeOK
<1>7. ASSUME NEW i \in Inst, AddFile(i) PROVE SettingsTypeOK'
  BY <1>2, <1>4, <1>7 DEF AddFile, SettingsTypeOK
<1>8. ASSUME NEW i \in Inst, AddFolder(i) PROVE SettingsTypeOK'
  <2>1. PICK n \in 1..MaxTotalFiles : addFileToInstance(i, n)
    BY <1>8 DEF AddFolder
  <2>2. files' \in [Inst -> 0..MaxTotalFiles]
    BY <1>4, <2>1, BoundAssumption
  <2>3. Edit(i) /\ UNCHANGED <<volume, rules, ports, rev, unguarded, flaws>>
    BY <1>8 DEF AddFolder
  <2> QED BY <1>2, <2>2, <2>3 DEF SettingsTypeOK
<1>9. ASSUME NEW i \in Inst, NEW p \in Ports, AddPort(i, p) PROVE SettingsTypeOK'
  BY <1>2, <1>9 DEF AddPort, SettingsTypeOK
<1>10. ASSUME NEW i \in Inst, NEW s \in Sidecars, AddSidecar(i, s) PROVE SettingsTypeOK'
  <2>1. s \in Inst
    BY DEF Inst
  <2>2. /\ state' \in [Inst -> States] /\ sidecars' \in [Inst -> Seq(Sidecars)]
        /\ edits' \in 0..MaxEdits
    BY <1>10, BoundAssumption DEF AddSidecar, SetState, SettingsTypeOK, States
  <2>3. InitNetShaper(s) \/ InitObsy(s) \/ InitTshark(s)
    BY <1>10 DEF AddSidecar
  <2>4. CASE InitNetShaper(s)
    BY <2>1, <2>2, <2>4 DEF InitNetShaper, SettingsTypeOK
  <2>5. CASE InitObsy(s)
    BY <1>4, <2>1, <2>2, <2>5 DEF InitObsy, SettingsTypeOK
  <2>6. CASE InitTshark(s)
    BY <2>1, <2>2, <2>6 DEF InitTshark, SettingsTypeOK
  <2> QED BY <2>3, <2>4, <2>5, <2>6
<1>11. ASSUME NEW i \in Inst, Configure(i) PROVE SettingsTypeOK'
  <2>1. CASE SetImagePullPolicy(i) \/ SetInstanceType(i)
    BY <1>3a, <2>1
  <2>2. CASE ~(SetImagePullPolicy(i) \/ SetInstanceType(i))
    BY <1>3, <1>5, <1>6, <1>7, <1>8, <1>9, <1>10, <1>11, <2>2
    DEF Configure, SetStartCommand, SetArgs, SetEnvironmentVariable, SetNodeSelector,
        SetMemory, SetCPU, SetPrivileged, AddKubernetesCapability, AddKubernetesCapabilities,
        SetLivenessProbe, SetReadinessProbe, SetStartupProbe
  <2> QED BY <2>1, <2>2
<1>12. ASSUME NEW i \in Inst, Return(i) PROVE SettingsTypeOK'
  BY <1>12 DEF Return, setStateForSidecars, SetState, Outcome, SettingsTypeOK, States, settings
<1>13. ASSUME NEW i \in Inst,
              \/ StartAsync(i) \/ Stop(i) \/ Destroy(i) \/ Disable(i) \/ Enable(i)
              \/ Skip(i) \/ CallOk(i) \/ CallRefused(i) \/ CallFault(i) \/ LookupFault(i)
              \/ NextStage(i)
       PROVE  SettingsTypeOK'
  BY <1>13 DEF StartAsync, Stop, Destroy, Enter, Disable, Enable, Network, Skip, CallOk,
     CallRefused, CallFault, LookupFault, NextStage, SettingsTypeOK, settings
<1>14. CASE UNCHANGED vars
  BY <1>14 DEF vars, settings, SettingsTypeOK
<1> QED BY <1>1, <1>11, <1>12, <1>13, <1>14 DEF Next, Step

\* The handlers stay in their scripts.
LEMMA ControlType ==
  ASSUME SettingsTypeOK, ControlTypeOK, [Next]_vars
  PROVE  ControlTypeOK'
<1>1. ASSUME NEW i \in Inst, Build(i) \/ Configure(i) \/ Disable(i) \/ Enable(i)
      PROVE  ControlTypeOK'
  <2>1. Begins(i) /\ UNCHANGED <<call, refused>>
    BY <1>1 DEF Build, SetImage, SetGitRepo, Commit, Configure, Edit, Set,
      SetStartCommand, SetArgs, SetEnvironmentVariable, SetNodeSelector,
      SetImagePullPolicy, SetInstanceType, SetUnguarded,
      SetMemory, SetCPU, SetPrivileged, AddKubernetesCapability, AddKubernetesCapabilities,
      SetLivenessProbe, SetReadinessProbe, SetStartupProbe, AddPolicyRule,
      AddVolumeWithOwner, AddFile, AddFolder, AddPort, AddSidecar, Disable, Enable, Network
  <2>2. Ok \in Results
    BY DEF Ok, Results, Ops
  <2> QED BY <2>1, <2>2 DEF Begins, ControlTypeOK
<1>2. ASSUME NEW i \in Inst, StartAsync(i) \/ Stop(i) \/ Destroy(i)
      PROVE  ControlTypeOK'
  <2>1. PICK op \in {"start", "stop", "destroy"}, stage \in Nat : Enter(i, op, stage)
    BY <1>2, SubjectType DEF StartAsync, Stop, Destroy
  <2>2. At(op, stage) \in Calls /\ Ok \in Results
    BY DEF At, Ok, Calls, Results, Ops
  <2> QED BY <2>1, <2>2 DEF Enter, Begins, ControlTypeOK
<1>3. ASSUME NEW i \in Inst, Skip(i) \/ CallOk(i) \/ LookupFault(i)
      PROVE  ControlTypeOK'
  <2>1. Advance(i) /\ UNCHANGED <<result, refused>>
    BY <1>3 DEF Skip, CallOk, LookupFault
  <2> QED BY <2>1 DEF Advance, ControlTypeOK, Calls
<1>4. ASSUME NEW i \in Inst, CallRefused(i) PROVE ControlTypeOK'
  <2>1. PICK err \in {"exists", "missing", "invalid", "state"} : AtCall(i) /\ Fail(i, err)
    <3>1. \A c, x : Answer(c, x) \in {"ok", "exists", "missing", "invalid", "state"}
      BY DEF Answer, Conflict
    <3> QED BY <1>4, <3>1 DEF CallRefused
  <2>2. Current(i).kind \in Kinds
    BY <2>1, CurrentType
  <2>3. refused' \subseteq Inst
    BY <1>4 DEF CallRefused, ControlTypeOK
  <2> QED BY <2>1, <2>2, <2>3 DEF Fail, Failure, Idle, ControlTypeOK, Calls, Results, Ops
<1>5. ASSUME NEW i \in Inst, CallFault(i) PROVE ControlTypeOK'
  BY <1>5 DEF CallFault, Idle, ControlTypeOK, Calls, Ops
<1>6. ASSUME NEW i \in Inst, NextStage(i)
      PROVE  ControlTypeOK'
  BY <1>6 DEF NextStage, At, ControlTypeOK, Calls
<1>7. ASSUME NEW i \in Inst, Return(i)
      PROVE  ControlTypeOK'
  BY <1>7 DEF Return, Idle, ControlTypeOK, Calls, Ops
<1> QED BY <1>1, <1>2, <1>3, <1>4, <1>5, <1>6, <1>7 DEF Next, Step, vars, ControlTypeOK

\* A call that gets through keeps the types of the cluster.
LEMMA EffectType ==
  ASSUME SettingsTypeOK, ClusterTypeOK, NEW c, c.kind \in Kinds, NEW x \in Inst, Effect(c, x)
  PROVE  /\ objs' \subseteq Objects
         /\ mounted' \in [Inst -> 0..MaxTotalFiles]
         /\ exposed' \in [Inst -> SUBSET Ports]
         /\ podSpec' \in [Inst -> Pods]
<1>1. objs' \subseteq Objects
  BY DEF Effect, ClusterTypeOK, Objects
<1>2. mounted' \in [Inst -> 0..MaxTotalFiles]
  <2>1. files[x] \in 0..MaxTotalFiles /\ 0 \in 0..MaxTotalFiles
    BY BoundAssumption DEF SettingsTypeOK
  <2> QED BY <2>1 DEF Effect, Write, ClusterTypeOK
<1>3. FamilyPorts(x) \in SUBSET Ports
  <2>1. \A j \in Inst : ports[j] \subseteq Ports
    BY DEF SettingsTypeOK
  <2>2. Family(x) \subseteq Inst
    BY SubjectType DEF Family, Attached
  <2> QED BY <2>1, <2>2 DEF FamilyPorts
<1>4. exposed' \in [Inst -> SUBSET Ports]
  BY <1>3 DEF Effect, Write, ClusterTypeOK
<1>5. NoPod \in Pods
  BY BoundAssumption DEF NoPod, Pods, Templates
<1>6. podSpec' \in [Inst -> Pods]
  BY <1>5, PodTemplateType DEF Effect, Write, ClusterTypeOK
<1> QED BY <1>1, <1>2, <1>4, <1>6

\* The calls of the handlers keep the types of the cluster.
LEMMA ClusterType ==
  ASSUME SettingsTypeOK, ControlTypeOK, ClusterTypeOK, [Next]_vars
  PROVE  ClusterTypeOK'
<1>1. ASSUME NEW i \in Inst, Build(i) \/ Configure(i)
      PROVE  UNCHANGED <<service, cluster, faults>>
  BY <1>1 DEF Build, SetImage, SetGitRepo, Commit, Configure, Edit, Set,
      SetStartCommand, SetArgs, SetEnvironmentVariable, SetNodeSelector,
      SetImagePullPolicy, SetInstanceType, SetUnguarded,
      SetMemory, SetCPU, SetPrivileged, AddKubernetesCapability, AddKubernetesCapabilities,
      SetLivenessProbe, SetReadinessProbe, SetStartupProbe, AddPolicyRule,
      AddVolumeWithOwner, AddFile, AddFolder, AddPort, AddSidecar
<1>2. ASSUME NEW i \in Inst,
             \/ StartAsync(i) \/ Stop(i) \/ Destroy(i) \/ Skip(i) \/ CallRefused(i)
             \/ NextStage(i) \/ Return(i)
      PROVE  UNCHANGED <<service, cluster, faults>>
  BY <1>2 DEF StartAsync, Stop, Destroy, Enter, Skip, CallRefused, NextStage, Return
<1>3. ASSUME NEW i \in Inst, CallOk(i) PROVE ClusterTypeOK'
  <2>1. Current(i).kind \in Kinds /\ Subject(i) \in Inst /\ Effect(Current(i), Subject(i))
    BY <1>3, CurrentType, SubjectType DEF CallOk
  <2>2. service' \in [Inst -> BOOLEAN] /\ faults' = faults
    BY <1>3, <2>1 DEF CallOk, ClusterTypeOK
  <2> QED BY <2>1, <2>2, EffectType DEF ClusterTypeOK
<1>4. ASSUME NEW i \in Inst, CallFault(i) PROVE ClusterTypeOK'
  <2>1. service' = service /\ faults' \in 0..MaxFaults
    BY <1>4, BoundAssumption DEF CallFault, ClusterTypeOK
  <2>2. CASE Effect(Current(i), Subject(i))
    <3>1. Current(i).kind \in Kinds /\ Subject(i) \in Inst
      BY <1>4, CurrentType, SubjectType DEF CallFault
    <3> QED BY <2>1, <2>2, <3>1, EffectType DEF ClusterTypeOK
  <2>3. CASE UNCHANGED cluster
    BY <2>1, <2>3 DEF cluster, ClusterTypeOK
  <2> QED BY <1>4, <2>2, <2>3 DEF CallFault
<1>5. ASSUME NEW i \in Inst, LookupFault(i) PROVE ClusterTypeOK'
  BY <1>5, BoundAssumption DEF LookupFault, cluster, ClusterTypeOK
<1>6. ASSUME NEW i \in Inst, Disable(i) \/ Enable(i) PROVE ClusterTypeOK'
  <2>1. PICK c \in {CreateNetworkPolicy, DeleteNetworkPolicy} : Effect(c, i)
    BY <1>6 DEF Disable, Enable, Network
  <2>2. c.kind \in Kinds
    BY DEF CreateNetworkPolicy, DeleteNetworkPolicy, Kinds
  <2>3. UNCHANGED <<service, faults>>
    BY <1>6 DEF Disable, Enable, Network
  <2> QED BY <2>1, <2>2, <2>3, EffectType DEF ClusterTypeOK
<1> QED BY <1>1, <1>2, <1>3, <1>4, <1>5, <1>6 DEF Next, Step, vars, cluster, ClusterTypeOK

\* The types hold in every reachable state: no sequence of handlers, failed calls
\* included, gets an instance past the limit on its files.
THEOREM TypeCorrect == Spec => []TypeOK
<1>1. Init => TypeOK
  BY BoundAssumption
  DEF Init, TypeOK, SettingsTypeOK, ClusterTypeOK, ControlTypeOK, States, NoPod, Pods,
      Templates, Idle, Calls, Ok, Results, Ops, Fallible
<1>2. TypeOK /\ [Next]_vars => TypeOK'
  BY SettingsType, ControlType, ClusterType DEF TypeOK
<1> QED BY <1>1, <1>2, PTL DEF Spec

-----------------------------------------------------------------------------
(* The parts of the invariant *)

\* Only the test's own instances have sidecars, a sidecar has one parent, and it
\* was initialized before it was attached.
FamilyInv ==
  /\ \A s \in Sidecars : sidecars[s] = <<>>
  /\ \A m \in Mains : \A s \in Attached(m) : state[s] # "None"
  /\ \A m, n \in Mains : m # n => Attached(m) \cap Attached(n) = {}

\* Handler op has passed step k of stage g.
Past(i, op, g, k) ==
  call[i].op = op /\ (call[i].stage > g \/ (call[i].stage = g /\ call[i].step > k))

\* The states in which each handler runs, and how far those get that cannot succeed:
\* Stop or Destroy of a sidecar ends at its service account, Destroy of a stopped
\* instance ends at its network.  One handler runs on a family at a time.
HandlerInv ==
  \A i \in Inst :
    /\ call[i].op = "start" =>
         i \in Mains /\ \A j \in Family(i) : state[j] \in {"Committed", "Stopped"}
    /\ call[i].op = "stop" => state[i] = "Started" /\ call[i].stage = 0
    /\ call[i].op = "destroy" => state[i] \in {"Started", "Stopped"}
    /\ i \in Sidecars => ~Past(i, "stop", 0, 2) /\ ~Past(i, "destroy", 0, 2)
    /\ i \in Mains /\ Past(i, "destroy", 1, 4) => state[i] = "Started"
    /\ i \in Mains /\ Running(i) => \A s \in Attached(i) : ~Running(s)

\* Sidecars have no pod and no service of their own.
OwnerInv ==
  \A s \in Sidecars : \A k \in PodKinds \cup {"Service"} : <<k, s>> \notin objs

\* What the pod of m runs as is created before it and deleted after it.
Authorized(m) ==
  /\ Has(m, "ReplicaSet") => Has(m, "ServiceAccount")
  /\ Has(m, "ReplicaSet") /\ state[m] = "Started" /\ rules[m] =>
       Has(m, "Role") /\ Has(m, "RoleBinding")
  /\ Past(m, "stop", 0, 1) \/ Past(m, "destroy", 0, 1) => ~Has(m, "ReplicaSet")
  /\ LET g == Len(sidecars[m]) + 1 IN
     /\ Past(m, "start", g, 1) => Has(m, "ServiceAccount")
     /\ Past(m, "start", g, 2) /\ rules[m] => Has(m, "Role")
     /\ Past(m, "start", g, 3) /\ rules[m] => Has(m, "RoleBinding")

AuthInv == \A m \in Mains : Authorized(m)

\* Nothing exists in the cluster that the settings do not ask for.
AskedFor(i) ==
  /\ Has(i, "PersistentVolumeClaim") => volume[i]
  /\ Has(i, "ConfigMap") => files[i] > 0
  /\ Has(i, "Role") \/ Has(i, "RoleBinding") => rules[i]
  /\ Has(i, "Service") => FamilyPorts(i) # {}

ResourceInv == \A i \in Inst : AskedFor(i)

\* A service the client does not know of is left by a first start that failed.
ServiceKnown(m) ==
  /\ Has(m, "Service") /\ ~service[m] => state[m] = "Committed" /\ ~Past(m, "start", 0, 1)
  /\ call[m].op = "start" /\ call[m].stage = 0 => state[m] = "Committed"

ServiceInv == \A m \in Mains : ServiceKnown(m)

\* What Destroy has already deleted of m's pod and of its family's resources.
Cleared(m) ==
  /\ Past(m, "destroy", 0, 1) => ~Has(m, "ReplicaSet")
  /\ Past(m, "destroy", 0, 2) => ~Has(m, "ServiceAccount")
  /\ Past(m, "destroy", 0, 3) => ~Has(m, "Role")
  /\ Past(m, "destroy", 0, 4) => ~Has(m, "RoleBinding")
  /\ Past(m, "destroy", 1, 1) => ~Has(m, "PersistentVolumeClaim")
  /\ Past(m, "destroy", 1, 2) => ~Has(m, "ConfigMap")
  /\ Past(m, "destroy", 1, 3) => ~Has(m, "Service")
  /\ \A q \in 1..Len(sidecars[m]) :
       /\ Past(m, "destroy", q + 1, 1) => ~Has(sidecars[m][q], "PersistentVolumeClaim")
       /\ Past(m, "destroy", q + 1, 2) => ~Has(sidecars[m][q], "ConfigMap")

DestroyInv == \A m \in Mains : Cleared(m)

-----------------------------------------------------------------------------
(* What each group of actions leaves alone *)

\* The sidecars of an instance are sidecars.
LEMMA AttachedType ==
  ASSUME SettingsTypeOK, NEW i \in Inst
  PROVE  Attached(i) \subseteq Sidecars /\ Family(i) \subseteq Inst
BY SubjectType DEF Attached, Family, Inst

\* Build and the setters work on an instance no handler runs on, and change nothing
\* in the cluster.
LEMMA SetterFrame ==
  ASSUME NEW i \in Inst, Build(i) \/ Configure(i)
  PROVE  Free(i) /\ Begins(i) /\ UNCHANGED <<service, cluster, call, refused, faults>>
BY DEF Build, SetImage, SetGitRepo, Commit, Configure, Edit, Set,
       SetStartCommand, SetArgs, SetEnvironmentVariable, SetNodeSelector,
      SetImagePullPolicy, SetInstanceType, SetUnguarded,
       SetMemory, SetCPU, SetPrivileged, AddKubernetesCapability, AddKubernetesCapabilities,
       SetLivenessProbe, SetReadinessProbe, SetStartupProbe, AddPolicyRule,
       AddVolumeWithOwner, AddFile, AddFolder, AddPort, AddSidecar

\* A setter leaves the states and the sidecars alone.
LEMMA EditFrame ==
  ASSUME NEW i \in Inst, Configure(i)
  PROVE  (\E s \in Sidecars : AddSidecar(i, s)) \/ UNCHANGED <<state, sidecars>>
BY DEF Configure, Edit, Set,
       SetStartCommand, SetArgs, SetEnvironmentVariable, SetNodeSelector,
      SetImagePullPolicy, SetInstanceType, SetUnguarded,
       SetMemory, SetCPU, SetPrivileged, AddKubernetesCapability, AddKubernetesCapabilities,
       SetLivenessProbe, SetReadinessProbe, SetStartupProbe, AddPolicyRule,
       AddVolumeWithOwner, AddFile, AddFolder, AddPort

\* Only the return of a handler changes a state, and no handler changes a setting.
LEMMA HandlerFrame ==
  ASSUME NEW i \in Inst,
         \/ StartAsync(i) \/ Stop(i) \/ Destroy(i) \/ Disable(i) \/ Enable(i) \/ Step(i)
  PROVE  /\ UNCHANGED <<sidecars, settings, edits>>
         /\ Return(i) \/ UNCHANGED state
BY DEF StartAsync, Stop, Destroy, Enter, Disable, Enable, Network, Step, Skip, CallOk,
       CallRefused, CallFault, LookupFault, NextStage, Return, settings

\* Adding a sidecar adds it to the family of the instance, if that can have one.
LEMMA AttachedAfterAdd ==
  ASSUME SettingsTypeOK, NEW i \in Inst, NEW s \in Sidecars, AddSidecar(i, s),
         NEW j \in Inst
  PROVE  Attached(j)' = IF j = i /\ i \in Mains THEN Attached(j) \cup {s} ELSE Attached(j)
<1>1. sidecars[j] \in Seq(Sidecars)
  BY DEF SettingsTypeOK
<1>2. CASE j = i /\ i \in Mains
  <2>1. sidecars'[j] = Append(sidecars[j], s)
    BY <1>2 DEF AddSidecar, SettingsTypeOK
  <2>2. /\ Len(Append(sidecars[j], s)) = Len(sidecars[j]) + 1
        /\ Len(sidecars[j]) \in Nat
        /\ Append(sidecars[j], s)[Len(sidecars[j]) + 1] = s
        /\ \A q \in 1..Len(sidecars[j]) : Append(sidecars[j], s)[q] = sidecars[j][q]
    BY <1>1
  <2> QED BY <1>2, <2>1, <2>2 DEF Attached
<1>3. CASE ~(j = i /\ i \in Mains)
  <2>1. sidecars'[j] = sidecars[j]
    BY <1>3 DEF AddSidecar, SettingsTypeOK
  <2> QED BY <1>3, <2>1 DEF Attached
<1> QED BY <1>2, <1>3

-----------------------------------------------------------------------------
(* Families *)

\* Sidecars().Add takes a sidecar that is in no family yet, and makes it committed.
LEMMA FamilyStep ==
  ASSUME TypeOK, FamilyInv, [Next]_vars
  PROVE  FamilyInv'
<1> USE DEF TypeOK
<1>1. ASSUME UNCHANGED sidecars, \A s \in Sidecars : state[s] # "None" => state'[s] # "None"
      PROVE  FamilyInv'
  <2>1. \A m \in Mains : Attached(m)' = Attached(m) /\ Attached(m) \subseteq Sidecars
    BY <1>1, AttachedType DEF Attached, Inst
  <2> QED BY <1>1, <2>1 DEF FamilyInv
<1>2. ASSUME NEW i \in Inst, Build(i) PROVE FamilyInv'
  <2>1. UNCHANGED sidecars /\ \A s \in Sidecars : state[s] # "None" => state'[s] # "None"
    BY <1>2 DEF Build, SetImage, SetGitRepo, Commit, SetState, Inst
  <2> QED BY <1>1, <2>1
<1>3. ASSUME NEW i \in Inst, NEW s \in Sidecars, AddSidecar(i, s) PROVE FamilyInv'
  <2>1. /\ state[s] = "None"
        /\ \A j \in Sidecars : state'[j] = IF j = s THEN "Committed" ELSE state[j]
        /\ \A j \in Sidecars : sidecars'[j] = sidecars[j]
    BY <1>3, FamilyAssumption DEF AddSidecar, SetState, Inst, SettingsTypeOK
  <2>2. \A m \in Mains :
          Attached(m)' = IF m = i /\ i \in Mains THEN Attached(m) \cup {s} ELSE Attached(m)
    BY <1>3, AttachedAfterAdd DEF Inst
  <2>3. \A m \in Mains : s \notin Attached(m) /\ Attached(m) \subseteq Sidecars
    BY <2>1, AttachedType DEF FamilyInv, Inst
  <2> QED BY <2>1, <2>2, <2>3 DEF FamilyInv
<1>4. ASSUME NEW i \in Inst, Configure(i) PROVE FamilyInv'
  BY <1>1, <1>3, <1>4, EditFrame
<1>5. ASSUME NEW i \in Inst,
             \/ StartAsync(i) \/ Stop(i) \/ Destroy(i) \/ Disable(i) \/ Enable(i) \/ Step(i)
      PROVE  FamilyInv'
  <2>1. UNCHANGED sidecars /\ (Return(i) \/ UNCHANGED state)
    BY <1>5, HandlerFrame
  <2>2. ASSUME Return(i) PROVE \A s \in Sidecars : state[s] # "None" => state'[s] # "None"
    BY <2>2 DEF Return, setStateForSidecars, SetState, Outcome, Inst
  <2> QED BY <1>1, <2>1, <2>2
<1>6. CASE UNCHANGED vars
  BY <1>1, <1>6 DEF vars
<1> QED BY <1>2, <1>4, <1>5, <1>6 DEF Next

-----------------------------------------------------------------------------
(* The calls of the handlers *)

\* Which call is made at which position.
LEMMA CallTable ==
  ASSUME ControlTypeOK, NEW i \in Inst, AtCall(i)
  PROVE  LET c == Current(i)
             k == call[i].step
         IN  \/ /\ call[i].op = "start" /\ call[i].stage = 0
                /\ \/ k = 1 /\ c = DeployOrPatchService
                   \/ k = 2 /\ c = CreatePersistentVolumeClaim
                   \/ k = 3 /\ c = CreateOrUpdateConfigMap
             \/ /\ call[i].op = "start" /\ call[i].stage > 0 /\ call[i].stage <= Len(sidecars[i])
                /\ \/ k = 1 /\ c = CreateMiddleware
                   \/ k = 2 /\ c = CreateIngressRoute
                   \/ k = 3 /\ c = CreatePersistentVolumeClaim
                   \/ k = 4 /\ c = CreateOrUpdateConfigMap
             \/ /\ call[i].op = "start" /\ call[i].stage > 0 /\ ~(call[i].stage <= Len(sidecars[i]))
                /\ \/ k = 1 /\ c = CreateServiceAccount
                   \/ k = 2 /\ c = CreateRole
                   \/ k = 3 /\ c = CreateRoleBinding
                   \/ k = 4 /\ c = CreateReplicaSet
             \/ /\ call[i].op \in {"stop", "destroy"} /\ call[i].stage = 0
                /\ \/ k = 1 /\ c = DeleteReplicaSet
                   \/ k = 2 /\ c = DeleteServiceAccount
                   \/ k = 3 /\ c = DeleteRole
                   \/ k = 4 /\ c = DeleteRoleBinding
             \/ /\ call[i].op \in {"stop", "destroy"} /\ call[i].stage > 0
                /\ \/ k = 1 /\ c = DeletePersistentVolumeClaim
                   \/ k = 2 /\ c = DeleteConfigMap
                   \/ k = 3 /\ c = DeleteService
                   \/ k = 4 /\ c = EnableIfDisabled
<1>1. /\ call[i].step \in Nat \ {0} /\ call[i].step <= Len(Script(i))
      /\ call[i].op \in {"start", "stop", "destroy"} /\ call[i].stage \in Nat
  BY DEF ControlTypeOK, AtCall, Running, Calls, Ops
<1>2. Len(deployResources) = 3 /\ Len(deploySidecar) = 4 /\ Len(deployPod) = 4
      /\ Len(destroyPod) = 4 /\ Len(destroyResources) = 4
  BY DEF deployResources, deploySidecar, deployPod, destroyPod, destroyResources
<1>3. CASE call[i].op = "start" /\ call[i].stage = 0
  <2>1. Script(i) = deployResources
    BY <1>3 DEF Script
  <2> QED BY <1>1, <1>2, <1>3, <2>1 DEF Current, deployResources
<1>4. CASE call[i].op = "start" /\ call[i].stage > 0 /\ call[i].stage <= Len(sidecars[i])
  <2>1. Script(i) = deploySidecar
    BY <1>1, <1>4 DEF Script
  <2> QED BY <1>1, <1>2, <1>4, <2>1 DEF Current, deploySidecar
<1>5. CASE call[i].op = "start" /\ call[i].stage > 0 /\ ~(call[i].stage <= Len(sidecars[i]))
  <2>1. Script(i) = deployPod
    BY <1>1, <1>5 DEF Script
  <2> QED BY <1>1, <1>2, <1>5, <2>1 DEF Current, deployPod
<1>6. CASE call[i].op # "start" /\ call[i].stage = 0
  <2>1. Script(i) = destroyPod
    BY <1>6 DEF Script
  <2> QED BY <1>1, <1>2, <1>6, <2>1 DEF Current, destroyPod
<1>7. CASE call[i].op # "start" /\ call[i].stage > 0
  <2>1. Script(i) = destroyResources
    BY <1>1, <1>7 DEF Script
  <2> QED BY <1>1, <1>2, <1>7, <2>1 DEF Current, destroyResources
<1> QED BY <1>1, <1>3, <1>4, <1>5, <1>6, <1>7

\* A handler that has no call left is past the end of its script.
LEMMA ScriptEnd ==
  ASSUME ControlTypeOK, NEW i \in Inst, Running(i), ~AtCall(i)
  PROVE  /\ call[i].op \in {"start", "stop", "destroy"}
         /\ call[i].stage \in Nat /\ call[i].step \in Nat
         /\ call[i].step > 3
         /\ ~(call[i].op = "start" /\ call[i].stage = 0) => call[i].step > 4
<1>1. /\ call[i].step \in Nat \ {0} /\ ~(call[i].step <= Len(Script(i)))
      /\ call[i].op \in {"start", "stop", "destroy"} /\ call[i].stage \in Nat
  BY DEF ControlTypeOK, AtCall, Running, Calls, Ops
<1>2. Len(deployResources) = 3 /\ Len(deploySidecar) = 4 /\ Len(deployPod) = 4
      /\ Len(destroyPod) = 4 /\ Len(destroyResources) = 4
  BY DEF deployResources, deploySidecar, deployPod, destroyPod, destroyResources
<1>3. \/ call[i].op = "start" /\ call[i].stage = 0 /\ Script(i) = deployResources
      \/ Script(i) \in {deploySidecar, deployPod, destroyPod, destroyResources}
  BY DEF Script
<1>4. CASE call[i].op = "start" /\ call[i].stage = 0 /\ Script(i) = deployResources
  <2>1. Len(Script(i)) = 3
    BY <1>2, <1>4
  <2> QED BY <1>1, <1>4, <2>1
<1>5. CASE Script(i) \in {deploySidecar, deployPod, destroyPod, destroyResources}
  <2>1. Len(Script(i)) = 4
    BY <1>2, <1>5
  <2> QED BY <1>1, <2>1
<1> QED BY <1>3, <1>4, <1>5

\* Whose objects a stage is about.
LEMMA SubjectOf ==
  ASSUME SettingsTypeOK, ControlTypeOK, NEW i \in Inst, Running(i)
  PROVE  /\ call[i].stage = 0 => Subject(i) = i
         /\ call[i].op = "start" /\ call[i].stage > Len(sidecars[i]) => Subject(i) = i
         /\ call[i].op = "start" /\ call[i].stage > 0 /\ call[i].stage <= Len(sidecars[i]) =>
              Subject(i) = sidecars[i][call[i].stage]
         /\ call[i].op = "destroy" /\ call[i].stage = 1 => Subject(i) = i
         /\ call[i].op = "destroy" /\ call[i].stage > 1 /\ call[i].stage - 1 <= Len(sidecars[i]) =>
              Subject(i) = sidecars[i][call[i].stage - 1]
         /\ Subject(i) = i \/ Subject(i) \in Attached(i)
<1>1. Len(sidecars[i]) \in Nat /\ call[i].stage \in Nat
  BY SubjectType DEF ControlTypeOK, Calls
<1> QED BY <1>1 DEF Subject, Attached

\* Every action on a handler, in terms of its position.
LEMMA StepCases ==
  ASSUME NEW i \in Inst, Step(i)
  PROVE  \/ (Skip(i) \/ CallOk(i) \/ LookupFault(i)) /\ AtCall(i) /\ Advance(i)
         \/ (CallRefused(i) \/ CallFault(i)) /\ AtCall(i) /\ call' = [call EXCEPT ![i] = Idle]
         \/ NextStage(i)
         \/ Return(i)
BY DEF Step, Skip, CallOk, LookupFault, CallRefused, CallFault, Fail

\* The cluster changes by one object at a time: that of the current call.
LEMMA StepObjs ==
  ASSUME NEW i \in Inst, Step(i)
  PROVE  \/ UNCHANGED objs
         \/ AtCall(i) /\ objs' = IF Leaves(Current(i))
                                THEN objs \cup {<<Current(i).kind, Subject(i)>>}
                                ELSE objs \ {<<Current(i).kind, Subject(i)>>}
BY DEF Step, Skip, CallOk, LookupFault, CallRefused, CallFault, NextStage, Return, Effect, cluster

\* What is created, by which handler, for whom.
LEMMA Creations ==
  ASSUME SettingsTypeOK, ControlTypeOK, NEW i \in Inst, AtCall(i), Leaves(Current(i))
  PROVE  /\ call[i].op = "start"
         /\ \/ /\ Subject(i) = i
               /\ Current(i).kind \in PodKinds \cup ResourceKinds
            \/ /\ Subject(i) \in Attached(i)
               /\ Current(i).kind \in {"Middleware", "IngressRoute",
                                       "PersistentVolumeClaim", "ConfigMap"}
<1>1. Running(i) /\ call[i].stage \in Nat /\ Len(sidecars[i]) \in Nat
  BY SubjectType DEF AtCall, ControlTypeOK, Calls
<1>2. call[i].op = "start"
  BY CallTable DEF Leaves, DeleteReplicaSet, DeleteServiceAccount, DeleteRole,
     DeleteRoleBinding, DeletePersistentVolumeClaim, DeleteConfigMap, DeleteService,
     EnableIfDisabled
<1>3. CASE call[i].stage = 0 \/ call[i].stage > Len(sidecars[i])
  <2>1. Subject(i) = i
    BY <1>1, <1>2, <1>3, SubjectOf
  <2>2. Current(i).kind \in PodKinds \cup ResourceKinds
    BY <1>1, <1>2, <1>3, CallTable
    DEF DeployOrPatchService, CreatePersistentVolumeClaim, CreateOrUpdateConfigMap,
        CreateServiceAccount, CreateRole, CreateRoleBinding, CreateReplicaSet,
        PodKinds, ResourceKinds
  <2> QED BY <1>2, <2>1, <2>2
<1>4. CASE call[i].stage > 0 /\ call[i].stage <= Len(sidecars[i])
  <2>1. Subject(i) \in Attached(i)
    BY <1>1, <1>2, <1>4, SubjectOf DEF Attached
  <2>2. Current(i).kind \in {"Middleware", "IngressRoute", "PersistentVolumeClaim", "ConfigMap"}
    BY <1>1, <1>2, <1>4, CallTable
    DEF CreateMiddleware, CreateIngressRoute, CreatePersistentVolumeClaim,
        CreateOrUpdateConfigMap
  <2> QED BY <1>2, <2>1, <2>2
<1> QED BY <1>1, <1>3, <1>4

\* Disable and Enable are about a network policy.
LEMMA NetworkObjs ==
  ASSUME NEW i \in Inst, Disable(i) \/ Enable(i)
  PROVE  /\ objs' \in {objs \cup {<<"NetworkPolicy", i>>}, objs \ {<<"NetworkPolicy", i>>}}
         /\ UNCHANGED <<state, sidecars, settings, service, call>>
BY DEF Disable, Enable, Network, Effect, CreateNetworkPolicy, DeleteNetworkPolicy

-----------------------------------------------------------------------------
(* Owners *)

\* Only StartAsync creates objects, and for a sidecar neither a pod nor a service.
LEMMA OwnerStep ==
  ASSUME TypeOK, HandlerInv, OwnerInv, [Next]_vars
  PROVE  OwnerInv'
<1> USE DEF TypeOK
<1>1. ASSUME UNCHANGED objs PROVE OwnerInv'
  BY <1>1 DEF OwnerInv
<1>2. ASSUME NEW i \in Inst, Build(i) \/ Configure(i) PROVE OwnerInv'
  BY <1>1, <1>2, SetterFrame DEF cluster
<1>3. ASSUME NEW i \in Inst, StartAsync(i) \/ Stop(i) \/ Destroy(i) PROVE OwnerInv'
  BY <1>1, <1>3 DEF StartAsync, Stop, Destroy, Enter, cluster
<1>4. ASSUME NEW i \in Inst, Disable(i) \/ Enable(i) PROVE OwnerInv'
  <2>1. objs' \subseteq objs \cup {<<"NetworkPolicy", i>>}
    BY <1>4, NetworkObjs
  <2>2. \A k \in PodKinds \cup {"Service"} : k # "NetworkPolicy"
    BY DEF PodKinds
  <2> QED BY <2>1, <2>2 DEF OwnerInv
<1>5. ASSUME NEW i \in Inst, AtCall(i), Leaves(Current(i)),
             objs' = objs \cup {<<Current(i).kind, Subject(i)>>}
      PROVE  OwnerInv'
  <2>1. call[i].op = "start" /\ i \in Mains
    BY <1>5, Creations DEF HandlerInv
  <2>2. Subject(i) \in Mains \/ Current(i).kind \notin PodKinds \cup {"Service"}
    BY <1>5, <2>1, Creations DEF PodKinds
  <2> QED BY <1>5, <2>2, FamilyAssumption DEF OwnerInv
<1>6. ASSUME NEW i \in Inst, Step(i) PROVE OwnerInv'
  <2>1. UNCHANGED objs \/ (AtCall(i) /\ Leaves(Current(i)) /\
                             objs' = objs \cup {<<Current(i).kind, Subject(i)>>})
        \/ objs' \subseteq objs
    BY <1>6, StepObjs
  <2>2. CASE objs' \subseteq objs
    BY <2>2 DEF OwnerInv
  <2> QED BY <1>1, <1>5, <2>1, <2>2
<1>7. CASE UNCHANGED vars
  BY <1>1, <1>7 DEF vars, cluster
<1> QED BY <1>2, <1>3, <1>4, <1>6, <1>7 DEF Next

-----------------------------------------------------------------------------
(* Handlers *)

\* Two members of one family are not both in use.
LEMMA FreeFacts ==
  ASSUME NEW i \in Inst, Free(i)
  PROVE  /\ ~Running(i) /\ call[i].op = "idle"
         /\ \A m \in Mains : i \in Family(m) => ~Running(m)
         /\ i \in Mains => \A s \in Attached(i) : s \in Inst => ~Running(s)
<1>1. call[i] = Idle
  BY DEF Free
<1>2. \A m \in Mains : i \in Family(m) => call[m] = Idle
  BY DEF Free, Family, Inst
<1>3. i \in Mains => \A s \in Attached(i) : s \in Inst => call[s] = Idle
  BY DEF Free, Family
<1> QED BY <1>1, <1>2, <1>3 DEF Running, Idle

\* The steps of a handler that gets on to its next call.
LEMMA HandlerAdvance ==
  ASSUME TypeOK, FamilyInv, HandlerInv, OwnerInv, NEW i \in Inst, AtCall(i), Advance(i),
         Skip(i) \/ CallOk(i) \/ LookupFault(i)
  PROVE  HandlerInv'
<1> USE DEF TypeOK
<1>1. Running(i) /\ call[i].step \in Nat /\ call[i].stage \in Nat
  BY DEF AtCall, ControlTypeOK, Calls
<1>2. /\ UNCHANGED <<state, sidecars>>
      /\ \A j \in Inst : j # i => call'[j] = call[j]
      /\ call'[i].op = call[i].op /\ call'[i].stage = call[i].stage
      /\ call'[i].step = call[i].step + 1
  BY DEF Skip, CallOk, LookupFault, Advance, ControlTypeOK, Calls
<1>3. \A j \in Inst : Attached(j)' = Attached(j) /\ Family(j)' = Family(j)
  BY <1>2 DEF Attached, Family
<1>4. \A j \in Inst : Running(j)' <=> Running(j)
  BY <1>2 DEF Running
<1>5. ASSUME i \in Sidecars, call[i].op \in {"stop", "destroy"}, call[i].stage = 0, call[i].step = 2
      PROVE  FALSE
  <2>1. Current(i) = DeleteServiceAccount /\ Subject(i) = i
    BY <1>1, <1>5, CallTable, SubjectOf
  <2>2. Needed(DeleteServiceAccount, i)
    BY DEF Needed, DeleteServiceAccount, DeployOrPatchService, DeleteService
  <2>3. <<"ServiceAccount", i>> \notin objs
    BY <1>5 DEF OwnerInv, PodKinds
  <2>4. Answer(DeleteServiceAccount, i) # "ok"
    BY <2>3 DEF Answer, Conflict, Exists, DeleteServiceAccount, DeployOrPatchService
  <2> QED BY <2>1, <2>2, <2>4 DEF Skip, CallOk, LookupFault, DeleteServiceAccount
<1>6. ASSUME i \in Mains, call[i].op = "destroy", call[i].stage = 1, call[i].step = 4
      PROVE  state[i] = "Started"
  <2>1. Current(i) = EnableIfDisabled /\ Subject(i) = i
    BY <1>1, <1>6, CallTable, SubjectOf
  <2>2. Needed(EnableIfDisabled, i)
    BY <1>6, FamilyAssumption
    DEF Needed, EnableIfDisabled, DeployOrPatchService, DeleteService
  <2>3. Allowed(EnableIfDisabled, i)
    BY <2>1, <2>2 DEF Skip, CallOk, LookupFault, Answer
  <2> QED BY <2>3 DEF Allowed, EnableIfDisabled, IsDisabledAllowed
<1>7. ASSUME i \in Sidecars PROVE ~Past(i, "stop", 0, 2)' /\ ~Past(i, "destroy", 0, 2)'
  BY <1>1, <1>2, <1>5, <1>7 DEF HandlerInv, Past
<1>8. ASSUME i \in Mains, Past(i, "destroy", 1, 4)' PROVE state[i] = "Started"
  <2>1. CASE Past(i, "destroy", 1, 4)
    BY <1>8, <2>1 DEF HandlerInv
  <2>2. CASE ~Past(i, "destroy", 1, 4)
    <3>1. call[i].op = "destroy" /\ call[i].stage = 1 /\ call[i].step = 4
      BY <1>1, <1>2, <1>8, <2>2 DEF Past
    <3> QED BY <1>6, <1>8, <3>1
  <2> QED BY <2>1, <2>2
<1>9. \A j \in Inst, op \in {"stop", "destroy"}, g \in {0, 1}, k \in {2, 4} :
        j # i => (Past(j, op, g, k)' <=> Past(j, op, g, k))
  BY <1>2 DEF Past
<1>10. \A j \in Inst : Attached(j) \subseteq Inst
  BY AttachedType DEF Inst
<1>11. ASSUME NEW j \in Inst
       PROVE  /\ call'[j].op = call[j].op /\ call'[j].stage = call[j].stage
              /\ j \in Sidecars => ~Past(j, "stop", 0, 2)' /\ ~Past(j, "destroy", 0, 2)'
              /\ j \in Mains /\ Past(j, "destroy", 1, 4)' => state[j] = "Started"
  BY <1>2, <1>7, <1>8, <1>9 DEF HandlerInv
<1> QED BY <1>2, <1>3, <1>4, <1>10, <1>11 DEF HandlerInv

\* Stop and Destroy of a sidecar never come to their end.
LEMMA NoSidecarReturns ==
  ASSUME TypeOK, HandlerInv, NEW i \in Inst, Running(i), ~AtCall(i)
  PROVE  i \in Mains
<1>1. call[i].op \in {"start", "stop", "destroy"} /\ call[i].stage \in Nat /\ call[i].step \in Nat
  BY ScriptEnd DEF TypeOK
<1>2. CASE call[i].op = "start"
  BY <1>2 DEF HandlerInv
<1>3. CASE call[i].op # "start"
  <2>1. call[i].step > 4
    BY <1>3, ScriptEnd DEF TypeOK
  <2>2. Past(i, "stop", 0, 2) \/ Past(i, "destroy", 0, 2)
    BY <1>1, <1>3, <2>1 DEF Past
  <2> QED BY <2>2 DEF HandlerInv, Inst
<1> QED BY <1>2, <1>3

\* The members of another family are not in this one.
LEMMA FamiliesApart ==
  ASSUME TypeOK, FamilyInv, NEW m \in Mains, NEW n \in Mains, m # n
  PROVE  Family(m) \cap Family(n) = {}
<1>1. Attached(m) \subseteq Sidecars /\ Attached(n) \subseteq Sidecars
  BY AttachedType DEF TypeOK, Inst
<1> QED BY <1>1, FamilyAssumption DEF Family, FamilyInv

\* Handlers are called in the right states, and these do not change under them.
LEMMA HandlerStep ==
  ASSUME TypeOK, FamilyInv, HandlerInv, OwnerInv, [Next]_vars
  PROVE  HandlerInv'
<1> USE DEF TypeOK
<1>1. \A j \in Inst : Attached(j) \subseteq Sidecars /\ Attached(j) \subseteq Inst
  BY AttachedType DEF Inst
<1>2. ASSUME UNCHANGED <<state, sidecars, call>> PROVE HandlerInv'
  BY <1>2 DEF HandlerInv, Past, Family, Attached, Running
<1>3. ASSUME NEW i \in Inst, Build(i) PROVE HandlerInv'
  <2>1. UNCHANGED <<sidecars, call>> /\ \A j \in Inst : j # i => state'[j] = state[j]
    BY <1>3 DEF Build, SetImage, SetGitRepo, Commit, SetState
  <2>2. ~Running(i) /\ \A m \in Mains : i \in Family(m) => ~Running(m)
    BY <1>3, SetterFrame, FreeFacts
  <2>3. \A j \in Inst : /\ Attached(j)' = Attached(j) /\ Family(j)' = Family(j)
                        /\ Running(j)' <=> Running(j)
    BY <2>1 DEF Attached, Family, Running
  <2>4. ASSUME NEW j \in Inst, call[j].op = "start"
        PROVE  j \in Mains /\ \A k \in Family(j) : state'[k] \in {"Committed", "Stopped"}
    <3>1. j \in Mains /\ Running(j)
      BY <2>4 DEF HandlerInv, Running
    <3>2. i \notin Family(j) /\ Family(j) \subseteq Inst
      BY <2>2, <3>1, AttachedType
    <3> QED BY <2>1, <2>4, <3>1, <3>2 DEF HandlerInv
  <2>5. ASSUME NEW j \in Inst, Running(j) PROVE state'[j] = state[j]
    BY <2>1, <2>2, <2>5
  <2> QED BY <2>1, <2>3, <2>4, <2>5 DEF HandlerInv, Past, Running
<1>4. ASSUME NEW i \in Inst, NEW s \in Sidecars, AddSidecar(i, s) PROVE HandlerInv'
  <2>1. /\ UNCHANGED call /\ state[s] = "None"
        /\ \A j \in Inst : state'[j] = IF j = s THEN "Committed" ELSE state[j]
    BY <1>4 DEF AddSidecar, SetState
  <2>2. ~Running(i)
    BY <1>4, FreeFacts DEF AddSidecar
  <2>3. \A j \in Inst : Running(j) => Attached(j)' = Attached(j) /\ Family(j)' = Family(j)
    BY <1>4, <2>2, AttachedAfterAdd DEF Family
  <2>4. \A j \in Inst : Running(j)' <=> Running(j)
    BY <2>1 DEF Running
  <2>5. \A j \in Inst : Family(j) \subseteq Inst
    BY AttachedType
  <2>6. ASSUME NEW j \in Inst, call[j].op = "start"
        PROVE  j \in Mains /\ \A k \in Family(j)' : state'[k] \in {"Committed", "Stopped"}
    BY <2>1, <2>3, <2>5, <2>6 DEF HandlerInv, Running
  <2>7. ASSUME NEW j \in Inst, call[j].op \in {"stop", "destroy"} PROVE state'[j] = state[j]
    <3>1. state[j] # "None"
      BY <2>7 DEF HandlerInv
    <3> QED BY <2>1, <3>1
  <2> QED BY <2>1, <2>3, <2>4, <2>6, <2>7 DEF HandlerInv, Past, Running
<1>5. ASSUME NEW i \in Inst, Configure(i) PROVE HandlerInv'
  BY <1>2, <1>4, <1>5, EditFrame, SetterFrame
<1>6. ASSUME NEW i \in Inst, Disable(i) \/ Enable(i) PROVE HandlerInv'
  BY <1>2, <1>6, NetworkObjs
<1>7. ASSUME NEW i \in Inst, StartAsync(i) \/ Stop(i) \/ Destroy(i) PROVE HandlerInv'
  <2>1. /\ UNCHANGED <<state, sidecars>> /\ Free(i)
        /\ \A j \in Inst : j # i => call'[j] = call[j]
        /\ call'[i].step = 1
        /\ \/ /\ StartAsync(i) /\ call'[i].op = "start"
           \/ /\ Stop(i) /\ call'[i].op = "stop" /\ call'[i].stage = 0
           \/ /\ Destroy(i) /\ call'[i].op = "destroy" /\ call'[i].stage = 0
    BY <1>7 DEF StartAsync, Stop, Destroy, Enter, At, ControlTypeOK
  <2>2. \A j \in Inst : Attached(j)' = Attached(j) /\ Family(j)' = Family(j)
    BY <2>1 DEF Attached, Family
  <2>3. /\ ~Running(i)
        /\ \A m \in Mains : i \in Family(m) => ~Running(m)
        /\ i \in Mains => \A s \in Attached(i) : ~Running(s)
    BY <1>1, <2>1, FreeFacts
  <2>4. StartAsync(i) => i \in Mains /\ \A j \in Family(i) : state[j] \in {"Committed", "Stopped"}
    BY DEF StartAsync, verifySidecarsStates, Family, Inst
  <2>5. /\ Stop(i) => state[i] = "Started"
        /\ Destroy(i) => state[i] \in {"Started", "Stopped"}
    BY DEF Stop, Destroy
  <2>6. \A j \in Inst : j # i => (Running(j)' <=> Running(j))
    BY <2>1 DEF Running
  <2>7. \A m \in Mains : Running(m)' => \A s \in Attached(m) : ~Running(s)'
    <3> SUFFICES ASSUME NEW m \in Mains, Running(m)', NEW s \in Attached(m)
                 PROVE  ~Running(s)'
      OBVIOUS
    <3>1. m \in Inst /\ s \in Inst /\ s \in Sidecars /\ m # s
      BY <1>1, FamilyAssumption DEF Inst
    <3>2. CASE m = i
      BY <2>3, <2>6, <3>1, <3>2
    <3>3. CASE m # i
      <4>1. Running(m)
        BY <2>6, <3>1, <3>3
      <4>2. s # i
        BY <2>3, <4>1 DEF Family
      <4> QED BY <2>6, <3>1, <4>1, <4>2 DEF HandlerInv
    <3> QED BY <3>2, <3>3
  <2>8. /\ ~Past(i, "stop", 0, 2)' /\ ~Past(i, "destroy", 0, 2)' /\ ~Past(i, "destroy", 1, 4)'
    BY <2>1 DEF Past
  <2>9. \A j \in Inst, op \in {"stop", "destroy"}, g \in {0, 1}, k \in {2, 4} :
          j # i => (Past(j, op, g, k)' <=> Past(j, op, g, k))
    BY <2>1 DEF Past
  <2> QED BY <2>1, <2>2, <2>4, <2>5, <2>7, <2>8, <2>9 DEF HandlerInv
<1>8. ASSUME NEW i \in Inst, UNCHANGED <<state, sidecars>>, call' = [call EXCEPT ![i] = Idle]
      PROVE  HandlerInv'
  <2>1. /\ \A j \in Inst : j # i => call'[j] = call[j]
        /\ call'[i].op = "idle"
    BY <1>8 DEF ControlTypeOK, Idle
  <2>2. \A j \in Inst : /\ Attached(j)' = Attached(j) /\ Family(j)' = Family(j)
                        /\ Running(j)' => Running(j)
    BY <1>8, <2>1 DEF Attached, Family, Running
  <2> QED BY <1>1, <1>8, <2>1, <2>2 DEF HandlerInv, Past
<1>9. ASSUME NEW i \in Inst, NextStage(i) PROVE HandlerInv'
  <2>1. /\ UNCHANGED <<state, sidecars>>
        /\ \A j \in Inst : j # i => call'[j] = call[j]
        /\ call'[i].op = call[i].op /\ call'[i].step = 1
        /\ call'[i].stage = call[i].stage + 1
        /\ Running(i) /\ ~AtCall(i) /\ call[i].stage < LastStage(i)
    BY <1>9 DEF NextStage, At, ControlTypeOK
  <2>2. \A j \in Inst : /\ Attached(j)' = Attached(j) /\ Family(j)' = Family(j)
                        /\ Running(j)' <=> Running(j)
    BY <2>1 DEF Attached, Family, Running
  <2>3. i \in Mains
    BY <2>1, NoSidecarReturns
  <2>4. /\ call[i].stage \in Nat /\ call[i].step \in Nat
        /\ call[i].op = "destroy" => call[i].step > 4
    BY <2>1, ScriptEnd
  <2>5. call[i].op # "stop"
    BY <2>1, <2>4 DEF LastStage
  <2>6. ASSUME Past(i, "destroy", 1, 4)' PROVE state[i] = "Started"
    <3>1. Past(i, "destroy", 1, 4)
      BY <2>1, <2>4, <2>6 DEF Past
    <3> QED BY <2>3, <3>1 DEF HandlerInv
  <2>7. \A j \in Inst, op \in {"stop", "destroy"}, g \in {0, 1}, k \in {2, 4} :
          j # i => (Past(j, op, g, k)' <=> Past(j, op, g, k))
    BY <2>1 DEF Past
  <2>8. i \notin Sidecars
    BY <2>3, FamilyAssumption
  <2> QED BY <1>1, <2>1, <2>2, <2>3, <2>5, <2>6, <2>7, <2>8 DEF HandlerInv
<1>10. ASSUME NEW i \in Inst, Return(i) PROVE HandlerInv'
  <2>1. /\ UNCHANGED sidecars /\ Running(i) /\ ~AtCall(i)
        /\ \A j \in Inst : j # i => call'[j] = call[j]
        /\ call'[i].op = "idle"
        /\ \A j \in Inst : j \notin Family(i) => state'[j] = state[j]
    BY <1>10 DEF Return, setStateForSidecars, SetState, Idle, ControlTypeOK
  <2>2. i \in Mains
    BY <2>1, NoSidecarReturns
  <2>3. \A j \in Inst : /\ Attached(j)' = Attached(j) /\ Family(j)' = Family(j)
                        /\ Running(j)' => Running(j)
    BY <2>1 DEF Attached, Family, Running
  <2>4. ASSUME NEW j \in Inst, Running(j), j # i PROVE state'[j] = state[j]
    <3>1. j \notin Family(i)
      BY <2>1, <2>2, <2>4 DEF HandlerInv, Family
    <3> QED BY <2>1, <3>1
  <2>5. ASSUME NEW j \in Inst, call[j].op = "start", j # i
        PROVE  j \in Mains /\ \A k \in Family(j) : state'[k] \in {"Committed", "Stopped"}
    <3>1. j \in Mains
      BY <2>5 DEF HandlerInv
    <3>2. \A k \in Family(j) : k \in Inst /\ k \notin Family(i)
      BY <2>2, <2>5, <3>1, FamiliesApart, AttachedType
    <3> QED BY <2>1, <2>5, <3>1, <3>2 DEF HandlerInv
  <2>6. \A j \in Inst, op \in {"stop", "destroy"}, g \in {0, 1}, k \in {2, 4} :
          Past(j, op, g, k)' => j # i /\ Past(j, op, g, k) /\ Running(j)
    BY <2>1 DEF Past, Running
  <2>7. \A j \in Inst : call'[j].op # "idle" => j # i /\ call'[j] = call[j] /\ Running(j)
    BY <2>1 DEF Running
  <2> QED BY <1>1, <2>1, <2>3, <2>4, <2>5, <2>6, <2>7 DEF HandlerInv
<1>11. ASSUME NEW i \in Inst, Step(i) PROVE HandlerInv'
  <2>1. Return(i) \/ UNCHANGED <<state, sidecars>>
    BY <1>11, HandlerFrame
  <2> QED BY <1>8, <1>9, <1>10, <1>11, <2>1, StepCases, HandlerAdvance
<1>12. CASE UNCHANGED vars
  BY <1>2, <1>12 DEF vars
<1> QED BY <1>3, <1>5, <1>6, <1>7, <1>11, <1>12 DEF Next

-----------------------------------------------------------------------------
(* States of sidecars *)

\* The states of a family change together, by setStateForSidecars.
LEMMA FollowStep ==
  ASSUME TypeOK, FamilyInv, HandlerInv, SidecarsFollowParent, [Next]_vars
  PROVE  SidecarsFollowParent'
<1> USE DEF TypeOK
<1> DEFINE Up == {"Started", "Destroyed"}
<1>1. \A j \in Inst : Attached(j) \subseteq Sidecars
  BY AttachedType
<1>2. ASSUME UNCHANGED <<state, sidecars>> PROVE SidecarsFollowParent'
  BY <1>2 DEF SidecarsFollowParent, Attached
<1>3. ASSUME NEW i \in Inst, Build(i) PROVE SidecarsFollowParent'
  <2>1. /\ UNCHANGED sidecars
        /\ \A j \in Inst : j # i => state'[j] = state[j]
        /\ state[i] \notin Up /\ state'[i] \notin Up
    BY <1>3 DEF Build, SetImage, SetGitRepo, Commit, SetState
  <2>2. \A j \in Inst : Attached(j)' = Attached(j)
    BY <2>1 DEF Attached
  <2>3. \A j \in Inst, st \in Up : state'[j] = st <=> state[j] = st
    BY <2>1
  <2> QED BY <2>2, <2>3 DEF SidecarsFollowParent, Inst
<1>4. ASSUME NEW i \in Inst, NEW s \in Sidecars, AddSidecar(i, s) PROVE SidecarsFollowParent'
  <2>1. /\ state[s] = "None" /\ state[i] \notin Up
        /\ \A j \in Inst : state'[j] = IF j = s THEN "Committed" ELSE state[j]
    BY <1>4 DEF AddSidecar, SetState, Configurable
  <2>2. \A j \in Inst, st \in Up : state'[j] = st <=> state[j] = st
    BY <2>1
  <2>3. \A j \in Inst : j # i => Attached(j)' = Attached(j)
    BY <1>4, AttachedAfterAdd
  <2> QED BY <2>1, <2>2, <2>3 DEF SidecarsFollowParent, Inst
<1>5. ASSUME NEW i \in Inst, Configure(i) PROVE SidecarsFollowParent'
  BY <1>2, <1>4, <1>5, EditFrame
<1>6. ASSUME NEW i \in Inst, Return(i) PROVE SidecarsFollowParent'
  <2>1. /\ UNCHANGED sidecars /\ Running(i) /\ ~AtCall(i)
        /\ \A j \in Inst : j \notin Family(i) => state'[j] = state[j]
        /\ \A j \in Inst : j \in Family(i) => state'[j] = Outcome(call[i].op)
    BY <1>6 DEF Return, setStateForSidecars, SetState
  <2>2. i \in Mains
    BY <2>1, NoSidecarReturns
  <2>3. \A j \in Inst : Attached(j)' = Attached(j)
    BY <2>1 DEF Attached
  <2>4. ASSUME NEW s \in Sidecars, NEW st \in Up
        PROVE  state'[s] = st <=> \E m \in Mains : s \in Attached(m) /\ state'[m] = st
    <3>1. CASE s \in Attached(i)
      <4>1. \A m \in Mains : s \in Attached(m) => m = i
        BY <2>2, <3>1 DEF FamilyInv
      <4>2. state'[s] = state'[i] /\ i \in Mains
        BY <2>1, <2>2, <3>1 DEF Family, Inst
      <4> QED BY <3>1, <4>1, <4>2
    <3>2. CASE s \notin Attached(i)
      <4>1. s # i /\ s \notin Family(i) /\ s \in Inst
        BY <2>2, <3>2, FamilyAssumption DEF Family, Inst
      <4>2. state'[s] = state[s]
        BY <2>1, <4>1
      <4>3. \A m \in Mains : m # i => state'[m] = state[m]
        BY <1>1, <2>1, <2>2, FamilyAssumption DEF Family, Inst
      <4>4. \A m \in Mains : s \in Attached(m) => m # i
        BY <3>2
      <4> QED BY <4>2, <4>3, <4>4 DEF SidecarsFollowParent
    <3> QED BY <3>1, <3>2
  <2> QED BY <2>3, <2>4 DEF SidecarsFollowParent, Inst
<1>7. ASSUME NEW i \in Inst,
             \/ StartAsync(i) \/ Stop(i) \/ Destroy(i) \/ Disable(i) \/ Enable(i) \/ Step(i)
      PROVE  SidecarsFollowParent'
  BY <1>2, <1>6, <1>7, HandlerFrame
<1>8. CASE UNCHANGED vars
  BY <1>2, <1>8 DEF vars
<1> QED BY <1>3, <1>5, <1>7, <1>8 DEF Next

-----------------------------------------------------------------------------
(* The order in which the objects of a pod come and go *)

\* What a call that does not fail has done to the cluster.
LEMMA CallDone ==
  ASSUME NEW i \in Inst, Skip(i) \/ CallOk(i) \/ LookupFault(i)
  PROVE  \/ /\ Needed(Current(i), Subject(i))
            /\ objs' = IF Leaves(Current(i))
                       THEN objs \cup {<<Current(i).kind, Subject(i)>>}
                       ELSE objs \ {<<Current(i).kind, Subject(i)>>}
         \/ UNCHANGED objs /\ ~Needed(Current(i), Subject(i))
         \/ UNCHANGED objs /\ Current(i).verb = "restore"
BY DEF Skip, CallOk, LookupFault, Effect, cluster

\* The handler of one family leaves the objects of an instance of the test alone
\* that is in another.
LEMMA OtherObjs ==
  ASSUME TypeOK, NEW i \in Inst, Step(i), NEW m \in Mains, m # i, NEW k
  PROVE  Has(m, k)' <=> Has(m, k)
<1>1. AtCall(i) => Subject(i) = i \/ Subject(i) \in Attached(i)
  BY SubjectOf DEF TypeOK, AtCall
<1>2. AtCall(i) => Subject(i) # m
  BY <1>1, AttachedType, FamilyAssumption DEF TypeOK
<1> QED BY <1>2, StepObjs DEF Has

\* The handler of another instance leaves the state and the handler of m alone.
LEMMA OtherFrame ==
  ASSUME TypeOK, NEW i \in Inst, Step(i), NEW m \in Mains, m # i
  PROVE  call'[m] = call[m] /\ state'[m] = state[m] /\ UNCHANGED <<sidecars, settings>>
<1>1. m \notin Family(i) /\ m \in Inst
  BY AttachedType, FamilyAssumption DEF Family, TypeOK, Inst
<1>2. call'[m] = call[m]
  BY <1>1, StepCases DEF Advance, NextStage, Return, TypeOK, ControlTypeOK
<1>3. UNCHANGED <<sidecars, settings>> /\ (Return(i) \/ UNCHANGED state)
  BY HandlerFrame
<1> QED BY <1>1, <1>2, <1>3 DEF Return, setStateForSidecars, SetState

\* A setter works on an instance that is not started, the two without a state check
\* excepted, and on its own policy rules.
LEMMA RulesFrame ==
  ASSUME TypeOK, NEW i \in Inst, Configure(i), NEW j \in Inst
  PROVE  /\ state[i] \in Configurable \/ SetUnguarded(i)
         /\ j # i \/ state[i] \notin Configurable => rules'[j] = rules[j]
         /\ state'[j] = "Started" => state[j] = "Started"
<1>1. /\ state[i] \in Configurable \/ SetUnguarded(i)
      /\ \A k \in Inst : k # i \/ state[i] \notin Configurable => rules'[k] = rules[k]
      /\ (\E s \in Sidecars : AddSidecar(i, s)) \/ UNCHANGED state
  BY DEF Configure, Edit, Set, TypeOK, SettingsTypeOK, Configurable,
       SetStartCommand, SetArgs, SetEnvironmentVariable, SetNodeSelector,
      SetImagePullPolicy, SetInstanceType, SetUnguarded,
       SetMemory, SetCPU, SetPrivileged, AddKubernetesCapability, AddKubernetesCapabilities,
       SetLivenessProbe, SetReadinessProbe, SetStartupProbe, checkStateForProbe, AddPolicyRule,
       AddVolumeWithOwner, AddFile, AddFolder, AddPort, AddSidecar,
       InitNetShaper, InitObsy, InitTshark
<1>2. ASSUME NEW s \in Sidecars, AddSidecar(i, s)
      PROVE  state'[j] = "Started" => state[j] = "Started"
  BY <1>2 DEF AddSidecar, SetState
<1> QED BY <1>1, <1>2

\* A call of m's own handler that does not fail.
LEMMA AuthAdvance ==
  ASSUME TypeOK, HandlerInv, NEW m \in Mains, Authorized(m), AtCall(m), Advance(m),
         Skip(m) \/ CallOk(m) \/ LookupFault(m)
  PROVE  Authorized(m)'
<1> USE DEF TypeOK
<1> DEFINE c == Current(m)
           k == call[m].step
           g == Len(sidecars[m]) + 1
           Unchanged(K) == \A kind \in K : Has(m, kind)' <=> Has(m, kind)
<1>1. m \in Inst /\ Running(m) /\ k \in Nat \ {0} /\ call[m].stage \in Nat /\ g \in Nat
  BY SubjectType DEF AtCall, ControlTypeOK, Calls, Inst
<1>2. /\ UNCHANGED <<state, sidecars, rules>>
      /\ call'[m].op = call[m].op /\ call'[m].stage = call[m].stage
      /\ call'[m].step = k + 1
  BY <1>1 DEF Skip, CallOk, LookupFault, Advance, ControlTypeOK, Calls, settings
<1>3. CASE call[m].op = "start" /\ call[m].stage <= Len(sidecars[m])
  <2>1. c.kind \notin PodKinds
    BY <1>1, <1>3, CallTable
    DEF PodKinds, DeployOrPatchService, CreatePersistentVolumeClaim, CreateOrUpdateConfigMap,
        CreateMiddleware, CreateIngressRoute
  <2>2. Unchanged(PodKinds)
    BY <1>1, <2>1, CallDone DEF Has
  <2>3. \A op \in {"stop", "destroy"} : ~Past(m, op, 0, 1)'
    BY <1>2, <1>3 DEF Past
  <2>4. \A q \in {1, 2, 3} : ~Past(m, "start", g, q)'
    BY <1>1, <1>2, <1>3 DEF Past
  <2> QED BY <1>2, <2>2, <2>3, <2>4 DEF Authorized, PodKinds
<1>4. CASE call[m].op = "start" /\ ~(call[m].stage <= Len(sidecars[m]))
  <2>1. Subject(m) = m
    BY <1>1, <1>4, SubjectOf
  <2>2. \A op \in {"stop", "destroy"} : ~Past(m, op, 0, 1)'
    BY <1>2, <1>4 DEF Past
  <2>3. state[m] # "Started"
    BY <1>1, <1>4 DEF HandlerInv, Family
  <2>4. Leaves(c) /\ c.verb = "create"
    BY <1>1, <1>4, CallTable
    DEF Leaves, CreateServiceAccount, CreateRole, CreateRoleBinding, CreateReplicaSet
  <2>5. \/ Needed(c, m) /\ objs' = objs \cup {<<c.kind, m>>}
        \/ ~Needed(c, m) /\ UNCHANGED objs
    BY <1>1, <2>1, <2>4, CallDone
  <2>6. \A kind \in PodKinds : Has(m, kind) => Has(m, kind)'
    BY <2>5 DEF Has
  <2>7. \A q \in {1, 2, 3} : Past(m, "start", g, q)' => Past(m, "start", g, q) \/ k = q
    BY <1>1, <1>2 DEF Past
  <2>8. /\ k = 1 => c = CreateServiceAccount
        /\ k = 2 => c = CreateRole
        /\ k = 3 => c = CreateRoleBinding
        /\ k # 4 => c.kind # "ReplicaSet"
    BY <1>1, <1>4, CallTable
    DEF CreateServiceAccount, CreateRole, CreateRoleBinding, CreateReplicaSet
  <2>9. /\ Needed(CreateServiceAccount, m)
        /\ rules[m] => Needed(CreateRole, m) /\ Needed(CreateRoleBinding, m)
    BY DEF Needed, CreateServiceAccount, CreateRole, CreateRoleBinding, DeployOrPatchService,
       DeleteService
  <2>10. /\ k = 1 => Has(m, "ServiceAccount")'
         /\ k = 2 /\ rules[m] => Has(m, "Role")'
         /\ k = 3 /\ rules[m] => Has(m, "RoleBinding")'
    BY <2>5, <2>8, <2>9 DEF Has, CreateServiceAccount, CreateRole, CreateRoleBinding
  <2>11. Has(m, "ReplicaSet")' => Has(m, "ServiceAccount")'
    <3>1. k # 4 => (Has(m, "ReplicaSet")' => Has(m, "ReplicaSet"))
      BY <2>5, <2>8 DEF Has
    <3>2. k = 4 => Past(m, "start", g, 1)
      BY <1>1, <1>4 DEF Past
    <3> QED BY <2>6, <3>1, <3>2 DEF Authorized, PodKinds
  <2> QED BY <1>2, <2>2, <2>3, <2>6, <2>7, <2>10, <2>11 DEF Authorized, PodKinds
<1>5. CASE call[m].op \in {"stop", "destroy"} /\ call[m].stage = 0
  <2>1. Subject(m) = m
    BY <1>1, <1>5, SubjectOf
  <2>2. \A q \in {1, 2, 3} : ~Past(m, "start", g, q)'
    BY <1>2, <1>5 DEF Past
  <2>3. objs' \subseteq objs
    <3>1. ~Leaves(c)
      BY <1>1, <1>5, CallTable
      DEF Leaves, DeleteReplicaSet, DeleteServiceAccount, DeleteRole, DeleteRoleBinding
    <3> QED BY <1>1, <3>1, CallDone
  <2>4. CASE k = 1
    <3>1. c = DeleteReplicaSet
      BY <1>1, <1>5, <2>4, CallTable
    <3>2. Needed(c, m) /\ ~Leaves(c) /\ c.verb # "restore" /\ c.kind = "ReplicaSet"
      BY <3>1 DEF Needed, Leaves, DeleteReplicaSet, DeployOrPatchService, DeleteService
    <3>3. ~Has(m, "ReplicaSet")'
      BY <1>1, <2>1, <3>2, CallDone DEF Has
    <3> QED BY <1>2, <2>2, <3>3 DEF Authorized
  <2>5. CASE k # 1
    <3>1. Past(m, "stop", 0, 1) \/ Past(m, "destroy", 0, 1)
      BY <1>1, <1>5, <2>5 DEF Past
    <3>2. ~Has(m, "ReplicaSet")'
      BY <2>3, <3>1 DEF Authorized, Has
    <3> QED BY <1>2, <2>2, <3>2 DEF Authorized
  <2> QED BY <2>4, <2>5
<1>6. CASE call[m].op \in {"stop", "destroy"} /\ call[m].stage > 0
  <2>1. \A q \in {1, 2, 3} : ~Past(m, "start", g, q)'
    BY <1>2, <1>6 DEF Past
  <2>2. Past(m, "stop", 0, 1) \/ Past(m, "destroy", 0, 1)
    BY <1>1, <1>6 DEF Past
  <2>3. ~Leaves(c)
    BY <1>1, <1>6, CallTable
    DEF Leaves, DeletePersistentVolumeClaim, DeleteConfigMap, DeleteService, EnableIfDisabled
  <2>4. ~Has(m, "ReplicaSet")'
    BY <1>1, <2>2, <2>3, CallDone DEF Authorized, Has
  <2> QED BY <1>2, <2>1, <2>4 DEF Authorized
<1>7. call[m].op \in {"start", "stop", "destroy"}
  BY <1>1 DEF Running, ControlTypeOK, Calls, Ops
<1> QED BY <1>1, <1>3, <1>4, <1>5, <1>6, <1>7

\* A call of m's own handler that fails, whether it was carried out or not.
LEMMA AuthFail ==
  ASSUME TypeOK, HandlerInv, NEW m \in Mains, Authorized(m), AtCall(m),
         CallRefused(m) \/ CallFault(m)
  PROVE  Authorized(m)'
<1> USE DEF TypeOK
<1> DEFINE c == Current(m)
           k == call[m].step
           g == Len(sidecars[m]) + 1
<1>1. m \in Inst /\ Running(m) /\ k \in Nat \ {0} /\ call[m].stage \in Nat /\ g \in Nat
  BY SubjectType DEF AtCall, ControlTypeOK, Calls, Inst
<1>2. UNCHANGED <<state, sidecars, rules>> /\ call'[m].op = "idle"
  BY <1>1 DEF CallRefused, CallFault, Fail, Idle, ControlTypeOK, settings
<1>3. \A op \in {"start", "stop", "destroy"}, n \in {0, g}, q \in {1, 2, 3} : ~Past(m, op, n, q)'
  BY <1>2 DEF Past
<1>4. SUFFICES /\ Has(m, "ReplicaSet")' => Has(m, "ServiceAccount")'
               /\ Has(m, "ReplicaSet")' /\ state[m] = "Started" /\ rules[m] =>
                    Has(m, "Role")' /\ Has(m, "RoleBinding")'
  BY <1>2, <1>3 DEF Authorized
<1>5. CASE UNCHANGED objs
  BY <1>5 DEF Authorized, Has
<1>6. CASE Leaves(c) /\ objs' = objs \cup {<<c.kind, Subject(m)>>}
  <2>1. call[m].op = "start"
    BY <1>1, <1>6, Creations
  <2>2. state[m] # "Started"
    BY <1>1, <2>1 DEF HandlerInv, Family
  <2>3. CASE c.kind # "ReplicaSet"
    BY <1>6, <2>2, <2>3 DEF Authorized, Has
  <2>4. CASE c.kind = "ReplicaSet"
    <3>1. k = 4 /\ ~(call[m].stage <= Len(sidecars[m]))
      BY <1>1, <2>1, <2>4, CallTable
      DEF DeployOrPatchService, CreatePersistentVolumeClaim, CreateOrUpdateConfigMap,
          CreateMiddleware, CreateIngressRoute, CreateServiceAccount, CreateRole,
          CreateRoleBinding, CreateReplicaSet
    <3>2. Past(m, "start", g, 1)
      BY <1>1, <2>1, <3>1 DEF Past
    <3> QED BY <1>6, <2>2, <3>2 DEF Authorized, Has
  <2> QED BY <2>3, <2>4
<1>7. CASE ~Leaves(c) /\ objs' = objs \ {<<c.kind, Subject(m)>>}
  <2>1. CASE c.kind \in {"ServiceAccount", "Role", "RoleBinding"}
    <3>1. call[m].op \in {"stop", "destroy"} /\ call[m].stage = 0 /\ k > 1
      BY <1>1, <1>7, <2>1, CallTable
      DEF DeployOrPatchService, CreatePersistentVolumeClaim, CreateOrUpdateConfigMap,
          CreateMiddleware, CreateIngressRoute, CreateServiceAccount, CreateRole,
          CreateRoleBinding, CreateReplicaSet, DeleteReplicaSet, DeletePersistentVolumeClaim,
          DeleteConfigMap, DeleteService, EnableIfDisabled, Leaves
    <3>2. Past(m, "stop", 0, 1) \/ Past(m, "destroy", 0, 1)
      BY <1>1, <3>1 DEF Past
    <3> QED BY <1>7, <3>2 DEF Authorized, Has
  <2>2. CASE c.kind \notin {"ServiceAccount", "Role", "RoleBinding"}
    BY <1>7, <2>2 DEF Authorized, Has
  <2> QED BY <2>1, <2>2
<1>8. Step(m)
  BY DEF Step
<1> QED BY <1>1, <1>5, <1>6, <1>7, <1>8, StepObjs

\* deployPod creates the replica set last, and destroyPod deletes it first.
LEMMA AuthStep ==
  ASSUME TypeOK, HandlerInv, AuthInv, [Next]_vars
  PROVE  AuthInv'
<1> SUFFICES ASSUME NEW m \in Mains PROVE Authorized(m)'
  BY DEF AuthInv
<1> USE DEF TypeOK
<1> DEFINE g == Len(sidecars[m]) + 1
<1>1. m \in Inst /\ Authorized(m) /\ Len(sidecars[m]) \in Nat
  BY SubjectType DEF Inst, AuthInv
<1>2. ASSUME \A k \in PodKinds : Has(m, k)' <=> Has(m, k),
             state'[m] = "Started" => state[m] = "Started" /\ (rules'[m] => rules[m]),
             Running(m)' => /\ call'[m] = call[m] /\ sidecars'[m] = sidecars[m]
                            /\ rules'[m] => rules[m]
      PROVE  Authorized(m)'
  <2>1. CASE Running(m)'
    BY <1>1, <1>2, <2>1 DEF Authorized, Past, PodKinds
  <2>2. CASE ~Running(m)'
    <3>1. ASSUME NEW n, NEW k, NEW op \in {"start", "stop", "destroy"} PROVE ~Past(m, op, n, k)'
      BY <2>2 DEF Past, Running
    <3> QED BY <1>1, <1>2, <3>1 DEF Authorized, PodKinds
  <2> QED BY <2>1, <2>2
<1>3. ASSUME NEW i \in Inst, Build(i) PROVE Authorized(m)'
  <2>1. UNCHANGED <<objs, call, sidecars, rules>>
    BY <1>3 DEF Build, SetImage, SetGitRepo, Commit, cluster, settings
  <2>2. state'[m] = "Started" => state[m] = "Started"
    BY <1>1, <1>3 DEF Build, SetImage, SetGitRepo, Commit, SetState
  <2> QED BY <1>2, <2>1, <2>2 DEF Has
<1>4. ASSUME NEW i \in Inst, Configure(i) PROVE Authorized(m)'
  <2>1. Free(i) /\ UNCHANGED <<objs, call>>
    BY <1>4, SetterFrame DEF cluster
  <2>2. state'[m] = "Started" => state[m] = "Started" /\ rules'[m] = rules[m]
    BY <1>1, <1>4, RulesFrame DEF Configurable
  <2>3. m # i => rules'[m] = rules[m] /\ sidecars'[m] = sidecars[m]
    <3>1. m # i => rules'[m] = rules[m]
      BY <1>1, <1>4, RulesFrame
    <3>2. m # i => sidecars'[m] = sidecars[m]
      BY <1>1, <1>4, EditFrame DEF AddSidecar, SettingsTypeOK
    <3> QED BY <3>1, <3>2
  <2>4. Running(m)' => m # i
    BY <2>1, FreeFacts DEF Running
  <2> QED BY <1>2, <2>1, <2>2, <2>3, <2>4 DEF Has
<1>5. ASSUME NEW i \in Inst, Disable(i) \/ Enable(i) PROVE Authorized(m)'
  <2>1. /\ objs' \in {objs \cup {<<"NetworkPolicy", i>>}, objs \ {<<"NetworkPolicy", i>>}}
        /\ UNCHANGED <<state, sidecars, rules, call>>
    BY <1>5, NetworkObjs DEF settings
  <2>2. \A k \in PodKinds : Has(m, k)' <=> Has(m, k)
    BY <2>1 DEF Has, PodKinds
  <2> QED BY <1>2, <2>1, <2>2
<1>6. ASSUME NEW i \in Inst, StartAsync(i) \/ Stop(i) \/ Destroy(i) PROVE Authorized(m)'
  <2>1. /\ UNCHANGED <<objs, state, sidecars, rules>>
        /\ i # m => call'[m] = call[m]
        /\ call'[i].step = 1
        /\ \/ call'[i].op = "start" /\ call'[i].stage \in {0, Len(sidecars[i]) + 1}
           \/ call'[i].op \in {"stop", "destroy"} /\ call'[i].stage = 0
    BY <1>1, <1>6 DEF StartAsync, Stop, Destroy, Enter, At, ControlTypeOK, cluster, settings
  <2>2. CASE i # m
    BY <1>2, <2>1, <2>2 DEF Has
  <2>3. CASE i = m
    <3>1. /\ \A op \in {"stop", "destroy"} : ~Past(m, op, 0, 1)'
          /\ \A q \in {1, 2, 3} : ~Past(m, "start", g, q)'
      BY <1>1, <2>1, <2>3 DEF Past
    <3> QED BY <1>1, <2>1, <3>1 DEF Authorized, Has
  <2> QED BY <2>2, <2>3
<1>7. ASSUME NEW i \in Inst, Step(i), i # m PROVE Authorized(m)'
  <2>1. UNCHANGED <<sidecars, rules>> /\ call'[m] = call[m] /\ state'[m] = state[m]
    BY <1>7, OtherFrame DEF settings
  <2>2. \A k \in PodKinds : Has(m, k)' <=> Has(m, k)
    BY <1>7, OtherObjs
  <2> QED BY <1>2, <2>1, <2>2
<1>8. ASSUME NextStage(m) PROVE Authorized(m)'
  <2>1. /\ UNCHANGED <<objs, state, sidecars, rules>>
        /\ call'[m].op = call[m].op /\ call'[m].step = 1
        /\ call'[m].stage = call[m].stage + 1
        /\ Running(m) /\ ~AtCall(m) /\ call[m].stage < LastStage(m)
    BY <1>1, <1>8 DEF NextStage, At, ControlTypeOK, cluster, settings
  <2>2. /\ call[m].stage \in Nat /\ call[m].step \in Nat /\ call[m].step > 3
    BY <1>1, <2>1, ScriptEnd
  <2>3. \A q \in {1, 2, 3} : ~Past(m, "start", g, q)'
    BY <1>1, <2>1, <2>2 DEF Past, LastStage
  <2>4. \A op \in {"stop", "destroy"} : Past(m, op, 0, 1)' => Past(m, op, 0, 1)
    BY <2>1, <2>2 DEF Past
  <2> QED BY <1>1, <2>1, <2>3, <2>4 DEF Authorized, Has
<1>9. ASSUME Return(m) PROVE Authorized(m)'
  <2>1. /\ UNCHANGED <<objs, sidecars, rules>> /\ call'[m].op = "idle"
        /\ Running(m) /\ ~AtCall(m) /\ call[m].stage = LastStage(m)
        /\ state'[m] = Outcome(call[m].op)
    BY <1>1, <1>9 DEF Return, setStateForSidecars, SetState, Family, Idle, ControlTypeOK,
       cluster, settings
  <2>2. \A op \in {"start", "stop", "destroy"}, n \in {0, g}, q \in {1, 2, 3} : ~Past(m, op, n, q)'
    BY <2>1 DEF Past
  <2>3. ASSUME state'[m] = "Started"
        PROVE  Past(m, "start", g, 2) /\ Past(m, "start", g, 3)
    <3>1. call[m].op = "start"
      BY <1>1, <2>1, <2>3, ScriptEnd DEF Outcome
    <3>2. call[m].stage = g /\ call[m].step \in Nat
      BY <1>1, <2>1, <3>1, ScriptEnd DEF LastStage
    <3>3. call[m].step > 4
      BY <1>1, <2>1, <3>2, ScriptEnd
    <3> QED BY <1>1, <3>1, <3>2, <3>3 DEF Past
  <2> QED BY <1>1, <2>1, <2>2, <2>3 DEF Authorized, Has
<1>10. ASSUME Step(m) PROVE Authorized(m)'
  BY <1>1, <1>8, <1>9, <1>10, StepCases, AuthAdvance, AuthFail
<1>11. CASE UNCHANGED vars
  BY <1>2, <1>11 DEF vars, cluster, settings, Has
<1> QED BY <1>3, <1>4, <1>5, <1>6, <1>7, <1>10, <1>11 DEF Next

-----------------------------------------------------------------------------
(* The cluster holds only what the settings ask for *)

\* The settings that decide which objects are created are never taken back.
LEMMA SettingsGrow ==
  ASSUME TypeOK, NEW i \in Inst, Configure(i), NEW j \in Inst
  PROVE  /\ volume[j] => volume'[j]
         /\ files[j] > 0 => files'[j] > 0
         /\ rules[j] => rules'[j]
         /\ ports[j] # {} => ports'[j] # {}
<1> USE DEF TypeOK, SettingsTypeOK
<1>1. ASSUME NEW k \in Inst, Set(k) \/ SetUnguarded(k)
      PROVE  UNCHANGED <<volume, files, rules, ports>>
  BY <1>1 DEF Set, SetUnguarded
<1>2. ASSUME NEW k \in Inst, NEW n \in Nat, addFileToInstance(k, n)
      PROVE  files[j] > 0 => files'[j] > 0
  <2>1. files \in [Inst -> 0..MaxTotalFiles] /\ files'[j] = IF j = k THEN files[j] + n ELSE files[j]
    BY <1>2 DEF addFileToInstance
  <2>2. files[j] \in Nat
    BY <2>1, BoundAssumption
  <2> QED BY <2>1, <2>2
<1>3. CASE AddPolicyRule(i)
  BY <1>3 DEF AddPolicyRule
<1>4. CASE AddVolumeWithOwner(i)
  BY <1>4 DEF AddVolumeWithOwner
<1>5. CASE AddFile(i)
  BY <1>2, <1>5 DEF AddFile
<1>6. CASE AddFolder(i)
  <2>1. PICK n \in 1..MaxTotalFiles : addFileToInstance(i, n)
    BY <1>6 DEF AddFolder
  <2>2. n \in Nat
    BY BoundAssumption
  <2> QED BY <1>2, <1>6, <2>1, <2>2 DEF AddFolder
<1>7. ASSUME NEW p \in Ports, AddPort(i, p)
      PROVE  /\ ports[j] # {} => ports'[j] # {}
             /\ UNCHANGED <<volume, files, rules>>
  BY <1>7 DEF AddPort
<1>8. ASSUME NEW s \in Sidecars, AddSidecar(i, s)
      PROVE  /\ volume[j] => volume'[j]
             /\ files[j] > 0 => files'[j] > 0
             /\ rules[j] => rules'[j]
             /\ ports[j] # {} => ports'[j] # {}
  <2>1. s \in Inst
    BY DEF Inst
  <2>2. CASE InitNetShaper(s)
    BY <2>1, <2>2 DEF InitNetShaper
  <2>3. CASE InitObsy(s)
    BY <1>2, <2>1, <2>3 DEF InitObsy
  <2>4. CASE InitTshark(s)
    BY <2>1, <2>4 DEF InitTshark
  <2> QED BY <1>8, <2>2, <2>3, <2>4 DEF AddSidecar
<1> QED BY <1>1, <1>3, <1>4, <1>5, <1>6, <1>7, <1>8
    DEF Configure, SetStartCommand, SetArgs, SetEnvironmentVariable, SetNodeSelector,
        SetImagePullPolicy, SetInstanceType,
        SetMemory, SetCPU, SetPrivileged, AddKubernetesCapability, AddKubernetesCapabilities,
        SetLivenessProbe, SetReadinessProbe, SetStartupProbe

\* A handler creates what is needed.
LEMMA CreatesNeeded ==
  ASSUME NEW i \in Inst, Step(i)
  PROVE  \/ objs' \subseteq objs
         \/ /\ AtCall(i) /\ Leaves(Current(i)) /\ Needed(Current(i), Subject(i))
            /\ objs' = objs \cup {<<Current(i).kind, Subject(i)>>}
BY DEF Step, Skip, CallOk, LookupFault, CallRefused, CallFault, NextStage, Return, Effect, cluster

\* A service is created by one call only, the first of a start.
LEMMA ServiceCall ==
  ASSUME TypeOK, NEW i \in Inst, AtCall(i), Leaves(Current(i)), Current(i).kind = "Service"
  PROVE  /\ Current(i) = DeployOrPatchService
         /\ call[i].op = "start" /\ call[i].stage = 0 /\ call[i].step = 1
BY CallTable DEF TypeOK, Leaves,
   CreatePersistentVolumeClaim, CreateOrUpdateConfigMap,
   CreateMiddleware, CreateIngressRoute, CreateServiceAccount, CreateRole,
   CreateRoleBinding, CreateReplicaSet, DeleteReplicaSet, DeleteServiceAccount,
   DeleteRole, DeleteRoleBinding, DeletePersistentVolumeClaim, DeleteConfigMap,
   DeleteService, EnableIfDisabled

\* An object is created only if the settings ask for it, and they stay.
LEMMA ResourceStep ==
  ASSUME TypeOK, ResourceInv, [Next]_vars
  PROVE  ResourceInv'
<1> SUFFICES ASSUME NEW x \in Inst PROVE AskedFor(x)'
  BY DEF ResourceInv
<1> USE DEF TypeOK
<1>1. AskedFor(x)
  BY DEF ResourceInv
<1>2. ASSUME UNCHANGED <<sidecars, settings>>,
             \A k \in PodKinds \cup ResourceKinds : Has(x, k)' => Has(x, k)
      PROVE  AskedFor(x)'
  BY <1>1, <1>2
  DEF AskedFor, settings, FamilyPorts, Family, Attached, PodKinds, ResourceKinds
<1>3. ASSUME NEW i \in Inst, Build(i) PROVE AskedFor(x)'
  BY <1>2, <1>3 DEF Build, SetImage, SetGitRepo, Commit, cluster, Has
<1>4. ASSUME NEW i \in Inst, Configure(i) PROVE AskedFor(x)'
  <2>1. UNCHANGED objs
    BY <1>4, SetterFrame DEF cluster
  <2>2. Attached(x) \subseteq Attached(x)'
    <3>1. ASSUME NEW s \in Sidecars, AddSidecar(i, s) PROVE Attached(x) \subseteq Attached(x)'
      BY <3>1, AttachedAfterAdd
    <3>2. CASE UNCHANGED sidecars
      BY <3>2 DEF Attached
    <3> QED BY <1>4, <3>1, <3>2, EditFrame
  <2>3. Family(x) \subseteq Family(x)' /\ Family(x) \subseteq Inst
    BY <2>2, AttachedType DEF Family
  <2>4. FamilyPorts(x) # {} => FamilyPorts(x)' # {}
    <3>1. \A j \in Inst : ports[j] # {} => ports'[j] # {}
      BY <1>4, SettingsGrow
    <3> QED BY <2>3, <3>1 DEF FamilyPorts
  <2>5. /\ volume[x] => volume'[x]
        /\ files[x] > 0 => files'[x] > 0
        /\ rules[x] => rules'[x]
    BY <1>4, SettingsGrow
  <2> QED BY <1>1, <2>1, <2>4, <2>5 DEF AskedFor, Has
<1>5. ASSUME NEW i \in Inst, Disable(i) \/ Enable(i) PROVE AskedFor(x)'
  <2>1. objs' \subseteq objs \cup {<<"NetworkPolicy", i>>} /\ UNCHANGED <<sidecars, settings>>
    BY <1>5, NetworkObjs
  <2>2. \A k \in PodKinds \cup ResourceKinds : Has(x, k)' => Has(x, k)
    BY <2>1 DEF Has, PodKinds, ResourceKinds
  <2> QED BY <1>2, <2>1, <2>2
<1>6. ASSUME NEW i \in Inst, StartAsync(i) \/ Stop(i) \/ Destroy(i) PROVE AskedFor(x)'
  BY <1>2, <1>6 DEF StartAsync, Stop, Destroy, Enter, cluster, Has
<1>7. ASSUME NEW i \in Inst, Step(i) PROVE AskedFor(x)'
  <2>1. UNCHANGED <<sidecars, settings>>
    BY <1>7, HandlerFrame
  <2>2. CASE objs' \subseteq objs
    BY <1>2, <2>1, <2>2 DEF Has
  <2>3. CASE /\ AtCall(i) /\ Leaves(Current(i)) /\ Needed(Current(i), Subject(i))
             /\ objs' = objs \cup {<<Current(i).kind, Subject(i)>>}
    <3>1. CASE Subject(i) # x
      BY <1>2, <2>1, <2>3, <3>1 DEF Has
    <3>2. CASE Subject(i) = x
      <4>1. \A k \in PodKinds \cup ResourceKinds : Has(x, k)' => Has(x, k) \/ k = Current(i).kind
        BY <2>3, <3>2 DEF Has
      <4>2. /\ Current(i).kind = "PersistentVolumeClaim" => volume[x]
            /\ Current(i).kind = "ConfigMap" => files[x] > 0
            /\ Current(i).kind \in {"Role", "RoleBinding"} => rules[x]
        BY <2>3, <3>2 DEF Needed
      <4>3. Current(i).kind = "Service" => FamilyPorts(x) # {}
        BY <2>3, <3>2, ServiceCall DEF Needed
      <4>4. FamilyPorts(x)' = FamilyPorts(x) /\ UNCHANGED <<volume, files, rules>>
        BY <2>1 DEF FamilyPorts, Family, Attached, settings
      <4> QED BY <1>1, <4>1, <4>2, <4>3, <4>4 DEF AskedFor, PodKinds, ResourceKinds
    <3> QED BY <3>1, <3>2
  <2> QED BY <1>7, <2>2, <2>3, CreatesNeeded
<1>8. CASE UNCHANGED vars
  BY <1>2, <1>8 DEF vars, cluster, Has
<1> QED BY <1>3, <1>4, <1>5, <1>6, <1>7, <1>8 DEF Next

-----------------------------------------------------------------------------
(* The service a client does not know of *)

\* The client does not forget a service.
LEMMA ServiceKept ==
  ASSUME TypeOK, NEW i \in Inst, Step(i), NEW m \in Inst
  PROVE  service[m] => service'[m]
BY DEF Step, Skip, CallOk, LookupFault, CallRefused, CallFault, NextStage, Return,
   TypeOK, ClusterTypeOK

\* A start that gets past its first call has stored the service it deployed.
LEMMA ServiceStep ==
  ASSUME TypeOK, HandlerInv, ResourceInv, ServiceInv, [Next]_vars
  PROVE  ServiceInv'
<1> SUFFICES ASSUME NEW m \in Mains PROVE ServiceKnown(m)'
  BY DEF ServiceInv
<1> USE DEF TypeOK
<1>1. /\ m \in Inst /\ ServiceKnown(m) /\ AskedFor(m)
      /\ call[m].stage \in Nat /\ call[m].step \in Nat /\ Len(sidecars[m]) \in Nat
  BY SubjectType DEF Inst, ServiceInv, ResourceInv, ControlTypeOK, Calls
<1>2. ASSUME Has(m, "Service")' => Has(m, "Service"), service[m] => service'[m],
             call'[m] = call[m], state[m] = "Committed" => state'[m] = "Committed"
      PROVE  ServiceKnown(m)'
  BY <1>1, <1>2 DEF ServiceKnown, Past
<1>3. ASSUME NEW i \in Inst, Build(i) PROVE ServiceKnown(m)'
  <2>1. UNCHANGED <<objs, call, service>>
    BY <1>3 DEF Build, SetImage, SetGitRepo, Commit, cluster
  <2>2. state[m] = "Committed" => state'[m] = "Committed"
    BY <1>1, <1>3 DEF Build, SetImage, SetGitRepo, Commit, SetState
  <2> QED BY <1>2, <2>1, <2>2 DEF Has
<1>4. ASSUME NEW i \in Inst, Configure(i) PROVE ServiceKnown(m)'
  <2>1. UNCHANGED <<objs, call, service>>
    BY <1>4, SetterFrame DEF cluster
  <2>2. state[m] = "Committed" => state'[m] = "Committed"
    BY <1>1, <1>4, EditFrame DEF AddSidecar, SetState
  <2> QED BY <1>2, <2>1, <2>2 DEF Has
<1>5. ASSUME NEW i \in Inst, Disable(i) \/ Enable(i) PROVE ServiceKnown(m)'
  <2>1. /\ objs' \subseteq objs \cup {<<"NetworkPolicy", i>>}
        /\ UNCHANGED <<state, service, call>>
    BY <1>5, NetworkObjs
  <2> QED BY <1>2, <2>1 DEF Has
<1>6. ASSUME NEW i \in Inst, StartAsync(i) \/ Stop(i) \/ Destroy(i) PROVE ServiceKnown(m)'
  <2>1. /\ UNCHANGED <<objs, state, service>>
        /\ i # m => call'[m] = call[m]
        /\ call'[i].step = 1
        /\ \/ call'[i].op = "start" /\ state[i] = "Committed" /\ call'[i].stage = 0
           \/ call'[i].op = "start" /\ state[i] = "Stopped" /\ call'[i].stage = Len(sidecars[i]) + 1
           \/ call'[i].op \in {"stop", "destroy"}
    BY <1>1, <1>6 DEF StartAsync, Stop, Destroy, Enter, At, ControlTypeOK, cluster
  <2>2. CASE i # m
    BY <1>2, <2>1, <2>2 DEF Has
  <2>3. CASE i = m
    BY <1>1, <2>1, <2>3 DEF ServiceKnown, Has, Past
  <2> QED BY <2>2, <2>3
<1>7. ASSUME NEW i \in Inst, Step(i), i # m PROVE ServiceKnown(m)'
  BY <1>1, <1>2, <1>7, OtherFrame, OtherObjs, ServiceKept
<1>8. ASSUME AtCall(m), Advance(m), Skip(m) \/ CallOk(m) \/ LookupFault(m) PROVE ServiceKnown(m)'
  <2>1. /\ UNCHANGED state
        /\ call'[m].op = call[m].op /\ call'[m].stage = call[m].stage
        /\ call'[m].step = call[m].step + 1
    BY <1>1, <1>8 DEF Skip, CallOk, LookupFault, Advance, ControlTypeOK, Calls
  <2>2. Running(m) /\ Step(m)
    BY <1>8 DEF AtCall, Step
  <2>3. CASE Current(m) = DeployOrPatchService /\ CallOk(m)
    <3>1. call[m].op = "start" /\ call[m].stage = 0
      BY <1>1, <1>8, <2>3, ServiceCall DEF Leaves, DeployOrPatchService
    <3>2. service'[m]
      BY <1>1, <2>2, <2>3, <3>1, SubjectOf DEF CallOk, ClusterTypeOK
    <3> QED BY <1>1, <2>1, <3>2 DEF ServiceKnown
  <2>4. CASE ~(Current(m) = DeployOrPatchService /\ CallOk(m))
    <3>1. Has(m, "Service")' => Has(m, "Service")
      <4>1. CASE CallOk(m)
        BY <1>1, <1>8, <2>2, <2>4, <4>1, CreatesNeeded, ServiceCall DEF Has
      <4>2. CASE ~CallOk(m)
        BY <1>8, <4>2 DEF Skip, LookupFault, cluster, Has
      <4> QED BY <4>1, <4>2
    <3>2. service[m] => service'[m]
      BY <1>1, <2>2, ServiceKept
    <3>3. ASSUME Past(m, "start", 0, 1)', ~Past(m, "start", 0, 1) PROVE ~Has(m, "Service")
      <4>1. call[m].op = "start" /\ call[m].stage = 0 /\ call[m].step = 1
        BY <1>1, <2>1, <3>3 DEF Past
      <4>2. Current(m) = DeployOrPatchService /\ Subject(m) = m
        BY <1>1, <1>8, <2>2, <4>1, CallTable, SubjectOf
      <4>3. ~Needed(DeployOrPatchService, m)
        BY <1>8, <2>4, <4>2 DEF Skip, LookupFault, DeployOrPatchService
      <4>4. FamilyPorts(m) = {}
        BY <4>3 DEF Needed, DeployOrPatchService, DeleteService
      <4> QED BY <1>1, <4>4 DEF AskedFor
    <3> QED BY <1>1, <2>1, <3>1, <3>2, <3>3 DEF ServiceKnown
  <2> QED BY <2>3, <2>4
<1>9. ASSUME AtCall(m), CallRefused(m) \/ CallFault(m) PROVE ServiceKnown(m)'
  <2>1. UNCHANGED <<state, service>> /\ call'[m].op = "idle" /\ Step(m)
    BY <1>1, <1>9 DEF CallRefused, CallFault, Fail, Idle, ControlTypeOK, Step
  <2>2. Has(m, "Service")' => Has(m, "Service") \/ state[m] = "Committed"
    BY <1>1, <1>9, <2>1, CreatesNeeded, ServiceCall DEF Has, ServiceKnown
  <2> QED BY <1>1, <2>1, <2>2 DEF ServiceKnown, Past
<1>10. ASSUME NextStage(m) PROVE ServiceKnown(m)'
  <2>1. /\ UNCHANGED <<objs, state, service>>
        /\ call'[m].op = call[m].op /\ call'[m].stage = call[m].stage + 1
        /\ Running(m) /\ ~AtCall(m)
    BY <1>1, <1>10 DEF NextStage, At, ControlTypeOK, cluster
  <2>2. call[m].step > 3
    BY <1>1, <2>1, ScriptEnd
  <2> QED BY <1>1, <2>1, <2>2 DEF ServiceKnown, Has, Past
<1>11. ASSUME Return(m) PROVE ServiceKnown(m)'
  <2>1. /\ UNCHANGED <<objs, service>> /\ call'[m].op = "idle"
        /\ Running(m) /\ ~AtCall(m) /\ call[m].stage = LastStage(m)
    BY <1>1, <1>11 DEF Return, Idle, ControlTypeOK, cluster
  <2>2. ASSUME Has(m, "Service"), ~service[m] PROVE FALSE
    <3>1. state[m] = "Committed" /\ ~Past(m, "start", 0, 1)
      BY <1>1, <2>2 DEF ServiceKnown
    <3>2. call[m].op = "start"
      BY <1>1, <2>1, <3>1, ScriptEnd DEF HandlerInv
    <3> QED BY <1>1, <2>1, <3>1, <3>2 DEF LastStage, Past
  <2> QED BY <2>1, <2>2 DEF ServiceKnown, Has
<1>12. ASSUME Step(m) PROVE ServiceKnown(m)'
  BY <1>1, <1>8, <1>9, <1>10, <1>11, <1>12, StepCases
<1>13. CASE UNCHANGED vars
  BY <1>2, <1>13 DEF vars, cluster, Has
<1> QED BY <1>3, <1>4, <1>5, <1>6, <1>7, <1>12, <1>13 DEF Next

-----------------------------------------------------------------------------
(* What Destroy has deleted *)

\* No other handler creates anything for the family of m while m is destroyed.
LEMMA OtherCreates ==
  ASSUME TypeOK, FamilyInv, HandlerInv, NEW i \in Inst, Step(i), NEW m \in Mains, m # i,
         NEW x \in Family(m), NEW k
  PROVE  Has(x, k)' => Has(x, k)
<1>1. CASE objs' \subseteq objs
  BY <1>1 DEF Has
<1>2. CASE AtCall(i) /\ Leaves(Current(i)) /\ objs' = objs \cup {<<Current(i).kind, Subject(i)>>}
  <2>1. i \in Mains /\ Subject(i) \in Family(i)
    BY <1>2, Creations DEF TypeOK, HandlerInv, Family
  <2>2. Subject(i) # x
    BY <2>1, FamiliesApart
  <2> QED BY <1>2, <2>2 DEF Has
<1> QED BY <1>1, <1>2, CreatesNeeded

\* A call of Destroy that does not fail leaves no object of its kind, whether it was
\* made or was not needed.
LEMMA CallClears ==
  ASSUME TypeOK, HandlerInv, OwnerInv, ResourceInv, ServiceInv, NEW m \in Mains,
         AtCall(m), call[m].op = "destroy",
         Skip(m) \/ CallOk(m) \/ LookupFault(m),
         Current(m).kind # "NetworkPolicy"
  PROVE  objs' \subseteq objs /\ <<Current(m).kind, Subject(m)>> \notin objs'
<1> USE DEF TypeOK
<1> DEFINE c == Current(m)
           x == Subject(m)
<1>1. m \in Inst /\ Running(m) /\ x \in Inst /\ x \in Family(m) /\ call[m].stage \in Nat
  BY SubjectType, SubjectOf DEF AtCall, Family, Inst, ControlTypeOK, Calls
<1>2. c \in {DeleteReplicaSet, DeleteServiceAccount, DeleteRole, DeleteRoleBinding,
             DeletePersistentVolumeClaim, DeleteConfigMap, DeleteService}
  BY <1>1, CallTable DEF EnableIfDisabled
<1>3. ~Leaves(c) /\ c.verb # "restore" /\ c # DeployOrPatchService
  BY <1>2 DEF Leaves, DeleteReplicaSet, DeleteServiceAccount, DeleteRole, DeleteRoleBinding,
     DeletePersistentVolumeClaim, DeleteConfigMap, DeleteService, DeployOrPatchService
<1>4. CASE Needed(c, x)
  BY <1>1, <1>3, <1>4, CallDone DEF Has
<1>5. CASE ~Needed(c, x)
  <2>1. UNCHANGED objs
    BY <1>1, <1>3, <1>5, CallDone
  <2>2. AskedFor(x)
    BY <1>1 DEF ResourceInv
  <2>3. \/ c = DeleteService /\ ~service[x]
        \/ c.kind = "PersistentVolumeClaim" /\ ~volume[x]
        \/ c.kind = "ConfigMap" /\ ~(files[x] > 0)
        \/ c.kind \in {"Role", "RoleBinding"} /\ ~rules[x]
    BY <1>2, <1>3, <1>5
    DEF Needed, DeleteReplicaSet, DeleteServiceAccount, DeleteRole, DeleteRoleBinding,
        DeletePersistentVolumeClaim, DeleteConfigMap, DeleteService
  <2>4. CASE c = DeleteService /\ ~service[x]
    <3>1. c.kind = "Service"
      BY <2>4 DEF DeleteService
    <3>2. CASE x \in Sidecars
      BY <2>1, <3>1, <3>2 DEF OwnerInv, Has
    <3>3. CASE x \notin Sidecars
      <4>1. x = m
        BY <1>1, <3>3, AttachedType DEF Family
      <4>2. state[m] # "Committed"
        BY <1>1 DEF HandlerInv
      <4> QED BY <2>1, <2>4, <3>1, <4>1, <4>2 DEF ServiceInv, ServiceKnown, Has
    <3> QED BY <3>2, <3>3
  <2>5. CASE c # DeleteService \/ service[x]
    BY <2>1, <2>2, <2>3, <2>5 DEF AskedFor, Has
  <2> QED BY <2>4, <2>5
<1> QED BY <1>4, <1>5

\* Destroy of m gets on by one call.
LEMMA ClearedAdvance ==
  ASSUME TypeOK, HandlerInv, OwnerInv, ResourceInv, ServiceInv, NEW m \in Mains, Cleared(m),
         AtCall(m), call[m].op = "destroy", Advance(m),
         Skip(m) \/ CallOk(m) \/ LookupFault(m)
  PROVE  Cleared(m)'
<1> USE DEF TypeOK
<1> DEFINE c == Current(m)
           k == call[m].step
           n == call[m].stage
<1>1. m \in Inst /\ Running(m) /\ k \in Nat \ {0} /\ n \in Nat /\ Len(sidecars[m]) \in Nat
  BY SubjectType DEF AtCall, ControlTypeOK, Calls, Inst
<1>2. /\ UNCHANGED sidecars
      /\ call'[m].op = "destroy" /\ call'[m].stage = n /\ call'[m].step = k + 1
  BY <1>1 DEF Skip, CallOk, LookupFault, Advance, ControlTypeOK, Calls
<1>3. ASSUME NEW g \in Nat, NEW q \in Nat
      PROVE  Past(m, "destroy", g, q)' => Past(m, "destroy", g, q) \/ (n = g /\ k = q)
  BY <1>1, <1>2 DEF Past
<1>4. /\ n = 0 /\ k = 1 => c = DeleteReplicaSet
      /\ n = 0 /\ k = 2 => c = DeleteServiceAccount
      /\ n = 0 /\ k = 3 => c = DeleteRole
      /\ n = 0 /\ k = 4 => c = DeleteRoleBinding
      /\ n > 0 /\ k = 1 => c = DeletePersistentVolumeClaim
      /\ n > 0 /\ k = 2 => c = DeleteConfigMap
      /\ n > 0 /\ k = 3 => c = DeleteService
      /\ n > 0 /\ k = 4 => c = EnableIfDisabled
      /\ k \in {1, 2, 3, 4}
  BY <1>1, CallTable
<1>5. objs' \subseteq objs
  <2>1. CASE c.kind # "NetworkPolicy"
    BY <1>1, <2>1, CallClears
  <2>2. CASE c.kind = "NetworkPolicy"
    <3>1. c = EnableIfDisabled
      BY <1>1, <1>4, <2>2
      DEF DeleteReplicaSet, DeleteServiceAccount, DeleteRole, DeleteRoleBinding,
          DeletePersistentVolumeClaim, DeleteConfigMap, DeleteService
    <3> QED BY <1>1, <3>1, CallDone DEF EnableIfDisabled, Leaves
  <2> QED BY <2>1, <2>2
<1>6. c # EnableIfDisabled => <<c.kind, Subject(m)>> \notin objs'
  <2>1. c # EnableIfDisabled => c.kind # "NetworkPolicy"
    BY <1>1, <1>4
    DEF DeleteReplicaSet, DeleteServiceAccount, DeleteRole, DeleteRoleBinding,
        DeletePersistentVolumeClaim, DeleteConfigMap, DeleteService
  <2> QED BY <2>1, CallClears
<1>7. n \in {0, 1} => Subject(m) = m
  BY <1>1, SubjectOf
<1>8. ASSUME n = 0 PROVE /\ k = 1 => ~Has(m, "ReplicaSet")'
                         /\ k = 2 => ~Has(m, "ServiceAccount")'
                         /\ k = 3 => ~Has(m, "Role")'
                         /\ k = 4 => ~Has(m, "RoleBinding")'
  BY <1>4, <1>6, <1>7, <1>8
  DEF DeleteReplicaSet, DeleteServiceAccount, DeleteRole, DeleteRoleBinding, EnableIfDisabled, Has
<1>9. ASSUME n > 0 PROVE /\ k = 1 => <<"PersistentVolumeClaim", Subject(m)>> \notin objs'
                         /\ k = 2 => <<"ConfigMap", Subject(m)>> \notin objs'
                         /\ k = 3 => <<"Service", Subject(m)>> \notin objs'
  BY <1>4, <1>6, <1>9
  DEF DeletePersistentVolumeClaim, DeleteConfigMap, DeleteService, EnableIfDisabled
<1>10. \A kind \in PodKinds \cup ResourceKinds : Has(m, kind)' => Has(m, kind)
  BY <1>5 DEF Has
<1>11. /\ Past(m, "destroy", 0, 1)' => ~Has(m, "ReplicaSet")'
       /\ Past(m, "destroy", 0, 2)' => ~Has(m, "ServiceAccount")'
       /\ Past(m, "destroy", 0, 3)' => ~Has(m, "Role")'
       /\ Past(m, "destroy", 0, 4)' => ~Has(m, "RoleBinding")'
  <2>1. \A j \in {1, 2, 3, 4} :
          Past(m, "destroy", 0, j)' => Past(m, "destroy", 0, j) \/ (n = 0 /\ k = j)
    BY <1>3
  <2>2. /\ Past(m, "destroy", 0, 1) => ~Has(m, "ReplicaSet")'
        /\ Past(m, "destroy", 0, 2) => ~Has(m, "ServiceAccount")'
        /\ Past(m, "destroy", 0, 3) => ~Has(m, "Role")'
        /\ Past(m, "destroy", 0, 4) => ~Has(m, "RoleBinding")'
    BY <1>10 DEF Cleared, PodKinds
  <2> QED BY <1>8, <2>1, <2>2
<1>12. /\ Past(m, "destroy", 1, 1)' => ~Has(m, "PersistentVolumeClaim")'
       /\ Past(m, "destroy", 1, 2)' => ~Has(m, "ConfigMap")'
       /\ Past(m, "destroy", 1, 3)' => ~Has(m, "Service")'
  <2>1. n = 1 => /\ k = 1 => ~Has(m, "PersistentVolumeClaim")'
                 /\ k = 2 => ~Has(m, "ConfigMap")'
                 /\ k = 3 => ~Has(m, "Service")'
    BY <1>7, <1>9 DEF Has
  <2>2. \A j \in {1, 2, 3} :
          Past(m, "destroy", 1, j)' => Past(m, "destroy", 1, j) \/ (n = 1 /\ k = j)
    BY <1>3
  <2> QED BY <1>10, <2>1, <2>2 DEF Cleared, ResourceKinds
<1>13. ASSUME NEW q \in 1..Len(sidecars[m])
       PROVE  /\ Past(m, "destroy", q + 1, 1)' => <<"PersistentVolumeClaim", sidecars[m][q]>> \notin objs'
              /\ Past(m, "destroy", q + 1, 2)' => <<"ConfigMap", sidecars[m][q]>> \notin objs'
  <2>1. q \in Nat /\ q + 1 \in Nat /\ q + 1 > 1
    BY <1>1
  <2>2. n = q + 1 => n > 0 /\ Subject(m) = sidecars[m][q]
    BY <1>1, <2>1, SubjectOf
  <2>3. \A j \in {1, 2} :
          Past(m, "destroy", q + 1, j)' => Past(m, "destroy", q + 1, j) \/ (n = q + 1 /\ k = j)
    BY <1>3, <2>1
  <2>4. /\ Past(m, "destroy", q + 1, 1) => <<"PersistentVolumeClaim", sidecars[m][q]>> \notin objs
        /\ Past(m, "destroy", q + 1, 2) => <<"ConfigMap", sidecars[m][q]>> \notin objs
    BY DEF Cleared, Has
  <2> QED BY <1>5, <1>9, <2>2, <2>3, <2>4
<1> QED BY <1>2, <1>11, <1>12, <1>13 DEF Cleared, Has

\* Nobody creates again what Destroy has deleted before it returns.
LEMMA DestroyStep ==
  ASSUME TypeOK, FamilyInv, HandlerInv, OwnerInv, ResourceInv, ServiceInv, DestroyInv,
         [Next]_vars
  PROVE  DestroyInv'
<1> SUFFICES ASSUME NEW m \in Mains PROVE Cleared(m)'
  BY DEF DestroyInv
<1> USE DEF TypeOK
<1>1. /\ m \in Inst /\ Cleared(m) /\ Len(sidecars[m]) \in Nat
      /\ call[m].stage \in Nat /\ call[m].step \in Nat
  BY SubjectType DEF Inst, DestroyInv, ControlTypeOK, Calls
<1>2. ASSUME call'[m].op # "destroy" PROVE Cleared(m)'
  BY <1>2 DEF Cleared, Past
<1>3. ASSUME call'[m] = call[m], sidecars'[m] = sidecars[m],
             \A x \in Family(m), k \in PodKinds \cup ResourceKinds :
               <<k, x>> \in objs' => <<k, x>> \in objs
      PROVE  Cleared(m)'
  <2>1. m \in Family(m) /\ \A q \in 1..Len(sidecars[m]) : sidecars[m][q] \in Family(m)
    BY DEF Family, Attached
  <2> QED BY <1>1, <1>3, <2>1 DEF Cleared, Has, Past, PodKinds, ResourceKinds
<1>4. ASSUME NEW i \in Inst, Build(i) PROVE Cleared(m)'
  BY <1>3, <1>4 DEF Build, SetImage, SetGitRepo, Commit, cluster
<1>5. ASSUME NEW i \in Inst, Configure(i) PROVE Cleared(m)'
  <2>1. Free(i) /\ UNCHANGED <<objs, call>>
    BY <1>5, SetterFrame DEF cluster
  <2>2. CASE i = m
    BY <1>2, <2>1, <2>2, FreeFacts
  <2>3. CASE i # m
    <3>1. sidecars'[m] = sidecars[m]
      BY <1>1, <1>5, <2>3, EditFrame DEF AddSidecar, SettingsTypeOK
    <3> QED BY <1>3, <2>1, <3>1
  <2> QED BY <2>2, <2>3
<1>6. ASSUME NEW i \in Inst, Disable(i) \/ Enable(i) PROVE Cleared(m)'
  <2>1. objs' \subseteq objs \cup {<<"NetworkPolicy", i>>} /\ UNCHANGED <<sidecars, call>>
    BY <1>6, NetworkObjs
  <2> QED BY <1>3, <2>1 DEF PodKinds, ResourceKinds
<1>7. ASSUME NEW i \in Inst, StartAsync(i) \/ Stop(i) \/ Destroy(i) PROVE Cleared(m)'
  <2>1. /\ UNCHANGED <<objs, sidecars>>
        /\ i # m => call'[m] = call[m]
        /\ call'[i].op = "destroy" => call'[i].stage = 0 /\ call'[i].step = 1
    BY <1>1, <1>7 DEF StartAsync, Stop, Destroy, Enter, At, ControlTypeOK, cluster
  <2>2. CASE i # m
    BY <1>3, <2>1, <2>2
  <2>3. CASE i = m
    <3>1. \A g \in Nat, k \in 1..4 : ~Past(m, "destroy", g, k)'
      BY <2>1, <2>3 DEF Past
    <3>2. \A q \in 1..Len(sidecars[m]) : q + 1 \in Nat
      BY <1>1
    <3> QED BY <2>1, <3>1, <3>2 DEF Cleared
  <2> QED BY <2>2, <2>3
<1>8. ASSUME NEW i \in Inst, Step(i), i # m PROVE Cleared(m)'
  <2>1. call'[m] = call[m] /\ sidecars' = sidecars
    BY <1>8, OtherFrame
  <2>2. \A x \in Family(m), k \in PodKinds \cup ResourceKinds : <<k, x>> \in objs' => <<k, x>> \in objs
    BY <1>8, OtherCreates DEF Has
  <2> QED BY <1>3, <2>1, <2>2
<1>9. ASSUME NextStage(m), call[m].op = "destroy" PROVE Cleared(m)'
  <2>1. /\ UNCHANGED <<objs, sidecars>>
        /\ call'[m].op = "destroy" /\ call'[m].stage = call[m].stage + 1
        /\ call'[m].step = 1 /\ Running(m) /\ ~AtCall(m)
    BY <1>1, <1>9 DEF NextStage, At, ControlTypeOK, cluster
  <2>2. call[m].step > 4
    BY <1>1, <1>9, <2>1, ScriptEnd
  <2>3. \A g \in Nat, k \in 1..4 : Past(m, "destroy", g, k)' => Past(m, "destroy", g, k)
    BY <1>1, <1>9, <2>1, <2>2 DEF Past
  <2>4. \A q \in 1..Len(sidecars[m]) : q + 1 \in Nat
    BY <1>1
  <2> QED BY <1>1, <2>1, <2>3, <2>4 DEF Cleared, Has
<1>10. ASSUME Step(m) PROVE Cleared(m)'
  <2>1. CASE call[m].op # "destroy"
    <3>1. call'[m].op # "destroy"
      BY <1>1, <1>10, <2>1, StepCases
      DEF Advance, NextStage, Return, At, Idle, ControlTypeOK, Calls
    <3> QED BY <1>2, <3>1
  <2>2. CASE call' = [call EXCEPT ![m] = Idle]
    BY <1>1, <1>2, <2>2 DEF Idle, ControlTypeOK
  <2>3. CASE call[m].op = "destroy" /\ AtCall(m) /\ Advance(m)
             /\ (Skip(m) \/ CallOk(m) \/ LookupFault(m))
    BY <1>1, <2>3, ClearedAdvance
  <2> QED BY <1>1, <1>9, <1>10, <2>1, <2>2, <2>3, StepCases DEF Return
<1>11. CASE UNCHANGED vars
  BY <1>3, <1>11 DEF vars, cluster
<1> QED BY <1>4, <1>5, <1>6, <1>7, <1>8, <1>10, <1>11 DEF Next

-----------------------------------------------------------------------------
(* What is left after Destroy *)

\* Destroy returns once all is deleted, and nothing is started after it.
LEMMA CleanStep ==
  ASSUME TypeOK, FamilyInv, HandlerInv, OwnerInv, DestroyInv, CleanAfterDestroy, TypeOK',
         [Next]_vars
  PROVE  CleanAfterDestroy'
<1> SUFFICES ASSUME NEW x \in Inst, state'[x] = "Destroyed", NEW k \in PodKinds \cup ResourceKinds
             PROVE  <<k, x>> \notin objs'
  <2>1. ASSUME NEW o \in objs' PROVE o = <<o[1], o[2]>>
    BY <2>1 DEF TypeOK, ClusterTypeOK, Objects
  <2> QED BY <2>1 DEF CleanAfterDestroy, Owned
<1> USE DEF TypeOK
<1>1. state[x] = "Destroyed" => <<k, x>> \notin objs
  BY DEF CleanAfterDestroy, Owned
<1>2. CASE state[x] = "Destroyed" /\ objs' \subseteq objs
  BY <1>1, <1>2
<1>3. ASSUME NEW i \in Inst, Build(i) \/ Configure(i) PROVE <<k, x>> \notin objs'
  <2>1. UNCHANGED objs
    BY <1>3, SetterFrame DEF cluster
  <2>2. state[x] = "Destroyed"
    <3>1. CASE Build(i)
      BY <3>1 DEF Build, SetImage, SetGitRepo, Commit, SetState
    <3>2. CASE Configure(i)
      BY <3>2, EditFrame DEF AddSidecar, SetState
    <3> QED BY <1>3, <3>1, <3>2
  <2> QED BY <1>2, <2>1, <2>2
<1>4. ASSUME NEW i \in Inst, Disable(i) \/ Enable(i) PROVE <<k, x>> \notin objs'
  <2>1. objs' \subseteq objs \cup {<<"NetworkPolicy", i>>} /\ UNCHANGED state
    BY <1>4, NetworkObjs
  <2> QED BY <1>1, <2>1 DEF PodKinds, ResourceKinds
<1>5. ASSUME NEW i \in Inst, StartAsync(i) \/ Stop(i) \/ Destroy(i) PROVE <<k, x>> \notin objs'
  BY <1>2, <1>5 DEF StartAsync, Stop, Destroy, Enter, cluster
<1>6. ASSUME NEW i \in Inst, Step(i), UNCHANGED state PROVE <<k, x>> \notin objs'
  <2>1. CASE AtCall(i) /\ Leaves(Current(i)) /\ objs' = objs \cup {<<Current(i).kind, Subject(i)>>}
    <3>1. call[i].op = "start" /\ Subject(i) \in Family(i)
      BY <2>1, Creations DEF Family
    <3>2. Subject(i) # x
      BY <1>6, <3>1 DEF HandlerInv
    <3> QED BY <1>1, <1>6, <2>1, <3>2
  <2> QED BY <1>2, <1>6, <2>1, CreatesNeeded
<1>7. ASSUME NEW i \in Inst, Return(i) PROVE <<k, x>> \notin objs'
  <2>1. /\ UNCHANGED objs /\ Running(i) /\ ~AtCall(i) /\ call[i].stage = LastStage(i)
        /\ state'[x] = IF x \in Family(i) THEN Outcome(call[i].op) ELSE state[x]
    BY <1>7 DEF Return, setStateForSidecars, SetState, cluster
  <2>2. CASE x \notin Family(i)
    BY <1>2, <2>1, <2>2
  <2>3. CASE x \in Family(i)
    <3>1. i \in Mains /\ Cleared(i)
      BY <2>1, NoSidecarReturns DEF DestroyInv
    <3>2. call[i].op = "destroy"
      BY <2>1, <2>3, ScriptEnd DEF Outcome
    <3>3. /\ call[i].step > 4 /\ call[i].step \in Nat
          /\ Len(sidecars[i]) \in Nat /\ call[i].stage = Len(sidecars[i]) + 1
      BY <2>1, <3>2, ScriptEnd, SubjectType DEF LastStage
    <3>4. \A g \in 0..(Len(sidecars[i]) + 1), q \in 1..4 : Past(i, "destroy", g, q)
      BY <3>2, <3>3 DEF Past
    <3>5. CASE x = i
      <4>1. /\ \A q \in 1..4 : Past(i, "destroy", 0, q)
            /\ \A q \in 1..4 : Past(i, "destroy", 1, q)
        BY <3>3, <3>4
      <4> QED BY <2>1, <3>1, <3>5, <4>1 DEF Cleared, Has, PodKinds, ResourceKinds
    <3>6. CASE x # i
      <4>1. PICK q \in 1..Len(sidecars[i]) : x = sidecars[i][q]
        BY <2>3, <3>6 DEF Family, Attached
      <4>2. Past(i, "destroy", q + 1, 1) /\ Past(i, "destroy", q + 1, 2)
        BY <3>3, <3>4
      <4>3. <<"PersistentVolumeClaim", x>> \notin objs /\ <<"ConfigMap", x>> \notin objs
        BY <3>1, <4>1, <4>2 DEF Cleared, Has
      <4>4. x \in Sidecars
        BY <4>1, SubjectType
      <4> QED BY <2>1, <4>3, <4>4 DEF OwnerInv, PodKinds, ResourceKinds
    <3> QED BY <3>5, <3>6
  <2> QED BY <2>2, <2>3
<1>8. ASSUME NEW i \in Inst, Step(i) PROVE <<k, x>> \notin objs'
  BY <1>6, <1>7, <1>8, HandlerFrame
<1>9. CASE UNCHANGED vars
  BY <1>2, <1>9 DEF vars, cluster
<1> QED BY <1>3, <1>4, <1>5, <1>8, <1>9 DEF Next

-----------------------------------------------------------------------------
(* The inductive invariant *)

IInv ==
  /\ TypeOK
  /\ FamilyInv
  /\ OwnerInv
  /\ HandlerInv
  /\ SidecarsFollowParent
  /\ AuthInv
  /\ ResourceInv
  /\ ServiceInv
  /\ DestroyInv
  /\ CleanAfterDestroy

\* instance.New
LEMMA IInvInit == Init => IInv
<1> SUFFICES ASSUME Init PROVE IInv
  OBVIOUS
<1>1. TypeOK
  BY BoundAssumption
  DEF Init, TypeOK, SettingsTypeOK, ClusterTypeOK, ControlTypeOK, States, NoPod, Pods,
      Templates, Idle, Calls, Ok, Results, Ops, Fallible
<1>2. \A i \in Inst : sidecars[i] = <<>> /\ state[i] = "None" /\ call[i] = Idle
  BY DEF Init
<1>3. \A i \in Inst : Attached(i) = {}
  BY <1>2 DEF Attached
<1>4. /\ \A i \in Inst, k \in Kinds : ~Has(i, k)
      /\ \A i \in Inst, op \in {"start", "stop", "destroy"} : call[i].op # op
  BY <1>2 DEF Init, Has, Idle
<1>5. FamilyInv
  BY <1>2, <1>3 DEF FamilyInv, Inst
<1>6. OwnerInv
  BY DEF Init, OwnerInv
<1>7. HandlerInv
  BY <1>2 DEF HandlerInv, Past, Running, Idle
<1>8. SidecarsFollowParent
  BY <1>2, <1>3 DEF SidecarsFollowParent, Inst
<1>9. AuthInv /\ ResourceInv /\ ServiceInv /\ DestroyInv
  BY <1>4 DEF AuthInv, Authorized, ResourceInv, AskedFor, ServiceInv, ServiceKnown,
     DestroyInv, Cleared, Past, Has, Init, Inst, Kinds
<1>10. CleanAfterDestroy
  BY <1>2 DEF CleanAfterDestroy
<1> QED BY <1>1, <1>5, <1>6, <1>7, <1>8, <1>9, <1>10 DEF IInv

\* The steps preserve the invariant, part by part.
LEMMA IInvStep == IInv /\ [Next]_vars => IInv'
<1> SUFFICES ASSUME IInv, [Next]_vars PROVE IInv'
  OBVIOUS
<1>1. TypeOK'
  BY SettingsType, ControlType, ClusterType DEF IInv, TypeOK
<1>2. FamilyInv' /\ OwnerInv' /\ HandlerInv' /\ SidecarsFollowParent'
  BY FamilyStep, OwnerStep, HandlerStep, FollowStep DEF IInv
<1>3. AuthInv' /\ ResourceInv' /\ ServiceInv' /\ DestroyInv'
  BY AuthStep, ResourceStep, ServiceStep, DestroyStep DEF IInv
<1>4. CleanAfterDestroy'
  BY <1>1, CleanStep DEF IInv
<1> QED BY <1>1, <1>2, <1>3, <1>4 DEF IInv

\* The invariant holds in every reachable state.
LEMMA IInvHolds == Spec => []IInv
BY IInvInit, IInvStep, PTL DEF Spec

-----------------------------------------------------------------------------
(* Safety *)

\* setStateForSidecars: in every reachable state a sidecar is up, or destroyed,
\* exactly when the instance it was added to is, although Stop and Destroy can also
\* be called on the sidecar itself and any call of any handler can fail.
THEOREM SidecarsFollow == Spec => []SidecarsFollowParent
<1>1. IInv => SidecarsFollowParent
  BY DEF IInv
<1> QED BY <1>1, IInvHolds, PTL

\* destroyPod and deployPod: in every reachable state a started instance whose pod is
\* there has the service account the pod runs as, and the role and the binding of
\* its policy rules, whichever calls have failed.
THEOREM PodsAreAuthorized == Spec => []PodIsAuthorized
<1>1. IInv => PodIsAuthorized
  BY DEF IInv, AuthInv, Authorized, PodIsAuthorized
<1> QED BY <1>1, IInvHolds, PTL

\* Destroy: an instance in state Destroyed, sidecar or not, has none of the objects
\* left that StartAsync creates for it, whatever was configured, restarted, upgraded
\* or failed before.
THEOREM DestroyIsClean == Spec => []CleanAfterDestroy
<1>1. IInv => CleanAfterDestroy
  BY DEF IInv
<1> QED BY <1>1, IInvHolds, PTL

-----------------------------------------------------------------------------
(* Refinement *)

\* The return of a handler is one move of the whole family.
LEMMA ReturnIsAMove ==
  ASSUME IInv, NEW i \in Inst, Return(i)
  PROVE  Abstract!LNext
<1> USE DEF IInv, TypeOK
<1>1. /\ UNCHANGED sidecars /\ Running(i) /\ ~AtCall(i) /\ call[i].stage = LastStage(i)
      /\ state' = [j \in Inst |-> IF j \in Family(i) THEN Outcome(call[i].op) ELSE state[j]]
  BY DEF Return, setStateForSidecars, SetState
<1>2. i \in Mains
  BY <1>1, NoSidecarReturns
<1>3. /\ call[i].op \in {"start", "stop", "destroy"}
      /\ call[i].op # "start" => call[i].step > 4
      /\ call[i].stage \in Nat /\ call[i].step \in Nat
  BY <1>1, ScriptEnd
<1>4. Family(i) = Abstract!FamilyOf(i) /\ Inst = Abstract!Members
  BY DEF Family, Attached, Inst, Abstract!FamilyOf, Abstract!Members
<1>5. CASE call[i].op = "start"
  <2>1. \A j \in Family(i) : state[j] \in {"Committed", "Stopped"}
    BY <1>5 DEF HandlerInv
  <2>2. Abstract!Run(i)
    BY <1>1, <1>4, <1>5, <2>1 DEF Abstract!Run, Abstract!Become, Outcome
  <2> QED BY <1>2, <2>2 DEF Abstract!LNext
<1>6. CASE call[i].op # "start"
  <2>1. state[i] = "Started"
    <3>1. CASE call[i].op = "stop"
      BY <3>1 DEF HandlerInv
    <3>2. CASE call[i].op = "destroy"
      <4>1. Len(sidecars[i]) \in Nat
        BY SubjectType
      <4>2. Past(i, "destroy", 1, 4)
        BY <1>1, <1>3, <1>6, <3>2, <4>1 DEF LastStage, Past
      <4> QED BY <1>2, <4>2 DEF HandlerInv
    <3> QED BY <1>3, <1>6, <3>1, <3>2
  <2>2. Attached(i) \subseteq Sidecars
    BY AttachedType
  <2>3. \A j \in Family(i) : state[j] = "Started"
    BY <1>2, <2>1, <2>2 DEF Family, SidecarsFollowParent
  <2>4. Outcome(call[i].op) \in {"Stopped", "Destroyed"}
    BY <1>6 DEF Outcome
  <2>5. Abstract!Halt(i)
    BY <1>1, <1>4, <2>3, <2>4 DEF Abstract!Halt, Abstract!Become
  <2> QED BY <1>2, <2>5 DEF Abstract!LNext
<1> QED BY <1>5, <1>6

\* Every step of the handlers is a move of module Lifecycle, or changes no state.
LEMMA LifecycleStep ==
  ASSUME IInv, [Next]_vars
  PROVE  [Abstract!LNext]_(Abstract!lifecycleVars)
<1> USE DEF IInv, TypeOK
<1>1. ASSUME UNCHANGED <<state, sidecars>> PROVE [Abstract!LNext]_(Abstract!lifecycleVars)
  BY <1>1 DEF Abstract!lifecycleVars
<1>2. Inst = Abstract!Members
  BY DEF Inst, Abstract!Members
<1>3. ASSUME NEW i \in Inst, Build(i) PROVE Abstract!LNext
  <2>1. Abstract!Prepare(i) \/ Abstract!Seal(i)
    BY <1>2, <1>3 DEF Build, SetImage, SetGitRepo, Commit, SetState,
       Abstract!Prepare, Abstract!Seal, Abstract!Become
  <2> QED BY <1>2, <2>1 DEF Abstract!LNext
<1>4. ASSUME NEW i \in Inst, NEW s \in Sidecars, AddSidecar(i, s) PROVE Abstract!LNext
  <2>1. s \in Inst /\ state \in [Inst -> States]
    BY DEF Inst, SettingsTypeOK
  <2>2. state' = [state EXCEPT ![s] = "Committed"]
    BY <1>4, <2>1 DEF AddSidecar, SetState
  <2>3. Abstract!Attach(i, s)
    BY <1>4, <2>2 DEF AddSidecar, Configurable, Abstract!Attach
  <2> QED BY <1>2, <2>3 DEF Abstract!LNext
<1>5. ASSUME NEW i \in Inst, Configure(i) PROVE [Abstract!LNext]_(Abstract!lifecycleVars)
  BY <1>1, <1>4, <1>5, EditFrame
<1>6. ASSUME NEW i \in Inst,
             \/ StartAsync(i) \/ Stop(i) \/ Destroy(i) \/ Disable(i) \/ Enable(i) \/ Step(i)
      PROVE  [Abstract!LNext]_(Abstract!lifecycleVars)
  BY <1>1, <1>6, HandlerFrame, ReturnIsAMove
<1>7. CASE UNCHANGED vars
  BY <1>1, <1>7 DEF vars
<1> QED BY <1>3, <1>5, <1>6, <1>7 DEF Next

\* The handlers of pkg/instance, whichever of their calls fail, move the states of
\* the instances only as module Lifecycle says: a family starts, stops and is
\* destroyed as one, and a stopped or half started instance is never destroyed.
THEOREM LifecycleImplemented == Spec => ImplementsLifecycle
<1>1. Init => Abstract!LInit
  BY DEF Init, Inst, Abstract!LInit, Abstract!Members
<1>2. IInv /\ [Next]_vars => [Abstract!LNext]_(Abstract!lifecycleVars)
  BY LifecycleStep
<1> QED BY <1>1, <1>2, IInvHolds, PTL DEF Spec, ImplementsLifecycle, Abstract!LSpec

-----------------------------------------------------------------------------
(* Four more invariants, each inductive together with IInv *)

\* The stage of a start that deploys the pod.
PodStage(m) == Len(sidecars[m]) + 1

\* The replica set of a started instance, and of a start that has created it, is the
\* one that the settings describe, up to the two that any state accepts.
Reflects(m) ==
  \E n \in 0..unguarded[m] : podSpec[m] = [PodTemplate(m) EXCEPT !.unguarded = n]

UpToDate(m) ==
  (state[m] = "Started" /\ Has(m, "ReplicaSet")) \/ Past(m, "start", PodStage(m), 4)
    => Reflects(m)

SpecInv == \A m \in Mains : UpToDate(m)

\* Destroy that got past enableIfDisabled has enabled the network again.
Enabled(m) ==
  faults = 0 /\ (Past(m, "destroy", 1, 4) \/ state[m] = "Destroyed") => ~Has(m, "NetworkPolicy")

PolicyInv == \A m \in Mains : Enabled(m)

\* What is left of m's pod has been deployed from its account on, and is there only
\* if a start was refused half way.
Remains(m) ==
  /\ ~Has(m, "ReplicaSet")
  /\ Has(m, "RoleBinding") => Has(m, "Role")
  /\ Has(m, "Role") => Has(m, "ServiceAccount")

Unrefused(m) == m \notin refused => \A x \in PodKinds : ~Has(m, x)

\* An instance that is not started has no pod, and nothing of one unless a start was
\* refused half way; deployPod that got past the account has found none of the rest;
\* what destroyPod has deleted is gone.
Vacant(m) ==
  /\ state[m] # "Started" /\ call[m].op # "start" =>
       /\ ~Has(m, "ReplicaSet") /\ Unrefused(m)
       /\ ~Past(m, "destroy", 0, 2) => Remains(m)
       /\ ~Past(m, "destroy", 0, 3) => (Has(m, "RoleBinding") => Has(m, "Role"))
  /\ call[m].op = "start" =>
       /\ call[m].stage <= PodStage(m)
       /\ ~Past(m, "start", PodStage(m), 1) => Remains(m) /\ Unrefused(m)
       /\ Past(m, "start", PodStage(m), 1) =>
            \A k \in 2..4 : ~Past(m, "start", PodStage(m), k) => ~Has(m, deployPod[k].kind)
  /\ \A k \in 1..4 : Past(m, "stop", 0, k) => ~Has(m, destroyPod[k].kind)

\* How a start that was refused has failed.
Explained(m) ==
  result[m].op = "start" /\ result[m].err \in {"exists", "state"} =>
    \/ result[m].kind \in {"Middleware", "IngressRoute"} /\ Family(m) \cap Shapers # {}
    \/ result[m].err = "exists" /\ result[m].kind = "ServiceAccount" /\ m \in refused

VacancyInv == faults = 0 => \A m \in Mains : Vacant(m) /\ Explained(m)

\* What the pod refers to is there; and what a start of a committed instance has
\* deployed so far.
ClaimDeployed(x) == volume[x] => Has(x, "PersistentVolumeClaim")

FilesDeployed(x) == files[x] > 0 => Has(x, "ConfigMap") /\ mounted[x] = files[x]

ServiceDeployed(m) ==
  FamilyPorts(m) # {} => Has(m, "Service") /\ exposed[m] = FamilyPorts(m)

Deployed(m) ==
  call[m].op = "start" /\ state[m] = "Committed" =>
    /\ Past(m, "start", 0, 1) => ServiceDeployed(m)
    /\ Past(m, "start", 0, 2) => ClaimDeployed(m)
    /\ Past(m, "start", 0, 3) => FilesDeployed(m)
    /\ \A q \in 1..Len(sidecars[m]) :
         /\ Past(m, "start", q, 3) => ClaimDeployed(sidecars[m][q])
         /\ Past(m, "start", q, 4) => FilesDeployed(sidecars[m][q])

DeployInv == \A m \in Mains : Deployed(m)

-----------------------------------------------------------------------------
(* The steps as one instance m of the test sees them *)

\* A step of something else: the handler of m, the objects of m's family and what is
\* in them stay as they are, and so do the settings of the family while a handler of m
\* runs or m is started.
Elsewhere(m) ==
  /\ call'[m] = call[m] /\ result'[m] \in {result[m], Ok} /\ (m \in refused' <=> m \in refused)
  /\ \A x \in Family(m), k \in PodKinds \cup ResourceKinds : Has(x, k)' <=> Has(x, k)
  /\ \A x \in Family(m) : mounted'[x] = mounted[x]
  /\ exposed'[m] = exposed[m] /\ podSpec'[m] = podSpec[m]
  /\ Has(m, "NetworkPolicy")' => Has(m, "NetworkPolicy") \/ (state[m] = "Started" /\ ~Running(m))
  /\ state'[m] \in {"Started", "Destroyed"} \/ state[m] \in {"Started", "Destroyed"} =>
       state'[m] = state[m]
  /\ Attached(m) \subseteq Attached(m)'
  /\ Running(m) \/ state[m] = "Started" =>
       /\ state'[m] = state[m] /\ sidecars'[m] = sidecars[m]
       /\ \A x \in Family(m) : Template(x)' = Template(x)

\* The handler of m gets past a call, fails, goes on to its next stage, or returns.
Advances(m) ==
  /\ AtCall(m)
  /\ UNCHANGED <<state, refused>> /\ result'[m] = result[m]
  /\ call'[m].op = call[m].op /\ call'[m].stage = call[m].stage
  /\ call'[m].step = call[m].step + 1
  /\ \/ /\ Needed(Current(m), Subject(m)) /\ Answer(Current(m), Subject(m)) = "ok"
        /\ Effect(Current(m), Subject(m)) /\ UNCHANGED faults
     \/ /\ ~Needed(Current(m), Subject(m))
        /\ UNCHANGED <<cluster, faults>>
     \/ /\ Current(m).verb = "restore" /\ faults' = faults + 1
        /\ UNCHANGED cluster

Fails(m) ==
  /\ AtCall(m)
  /\ UNCHANGED state
  /\ call'[m] = Idle
  /\ Needed(Current(m), Subject(m))
  /\ \/ /\ Answer(Current(m), Subject(m)) # "ok"
        /\ result'[m] = Failure(call[m].op, Answer(Current(m), Subject(m)), Current(m).kind)
        /\ refused' = IF Script(m) = deployPod /\ Answer(Current(m), Subject(m)) = "invalid"
                      THEN refused \cup {m} ELSE refused
        /\ UNCHANGED <<cluster, faults>>
     \/ /\ faults' = faults + 1
        /\ Effect(Current(m), Subject(m)) \/ UNCHANGED cluster

GoesOn(m) ==
  /\ Running(m) /\ ~AtCall(m)
  /\ call[m].stage < LastStage(m)
  /\ UNCHANGED <<state, cluster, refused, faults>> /\ result'[m] = result[m]
  /\ call'[m].op = call[m].op /\ call'[m].step = 1
  /\ call'[m].stage = call[m].stage + 1

Returns(m) ==
  /\ Running(m) /\ ~AtCall(m)
  /\ call[m].stage = LastStage(m)
  /\ UNCHANGED <<cluster, refused, faults>> /\ result'[m] = result[m]
  /\ call'[m] = Idle
  /\ state'[m] = Outcome(call[m].op)

\* A handler is called.
Enters(m) ==
  /\ ~Running(m)
  /\ UNCHANGED <<state, cluster, refused, faults>>
  /\ result'[m] = Ok
  /\ call'[m].step = 1
  /\ \/ /\ call'[m].op = "start" /\ state[m] \in {"Committed", "Stopped"}
        /\ call'[m].stage \in {0, PodStage(m)}
        /\ state[m] = "Committed" => call'[m].stage = 0
     \/ call'[m].op = "stop" /\ state[m] = "Started" /\ call'[m].stage = 0
     \/ call'[m].op = "destroy" /\ state[m] \in {"Started", "Stopped"} /\ call'[m].stage = 0

Own(m) ==
  /\ UNCHANGED <<sidecars, settings>>
  /\ Enters(m) \/ Advances(m) \/ Fails(m) \/ GoesOn(m) \/ Returns(m)

\* StartAsync, Stop, Destroy and the calls they make, as m sees its own.
LEMMA OwnStep ==
  ASSUME TypeOK, NEW m \in Mains, StartAsync(m) \/ Stop(m) \/ Destroy(m) \/ Step(m)
  PROVE  Own(m)
<1> USE DEF TypeOK
<1>1. m \in Inst /\ call[m] \in Calls /\ call \in [Inst -> Calls] /\ result \in [Inst -> Results]
  BY DEF Inst, ControlTypeOK
<1>2. UNCHANGED <<sidecars, settings>>
  BY <1>1, HandlerFrame
<1>3. CASE StartAsync(m) \/ Stop(m) \/ Destroy(m)
  <2>1. Free(m)
    BY <1>3 DEF StartAsync, Stop, Destroy, Enter
  <2>2. ~Running(m)
    BY <1>1, <2>1, FreeFacts
  <2>3. UNCHANGED <<state, cluster, refused, faults>> /\ result'[m] = Ok
    BY <1>1, <1>3 DEF StartAsync, Stop, Destroy, Enter, Begins
  <2>4. CASE StartAsync(m)
    BY <1>1, <1>2, <2>2, <2>3, <2>4 DEF StartAsync, Enter, At, PodStage, Own, Enters
  <2>5. CASE Stop(m)
    BY <1>1, <1>2, <2>2, <2>3, <2>5 DEF Stop, Enter, At, Own, Enters
  <2>6. CASE Destroy(m)
    BY <1>1, <1>2, <2>2, <2>3, <2>6 DEF Destroy, Enter, At, Own, Enters
  <2> QED BY <1>3, <2>4, <2>5, <2>6
<1>4. CASE Skip(m) \/ CallOk(m) \/ LookupFault(m)
  <2>1. /\ AtCall(m) /\ Advance(m) /\ UNCHANGED <<state, result, refused>>
    BY <1>4 DEF Skip, CallOk, LookupFault
  <2>2. /\ call'[m].op = call[m].op /\ call'[m].stage = call[m].stage
        /\ call'[m].step = call[m].step + 1
    BY <1>1, <2>1 DEF Advance, Calls
  <2>3. \/ /\ Needed(Current(m), Subject(m)) /\ Answer(Current(m), Subject(m)) = "ok"
           /\ Effect(Current(m), Subject(m)) /\ UNCHANGED faults
        \/ /\ ~Needed(Current(m), Subject(m))
           /\ UNCHANGED <<cluster, faults>>
        \/ /\ Current(m).verb = "restore" /\ faults' = faults + 1
           /\ UNCHANGED cluster
    BY <1>4 DEF Skip, CallOk, LookupFault
  <2> QED BY <1>2, <2>1, <2>2, <2>3 DEF Own, Advances
<1>5. CASE CallRefused(m) \/ CallFault(m)
  BY <1>1, <1>2, <1>5 DEF CallRefused, CallFault, Fail, Own, Fails
<1>6. CASE NextStage(m)
  BY <1>1, <1>2, <1>6 DEF NextStage, At, Own, GoesOn
<1>7. CASE Return(m)
  BY <1>1, <1>2, <1>7 DEF Return, setStateForSidecars, SetState, Family, Own, Returns
<1> QED BY <1>3, <1>4, <1>5, <1>6, <1>7 DEF Step

\* A call changes the object it is about, and no other.
LEMMA EffectFrame ==
  ASSUME TypeOK, NEW c, NEW y \in Inst, Effect(c, y), NEW x \in Inst
  PROVE  /\ \A k : x # y \/ k # c.kind => (Has(x, k)' <=> Has(x, k))
         /\ x # y \/ c.kind # "ConfigMap" => mounted'[x] = mounted[x]
         /\ x # y \/ c.kind # "Service" => exposed'[x] = exposed[x]
         /\ x # y \/ c.kind # "ReplicaSet" => podSpec'[x] = podSpec[x]
<1>1. \A k : x # y \/ k # c.kind => (Has(x, k)' <=> Has(x, k))
  BY DEF Effect, Has
<1>2. x # y \/ c.kind # "ConfigMap" => mounted'[x] = mounted[x]
  BY DEF Effect, Write, TypeOK, ClusterTypeOK
<1>3. x # y \/ c.kind # "Service" => exposed'[x] = exposed[x]
  BY DEF Effect, Write, TypeOK, ClusterTypeOK
<1>4. x # y \/ c.kind # "ReplicaSet" => podSpec'[x] = podSpec[x]
  BY DEF Effect, Write, TypeOK, ClusterTypeOK
<1> QED BY <1>1, <1>2, <1>3, <1>4

\* A step of a handler makes its current call, or none.
LEMMA StepEffect ==
  ASSUME NEW i \in Inst, Step(i)
  PROVE  \/ UNCHANGED cluster
         \/ AtCall(i) /\ Needed(Current(i), Subject(i)) /\ Effect(Current(i), Subject(i))
BY DEF Step, Skip, CallOk, LookupFault, CallRefused, CallFault, NextStage, Return

\* Stop and Destroy of a sidecar make two calls, about objects that it never has.
LEMMA SidecarCalls ==
  ASSUME TypeOK, HandlerInv, NEW i \in Sidecars, AtCall(i)
  PROVE  /\ Subject(i) = i /\ ~Leaves(Current(i))
         /\ Current(i).kind \in {"ReplicaSet", "ServiceAccount"}
<1> USE DEF TypeOK
<1>1. /\ i \in Inst /\ i \notin Mains /\ Running(i)
      /\ call[i].stage \in Nat /\ call[i].step \in Nat \ {0}
      /\ call[i].op \in {"start", "stop", "destroy"}
  BY FamilyAssumption DEF Inst, AtCall, Running, ControlTypeOK, Calls, Ops
<1>2. call[i].op \in {"stop", "destroy"} /\ ~Past(i, "stop", 0, 2) /\ ~Past(i, "destroy", 0, 2)
  BY <1>1 DEF HandlerInv
<1>3. call[i].stage = 0 /\ call[i].step \in {1, 2}
  BY <1>1, <1>2 DEF Past
<1>4. Current(i) \in {DeleteReplicaSet, DeleteServiceAccount}
  BY <1>1, <1>2, <1>3, CallTable
<1> QED BY <1>1, <1>3, <1>4, SubjectOf DEF DeleteReplicaSet, DeleteServiceAccount, Leaves

\* A setter changes the instance it is called on, or a sidecar that is new.
LEMMA TemplateFrame ==
  ASSUME TypeOK, NEW i \in Inst, Configure(i), NEW j \in Inst, j # i, state[j] # "None"
  PROVE  Template(j)' = Template(j) /\ sidecars'[j] = sidecars[j] /\ state'[j] = state[j]
<1> USE DEF TypeOK, SettingsTypeOK
<1>1. /\ volume'[j] = volume[j] /\ files'[j] = files[j]
      /\ ports'[j] = ports[j] /\ rev'[j] = rev[j]
  <2>1. ASSUME NEW s \in Sidecars, AddSidecar(i, s)
        PROVE  /\ volume'[j] = volume[j] /\ files'[j] = files[j]
               /\ ports'[j] = ports[j] /\ rev'[j] = rev[j]
    BY <2>1 DEF AddSidecar, InitNetShaper, InitObsy, InitTshark, addFileToInstance
  <2> QED BY <2>1
      DEF Configure, Edit, Set, SetStartCommand, SetArgs, SetEnvironmentVariable,
          SetImagePullPolicy, SetInstanceType, SetUnguarded, SetNodeSelector, SetMemory,
          SetCPU, SetPrivileged, AddKubernetesCapability,
          AddKubernetesCapabilities, SetLivenessProbe, SetReadinessProbe, SetStartupProbe,
          AddPolicyRule, AddVolumeWithOwner, AddFile, AddFolder, addFileToInstance, AddPort
<1>2. sidecars'[j] = sidecars[j] /\ state'[j] = state[j]
  BY EditFrame DEF AddSidecar, SetState
<1> QED BY <1>1, <1>2 DEF Template

\* The members of the family of a started instance are started.
LEMMA StartedFamily ==
  ASSUME IInv, NEW m \in Mains, state[m] = "Started", NEW x \in Family(m)
  PROVE  state[x] = "Started"
BY AttachedType DEF IInv, TypeOK, Family, Inst, SidecarsFollowParent

\* Handlers, setters and network calls of other families, and the setters of m itself,
\* are steps of something else.
LEMMA ElsewhereStep ==
  ASSUME IInv, NEW m \in Mains, [Next]_vars
  PROVE  Elsewhere(m) \/ Own(m)
<1> USE DEF IInv
<1>1. m \in Inst /\ m \notin Sidecars /\ m \in Family(m) /\ Family(m) \subseteq Inst
  BY AttachedType, FamilyAssumption DEF Inst, Family, TypeOK
<1>2. ASSUME UNCHANGED <<cluster, call, refused>>, result'[m] \in {result[m], Ok},
             state'[m] \in {"Started", "Destroyed"} \/ state[m] \in {"Started", "Destroyed"} =>
               state'[m] = state[m],
             Attached(m) \subseteq Attached(m)',
             Running(m) \/ state[m] = "Started" =>
               /\ state'[m] = state[m] /\ sidecars'[m] = sidecars[m]
               /\ \A x \in Family(m) : Template(x)' = Template(x)
      PROVE  Elsewhere(m)
  BY <1>2 DEF Elsewhere, Has, cluster
<1>3. ASSUME UNCHANGED <<sidecars, settings>>
      PROVE  /\ Attached(m) \subseteq Attached(m)'
             /\ \A x \in Family(m) : Template(x)' = Template(x)
  BY <1>3 DEF Attached, Template, settings
<1>4. ASSUME NEW i \in Inst, Build(i) PROVE Elsewhere(m)
  <2>0. result'[m] \in {result[m], Ok}
    BY <1>1, <1>4, SetterFrame DEF Begins, TypeOK, ControlTypeOK
  <2>1. UNCHANGED <<sidecars, settings, cluster, call, refused>> /\ Free(i)
    BY <1>4, SetterFrame DEF Build, SetImage, SetGitRepo, Commit
  <2>2. /\ state[i] \notin {"Started", "Destroyed"} /\ state'[i] \notin {"Started", "Destroyed"}
        /\ \A j \in Inst : j # i => state'[j] = state[j]
    BY <1>4 DEF Build, SetImage, SetGitRepo, Commit, SetState
  <2>3. Running(m) => m # i
    BY <2>1, FreeFacts
  <2> QED BY <1>1, <1>2, <1>3, <2>0, <2>1, <2>2, <2>3
<1>5. ASSUME NEW i \in Inst, Configure(i) PROVE Elsewhere(m)
  <2>0. result'[m] \in {result[m], Ok}
    BY <1>1, <1>5, SetterFrame DEF Begins, TypeOK, ControlTypeOK
  <2>1. UNCHANGED <<cluster, call, refused>> /\ Free(i)
    BY <1>5, SetterFrame
  <2>2. state[i] \in Configurable \/ SetUnguarded(i)
    BY <1>1, <1>5, RulesFrame
  <2>3. state'[m] = state[m]
    BY <1>1, <1>5, EditFrame DEF AddSidecar, SetState
  <2>4. Attached(m) \subseteq Attached(m)'
    <3>1. ASSUME NEW s \in Sidecars, AddSidecar(i, s) PROVE Attached(m) \subseteq Attached(m)'
      BY <1>1, <3>1, AttachedAfterAdd DEF TypeOK
    <3>2. CASE UNCHANGED sidecars
      BY <3>2 DEF Attached
    <3> QED BY <1>5, <3>1, <3>2, EditFrame
  <2>5. ASSUME state[i] \in Configurable, Running(m) \/ state[m] = "Started"
        PROVE  /\ sidecars'[m] = sidecars[m]
               /\ \A x \in Family(m) : Template(x)' = Template(x)
    <3>1. i \notin Family(m)
      <4>1. CASE Running(m)
        BY <2>1, <4>1, FreeFacts
      <4>2. CASE state[m] = "Started"
        BY <2>5, <4>2, StartedFamily DEF Configurable
      <4> QED BY <2>5, <4>1, <4>2
    <3>2. state[m] # "None"
      <4>1. CASE Running(m)
        <5>1. call[m].op \in {"start", "stop", "destroy"}
          BY <1>1, <4>1 DEF Running, TypeOK, ControlTypeOK, Calls, Ops
        <5> QED BY <1>1, <5>1 DEF HandlerInv
      <4> QED BY <2>5, <4>1
    <3>3. \A x \in Family(m) : state[x] # "None" /\ x # i /\ x \in Inst
      BY <1>1, <3>1, <3>2 DEF FamilyInv, Family
    <3> QED BY <1>1, <1>5, <3>3, TemplateFrame
  <2>6. CASE SetUnguarded(i)
    <3>1. sidecars'[m] = sidecars[m] /\ \A x \in Family(m) : Template(x)' = Template(x)
      BY <2>6 DEF SetUnguarded, Edit, Template
    <3> QED BY <1>2, <2>0, <2>1, <2>3, <2>4, <3>1
  <2>7. CASE state[i] \in Configurable
    BY <1>2, <2>0, <2>1, <2>3, <2>4, <2>5, <2>7
  <2> QED BY <2>2, <2>6, <2>7
<1>6. ASSUME NEW i \in Inst, Disable(i) \/ Enable(i) PROVE Elsewhere(m)
  <2>1. PICK c \in {CreateNetworkPolicy, DeleteNetworkPolicy} : Network(i, c)
    BY <1>6 DEF Disable, Enable
  <2>0. result'[m] \in {result[m], Ok}
    BY <1>1, <2>1 DEF Network, Begins, TypeOK, ControlTypeOK
  <2>2. /\ UNCHANGED <<state, sidecars, settings, call, refused>>
        /\ Effect(c, i) /\ c.kind = "NetworkPolicy" /\ Free(i) /\ state[i] = "Started"
    BY <2>1 DEF Network, CreateNetworkPolicy, DeleteNetworkPolicy
  <2>3. ASSUME NEW x \in Inst
        PROVE  /\ \A k \in PodKinds \cup ResourceKinds : Has(x, k)' <=> Has(x, k)
               /\ mounted'[x] = mounted[x] /\ exposed'[x] = exposed[x] /\ podSpec'[x] = podSpec[x]
    <3>1. \A k \in PodKinds \cup ResourceKinds : k # c.kind
      BY <2>2 DEF PodKinds, ResourceKinds
    <3> QED BY <2>2, <3>1, EffectFrame
  <2>4. m # i => (Has(m, "NetworkPolicy")' <=> Has(m, "NetworkPolicy"))
    BY <1>1, <2>2, EffectFrame
  <2>5. m = i => state[m] = "Started" /\ ~Running(m)
    BY <2>2, FreeFacts
  <2> QED BY <1>1, <1>3, <2>0, <2>2, <2>3, <2>4, <2>5 DEF Elsewhere
<1>7. ASSUME NEW i \in Inst, i # m, StartAsync(i) \/ Stop(i) \/ Destroy(i) PROVE Elsewhere(m)
  <2>1. /\ UNCHANGED <<state, sidecars, settings, cluster, refused>>
        /\ call'[m] = call[m] /\ result'[m] = result[m]
    BY <1>1, <1>7 DEF StartAsync, Stop, Destroy, Enter, Begins, TypeOK, ControlTypeOK
  <2> QED BY <1>3, <2>1 DEF Elsewhere, Has, cluster
<1>8. ASSUME NEW i \in Inst, i # m, Step(i) PROVE Elsewhere(m)
  <2>1. call'[m] = call[m] /\ state'[m] = state[m] /\ UNCHANGED <<sidecars, settings>>
    BY <1>8, OtherFrame
  <2>2. result'[m] = result[m] /\ (m \in refused' <=> m \in refused)
    BY <1>1, <1>8 DEF Step, Skip, CallOk, LookupFault, CallRefused, CallFault, Fail, NextStage,
       Return, TypeOK, ControlTypeOK
  <2>3. CASE UNCHANGED cluster
    BY <1>3, <2>1, <2>2, <2>3 DEF Elsewhere, Has, cluster
  <2>4. CASE AtCall(i) /\ Effect(Current(i), Subject(i))
    <3> DEFINE c == Current(i)
               y == Subject(i)
    <3>1. Running(i) /\ y \in Family(i) /\ y \in Inst
      BY <2>4, SubjectOf, SubjectType DEF AtCall, Family, TypeOK
    <3>2. ASSUME NEW x \in Family(m), NEW k \in PodKinds \cup ResourceKinds \cup {"NetworkPolicy"}
          PROVE  (Has(x, k)' <=> Has(x, k)) /\ (y # x \/ c.kind \notin {"ConfigMap", "Service"})
      <4>1. CASE i \in Mains
        <5>1. x # y
          BY <1>8, <3>1, <4>1, FamiliesApart
        <5> QED BY <1>1, <2>4, <3>1, <5>1, EffectFrame
      <4>2. CASE i \in Sidecars
        <5>1. y = i /\ ~Leaves(c) /\ c.kind \in {"ReplicaSet", "ServiceAccount"}
          BY <2>4, <4>2, SidecarCalls
        <5>2. <<c.kind, y>> \notin objs
          BY <4>2, <5>1 DEF OwnerInv, PodKinds
        <5>3. objs' = objs
          BY <2>4, <5>1, <5>2 DEF Effect
        <5> QED BY <5>1, <5>3 DEF Has
      <4> QED BY <4>1, <4>2 DEF Inst
    <3>3. y # m
      <4>1. CASE i \in Mains
        BY <1>1, <1>8, <3>1, <4>1, FamiliesApart
      <4>2. CASE i \in Sidecars
        BY <1>1, <2>4, <4>2, SidecarCalls
      <4> QED BY <4>1, <4>2 DEF Inst
    <3>4. \A x \in Family(m) : mounted'[x] = mounted[x]
      BY <1>1, <2>4, <3>1, <3>2, EffectFrame DEF PodKinds
    <3>5. exposed'[m] = exposed[m] /\ podSpec'[m] = podSpec[m]
      BY <1>1, <2>4, <3>1, <3>3, EffectFrame
    <3>6. Has(m, "NetworkPolicy")' <=> Has(m, "NetworkPolicy")
      BY <1>1, <3>2
    <3> QED BY <1>3, <2>1, <2>2, <3>2, <3>4, <3>5, <3>6 DEF Elsewhere
  <2> QED BY <1>8, <2>3, <2>4, StepEffect
<1>9. ASSUME StartAsync(m) \/ Stop(m) \/ Destroy(m) \/ Step(m) PROVE Own(m)
  BY <1>9, OwnStep
<1>10. CASE UNCHANGED vars
  <2>1. UNCHANGED <<cluster, call, result, refused, state, sidecars, settings>>
    BY <1>10 DEF vars
  <2> QED BY <1>2, <1>3, <2>1
<1> QED BY <1>4, <1>5, <1>6, <1>7, <1>8, <1>9, <1>10 DEF Next

\* The number of calls that have failed on their way only grows.
LEMMA FaultsGrow ==
  ASSUME TypeOK, [Next]_vars
  PROVE  faults \in Nat /\ (faults' = faults \/ faults' = faults + 1)
<1>1. faults \in Nat
  BY BoundAssumption DEF TypeOK, ClusterTypeOK
<1>2. ASSUME NEW i \in Inst, Build(i) \/ Configure(i) PROVE faults' = faults
  BY <1>2, SetterFrame
<1>3. ASSUME NEW i \in Inst,
             \/ StartAsync(i) \/ Stop(i) \/ Destroy(i) \/ Disable(i) \/ Enable(i) \/ Step(i)
      PROVE  faults' = faults \/ faults' = faults + 1
  BY <1>3 DEF StartAsync, Stop, Destroy, Enter, Disable, Enable, Network, Step, Skip, CallOk,
     LookupFault, CallRefused, CallFault, NextStage, Return
<1> QED BY <1>1, <1>2, <1>3 DEF Next, vars

\* How a handler gets past a call: it makes it or skips it, or, as a start of a stopped
\* instance, it begins after it.
LEMMA PastFrom ==
  ASSUME TypeOK, NEW m \in Mains, Own(m), NEW op \in {"start", "stop", "destroy"},
         NEW g \in Nat, NEW k \in 1..4, k <= 3 \/ ~(op = "start" /\ g = 0),
         Past(m, op, g, k)'
  PROVE  \/ Past(m, op, g, k)
         \/ Advances(m) /\ call[m].op = op /\ call[m].stage = g /\ call[m].step = k
         \/ Enters(m) /\ op = "start" /\ g < PodStage(m) /\ state[m] = "Stopped"
<1>1. /\ m \in Inst /\ call[m].stage \in Nat /\ call[m].step \in Nat \ {0}
      /\ Len(sidecars[m]) \in Nat
  BY SubjectType DEF Inst, TypeOK, ControlTypeOK, Calls
<1>2. /\ call'[m].op = op
      /\ call'[m].stage > g \/ (call'[m].stage = g /\ call'[m].step > k)
  BY DEF Past
<1>3. CASE Enters(m)
  BY <1>1, <1>2, <1>3 DEF Enters, PodStage
<1>4. CASE Advances(m)
  BY <1>1, <1>2, <1>4 DEF Advances, Past
<1>5. CASE GoesOn(m)
  <2>1. call[m].step > 3 /\ (~(call[m].op = "start" /\ call[m].stage = 0) => call[m].step > 4)
    BY <1>1, <1>5, ScriptEnd DEF GoesOn, TypeOK
  <2> QED BY <1>1, <1>2, <1>5, <2>1 DEF GoesOn, Past
<1>6. CASE Fails(m) \/ Returns(m)
  BY <1>2, <1>6 DEF Fails, Returns, Idle
<1> QED BY <1>3, <1>4, <1>5, <1>6 DEF Own

\* While its settings and its sidecars stay, so does what an instance is deployed with.
LEMMA SameSettings ==
  ASSUME NEW m \in Mains, sidecars'[m] = sidecars[m],
         \A x \in Family(m) : Template(x)' = Template(x)
  PROVE  /\ PodTemplate(m)' = [PodTemplate(m) EXCEPT !.unguarded = unguarded'[m]]
         /\ PodStage(m)' = PodStage(m)
         /\ Family(m)' = Family(m) /\ FamilyPorts(m)' = FamilyPorts(m)
         /\ \A x \in Family(m) : volume'[x] = volume[x] /\ files'[x] = files[x]
<1>1. Attached(m)' = Attached(m) /\ Family(m)' = Family(m) /\ PodStage(m)' = PodStage(m)
  BY DEF Attached, Family, PodStage
<1>2. \A x \in Family(m) :
        volume'[x] = volume[x] /\ files'[x] = files[x] /\ ports'[x] = ports[x]
  BY DEF Template
<1>3. m \in Family(m) /\ \A q \in 1..Len(sidecars[m]) : sidecars[m][q] \in Family(m)
  BY DEF Family, Attached
<1>4. PodTemplate(m)' = [PodTemplate(m) EXCEPT !.unguarded = unguarded'[m]]
  <2> DEFINE T == Template(m)
             S == [q \in 1..Len(sidecars[m]) |-> Template(sidecars[m][q])]
  <2>1. T' = T
    BY <1>3
  <2>2. S' = S
    BY <1>3
  <2>3. PodTemplate(m) = [main |-> T, unguarded |-> unguarded[m], sidecars |-> S]
    BY DEF PodTemplate
  <2>4. PodTemplate(m)' = [main |-> T, unguarded |-> unguarded'[m], sidecars |-> S]
    BY <2>1, <2>2 DEF PodTemplate
  <2> HIDE DEF T, S
  <2> QED BY <2>3, <2>4
<1>5. FamilyPorts(m)' = FamilyPorts(m)
  BY <1>1, <1>2 DEF FamilyPorts
<1> QED BY <1>1, <1>2, <1>4, <1>5

\* No handler changes a setting.
LEMMA OwnSettings ==
  ASSUME NEW m \in Mains, Own(m)
  PROVE  sidecars'[m] = sidecars[m] /\ \A x \in Family(m) : Template(x)' = Template(x)
BY DEF Own, Template, settings

-----------------------------------------------------------------------------
(* The pod is the one the settings describe *)

\* Which calls are about m's replica set.
LEMMA ReplicaSetCalls ==
  ASSUME TypeOK, NEW m \in Mains, AtCall(m)
  PROVE  /\ Current(m).kind = "ReplicaSet" =>
              /\ Subject(m) = m
              /\ call[m].op = "start" => Current(m) = CreateReplicaSet
              /\ call[m].op # "start" => Current(m) = DeleteReplicaSet
         /\ call[m].op = "start" /\ call[m].stage = PodStage(m) /\ call[m].step = 4 =>
              Current(m) = CreateReplicaSet /\ Needed(Current(m), Subject(m))
<1>1. /\ m \in Inst /\ Len(sidecars[m]) \in Nat /\ Running(m)
      /\ call[m].stage \in Nat /\ call[m].step \in Nat
  BY SubjectType DEF Inst, AtCall, TypeOK, ControlTypeOK, Calls
<1>2. CASE call[m].op = "start" /\ call[m].stage > 0 /\ ~(call[m].stage <= Len(sidecars[m]))
  <2>1. Subject(m) = m
    BY <1>1, <1>2, SubjectOf DEF TypeOK
  <2> QED BY <1>1, <1>2, <2>1, CallTable
      DEF TypeOK, Needed, CreateServiceAccount, CreateRole, CreateRoleBinding,
          CreateReplicaSet, DeployOrPatchService, DeleteService
<1>3. CASE call[m].op \in {"stop", "destroy"} /\ call[m].stage = 0
  <2>1. Subject(m) = m
    BY <1>1, <1>3, SubjectOf DEF TypeOK
  <2> QED BY <1>1, <1>3, <2>1, CallTable
      DEF TypeOK, DeleteServiceAccount, DeleteRole, DeleteRoleBinding, DeleteReplicaSet
<1>4. CASE call[m].op = "start" /\ call[m].stage <= Len(sidecars[m])
  BY <1>1, <1>4, CallTable
  DEF TypeOK, DeployOrPatchService, CreatePersistentVolumeClaim, CreateOrUpdateConfigMap,
      CreateMiddleware, CreateIngressRoute, PodStage
<1>5. CASE call[m].op \in {"stop", "destroy"} /\ call[m].stage > 0
  BY <1>1, <1>5, CallTable
  DEF TypeOK, DeletePersistentVolumeClaim, DeleteConfigMap, DeleteService, EnableIfDisabled
<1> QED BY <1>1, <1>2, <1>3, <1>4, <1>5, CallTable DEF TypeOK

\* A setter that any state accepts only makes the pod's value an earlier one.
LEMMA ReflectsKept ==
  ASSUME TypeOK, [Next]_vars, NEW m \in Mains, Reflects(m), podSpec'[m] = podSpec[m],
         sidecars'[m] = sidecars[m], \A x \in Family(m) : Template(x)' = Template(x)
  PROVE  Reflects(m)'
<1>1. m \in Inst /\ unguarded[m] \in Nat /\ unguarded \in [Inst -> Nat]
  BY DEF Inst, TypeOK, SettingsTypeOK
<1>2. ASSUME NEW i \in Inst, Configure(i)
      PROVE  unguarded'[m] \in Nat /\ unguarded[m] <= unguarded'[m]
  <2>1. ASSUME NEW s \in Sidecars, AddSidecar(i, s) PROVE unguarded' = unguarded
    BY <2>1 DEF AddSidecar, InitNetShaper, InitObsy, InitTshark
  <2> QED BY <1>1, <1>2, <2>1
      DEF Configure, Edit, Set, SetStartCommand, SetArgs, SetEnvironmentVariable,
          SetImagePullPolicy, SetInstanceType, SetUnguarded, SetNodeSelector, SetMemory,
          SetCPU, SetPrivileged, AddKubernetesCapability,
          AddKubernetesCapabilities, SetLivenessProbe, SetReadinessProbe, SetStartupProbe,
          AddPolicyRule, AddVolumeWithOwner, AddFile, AddFolder, addFileToInstance, AddPort
<1>3. ASSUME NEW i \in Inst, Build(i) PROVE unguarded' = unguarded
  BY <1>3 DEF Build, SetImage, SetGitRepo, Commit, settings
<1>4. ASSUME NEW i \in Inst,
             \/ StartAsync(i) \/ Stop(i) \/ Destroy(i) \/ Disable(i) \/ Enable(i) \/ Step(i)
      PROVE  unguarded' = unguarded
  BY <1>4, HandlerFrame DEF settings
<1>5. ASSUME UNCHANGED vars PROVE unguarded' = unguarded
  BY <1>5 DEF vars, settings
<1>6. unguarded'[m] \in Nat /\ unguarded[m] <= unguarded'[m]
  BY <1>1, <1>2, <1>3, <1>4, <1>5 DEF Next
<1>7. PICK n \in 0..unguarded[m] : podSpec[m] = [PodTemplate(m) EXCEPT !.unguarded = n]
  BY DEF Reflects
<1>8. n \in 0..unguarded'[m]
  BY <1>1, <1>6, <1>7
<1>9. [PodTemplate(m) EXCEPT !.unguarded = n] = [PodTemplate(m)' EXCEPT !.unguarded = n]
  <2>1. PodTemplate(m)' = [PodTemplate(m) EXCEPT !.unguarded = unguarded'[m]]
    BY SameSettings
  <2> QED BY <2>1 DEF PodTemplate
<1> QED BY <1>7, <1>8, <1>9 DEF Reflects

\* prepareReplicaSetConfig reads the settings right before the replica set is created, and
\* no setting changes until Stop or Destroy has deleted it.
LEMMA SpecStep ==
  ASSUME IInv, SpecInv, [Next]_vars
  PROVE  SpecInv'
<1> SUFFICES ASSUME NEW m \in Mains PROVE UpToDate(m)'
  BY DEF SpecInv
<1> USE DEF IInv
<1>1. /\ m \in Inst /\ m \in Family(m) /\ Len(sidecars[m]) \in Nat /\ PodStage(m) \in Nat
      /\ "ReplicaSet" \in PodKinds \cup ResourceKinds
  BY SubjectType DEF Inst, Family, TypeOK, PodKinds, PodStage
<1>2. UpToDate(m)
  BY DEF SpecInv
<1> SUFFICES ASSUME \/ state'[m] = "Started" /\ Has(m, "ReplicaSet")'
                    \/ Past(m, "start", PodStage(m), 4)'
             PROVE  Reflects(m)'
  BY DEF UpToDate
<1>3. CASE Elsewhere(m)
  <2>1. Running(m) \/ state[m] = "Started"
    BY <1>3 DEF Elsewhere, Past, Running
  <2>2. sidecars'[m] = sidecars[m] /\ \A x \in Family(m) : Template(x)' = Template(x)
    BY <1>3, <2>1 DEF Elsewhere
  <2>3. PodStage(m)' = PodStage(m)
    BY <2>2, SameSettings
  <2>4. (state[m] = "Started" /\ Has(m, "ReplicaSet")) \/ Past(m, "start", PodStage(m), 4)
    BY <1>1, <1>3, <2>3 DEF Elsewhere, Past
  <2> QED BY <1>2, <1>3, <2>2, <2>4, ReflectsKept DEF Elsewhere, UpToDate
<1>4. CASE Own(m)
  <2>1. PodTemplate(m)' = PodTemplate(m) /\ PodStage(m)' = PodStage(m)
    <3>1. unguarded' = unguarded
      BY <1>4 DEF Own, settings
    <3> QED BY <1>4, <3>1, OwnSettings, SameSettings DEF PodTemplate
  <2>2. ASSUME podSpec'[m] = podSpec[m],
               (state[m] = "Started" /\ Has(m, "ReplicaSet")) \/ Past(m, "start", PodStage(m), 4)
        PROVE  Reflects(m)'
    BY <1>2, <1>4, <2>2, OwnSettings, ReflectsKept DEF UpToDate
  <2>3. Past(m, "start", PodStage(m), 4)' =>
          \/ Past(m, "start", PodStage(m), 4)
          \/ /\ Advances(m) /\ call[m].op = "start"
             /\ call[m].stage = PodStage(m) /\ call[m].step = 4
    <3>1. ASSUME Past(m, "start", PodStage(m), 4)'
          PROVE  \/ Past(m, "start", PodStage(m), 4)
                 \/ /\ Advances(m) /\ call[m].op = "start"
                    /\ call[m].stage = PodStage(m) /\ call[m].step = 4
      <4>1. PodStage(m) # 0
        BY <1>1 DEF PodStage
      <4>2. ~(PodStage(m) < PodStage(m))
        BY <1>1
      <4>3. Past(m, "start", PodStage(m), 4)' <=>
              /\ call'[m].op = "start"
              /\ call'[m].stage > PodStage(m) \/ (call'[m].stage = PodStage(m) /\ call'[m].step > 4)
        BY <2>1 DEF Past
      <4>4. \A g \in Nat : g = PodStage(m) /\ Past(m, "start", g, 4)' =>
              Past(m, "start", g, 4) \/
              (Advances(m) /\ call[m].op = "start" /\ call[m].stage = g /\ call[m].step = 4)
        BY <1>4, <4>1, <4>2, PastFrom
      <4> QED BY <1>1, <3>1, <4>3, <4>4 DEF Past
    <3> QED BY <3>1
  <2>4. CASE Enters(m) \/ GoesOn(m)
    <3>1. podSpec'[m] = podSpec[m] /\ state'[m] = state[m] /\
          (Has(m, "ReplicaSet")' <=> Has(m, "ReplicaSet")) /\ ~Advances(m)
      BY <2>4 DEF Enters, GoesOn, cluster, Has, Advances, AtCall
    <3> QED BY <2>2, <2>3, <3>1
  <2>5. CASE Returns(m)
    <3>1. ~Past(m, "start", PodStage(m), 4)'
      BY <2>5 DEF Returns, Past, Idle
    <3>2. call[m].op = "start" /\ podSpec'[m] = podSpec[m]
      BY <2>5, <3>1 DEF Returns, Outcome, cluster
    <3>3. call[m].stage = PodStage(m)
      BY <2>5, <3>2 DEF Returns, LastStage, PodStage
    <3>4. call[m].step > 4
      BY <1>1, <2>5, <3>3, ScriptEnd DEF Returns, TypeOK, PodStage
    <3>5. Past(m, "start", PodStage(m), 4)
      BY <3>2, <3>3, <3>4 DEF Past
    <3> QED BY <2>2, <3>2, <3>5
  <2>6. CASE Advances(m) \/ Fails(m)
    <3>1. AtCall(m) /\ state'[m] = state[m] /\ Subject(m) \in Inst
      BY <1>1, <2>6, SubjectType DEF Advances, Fails, TypeOK
    <3>2. call[m].op = "start" => state[m] # "Started"
      BY <1>1 DEF HandlerInv
    <3>3. CASE Effect(Current(m), Subject(m)) /\ Current(m).kind = "ReplicaSet"
      <4>1. CASE call[m].op = "start"
        <5>1. Current(m) = CreateReplicaSet /\ Subject(m) = m
          BY <3>1, <3>3, <4>1, ReplicaSetCalls
        <5>2. podSpec'[m] = PodTemplate(m)
          BY <1>1, <3>3, <5>1 DEF Effect, Write, Writes, CreateReplicaSet, TypeOK, ClusterTypeOK
        <5>3. unguarded'[m] \in 0..unguarded'[m]
          BY <1>1, SettingsType DEF TypeOK, SettingsTypeOK
        <5>4. PodTemplate(m)' = [PodTemplate(m)' EXCEPT !.unguarded = unguarded'[m]]
          BY DEF PodTemplate
        <5> QED BY <2>1, <5>2, <5>3, <5>4 DEF Reflects
      <4>2. CASE call[m].op # "start"
        <5>1. Current(m) = DeleteReplicaSet /\ Subject(m) = m
          BY <3>1, <3>3, <4>2, ReplicaSetCalls
        <5>2. ~Has(m, "ReplicaSet")'
          BY <3>3, <5>1 DEF Effect, Has, Leaves, DeleteReplicaSet
        <5>3. ~Past(m, "start", PodStage(m), 4)'
          BY <2>3, <4>2 DEF Past
        <5> QED BY <5>2, <5>3
      <4> QED BY <4>1, <4>2
    <3>4. CASE \/ UNCHANGED cluster
               \/ Effect(Current(m), Subject(m)) /\ Current(m).kind # "ReplicaSet"
      <4>1. podSpec'[m] = podSpec[m] /\ (Has(m, "ReplicaSet")' <=> Has(m, "ReplicaSet"))
        <5>1. CASE UNCHANGED cluster
          BY <5>1 DEF cluster, Has
        <5>2. CASE Effect(Current(m), Subject(m)) /\ Current(m).kind # "ReplicaSet"
          BY <1>1, <3>1, <5>2, EffectFrame
        <5> QED BY <3>4, <5>1, <5>2
      <4>2. CASE /\ Advances(m) /\ call[m].op = "start"
                 /\ call[m].stage = PodStage(m) /\ call[m].step = 4
        <5>1. Current(m) = CreateReplicaSet /\ Needed(Current(m), Subject(m))
          BY <3>1, <4>2, ReplicaSetCalls
        <5>2. Effect(Current(m), Subject(m)) /\ Current(m).kind = "ReplicaSet"
          BY <4>2, <5>1 DEF Advances, CreateReplicaSet
        <5> QED BY <3>3, <5>2
      <4> QED BY <2>2, <2>3, <3>1, <4>1, <4>2
    <3> QED BY <2>6, <3>3, <3>4 DEF Advances, Fails
  <2> QED BY <1>4, <2>4, <2>5, <2>6 DEF Own
<1> QED BY <1>3, <1>4, ElsewhereStep

\* The replica set of a started instance: whatever was upgraded, restarted or failed
\* before, it runs the pod that the current settings describe, with every sidecar in it;
\* no setter gets past its state check between prepareReplicaSetConfig and Stop.  Only
\* SetImagePullPolicy and SetInstanceType, which have none, leave the pod behind.
THEOREM PodsAreUpToDate == Spec => []PodReflectsSettings
<1>1. Init => SpecInv
  <2> SUFFICES ASSUME Init, NEW m \in Mains PROVE UpToDate(m)
    BY DEF SpecInv
  <2>1. state[m] = "None" /\ call[m] = Idle
    BY DEF Init, Inst
  <2> QED BY <2>1 DEF UpToDate, Past, Idle
<1>2. IInv /\ SpecInv /\ [Next]_vars => SpecInv'
  BY SpecStep
<1>3. SpecInv => PodReflectsSettings
  BY DEF SpecInv, UpToDate, Reflects, PodReflectsSettings
<1> QED BY <1>1, <1>2, <1>3, IInvHolds, PTL DEF Spec

-----------------------------------------------------------------------------
(* Destroy enables a disabled network *)

\* The only call of a handler about a network is enableIfDisabled.
LEMMA PolicyCalls ==
  ASSUME TypeOK, NEW m \in Mains, AtCall(m)
  PROVE  /\ Effect(Current(m), Subject(m)) => (Has(m, "NetworkPolicy")' => Has(m, "NetworkPolicy"))
         /\ call[m].op = "destroy" /\ call[m].stage = 1 /\ call[m].step = 4 =>
              /\ Current(m) = EnableIfDisabled /\ Subject(m) = m
              /\ Needed(Current(m), Subject(m))
<1>1. m \in Inst /\ m \notin Sidecars /\ Running(m)
  BY FamilyAssumption DEF Inst, AtCall
<1>2. Leaves(Current(m)) => Current(m).kind # "NetworkPolicy"
  BY <1>1, Creations DEF TypeOK, PodKinds, ResourceKinds
<1>3. Effect(Current(m), Subject(m)) => (Has(m, "NetworkPolicy")' => Has(m, "NetworkPolicy"))
  BY <1>2 DEF Effect, Has
<1>4. ASSUME call[m].op = "destroy" /\ call[m].stage = 1 /\ call[m].step = 4
      PROVE  Current(m) = EnableIfDisabled /\ Subject(m) = m
  BY <1>1, <1>4, CallTable, SubjectOf DEF TypeOK
<1>5. Needed(EnableIfDisabled, m)
  BY <1>1 DEF Needed, EnableIfDisabled, DeployOrPatchService, DeleteService
<1> QED BY <1>3, <1>4, <1>5

\* Destroy cannot end without enableIfDisabled, and Disable needs a started instance on
\* which no handler runs.
LEMMA PolicyStep ==
  ASSUME IInv, PolicyInv, [Next]_vars
  PROVE  PolicyInv'
<1> SUFFICES ASSUME NEW m \in Mains, faults' = 0,
                    Past(m, "destroy", 1, 4)' \/ state'[m] = "Destroyed"
             PROVE  ~Has(m, "NetworkPolicy")'
  BY DEF PolicyInv, Enabled
<1> USE DEF IInv
<1>1. m \in Inst /\ Len(sidecars[m]) \in Nat
  BY SubjectType DEF Inst, TypeOK
<1>2. faults = 0
  BY FaultsGrow
<1>3. Past(m, "destroy", 1, 4) \/ state[m] = "Destroyed" => ~Has(m, "NetworkPolicy")
  BY <1>2 DEF PolicyInv, Enabled
<1>4. CASE Elsewhere(m)
  <2>1. Past(m, "destroy", 1, 4) \/ state[m] = "Destroyed"
    BY <1>4 DEF Elsewhere, Past
  <2>2. Running(m) \/ state[m] = "Destroyed"
    BY <2>1 DEF Past, Running
  <2> QED BY <1>3, <1>4, <2>1, <2>2 DEF Elsewhere
<1>5. CASE Own(m)
  <2>1. Past(m, "destroy", 1, 4)' =>
          \/ Past(m, "destroy", 1, 4)
          \/ Advances(m) /\ call[m].op = "destroy" /\ call[m].stage = 1 /\ call[m].step = 4
    BY <1>5, PastFrom
  <2>2. CASE Advances(m) /\ call[m].op = "destroy" /\ call[m].stage = 1 /\ call[m].step = 4
    <3>1. Current(m) = EnableIfDisabled /\ Subject(m) = m /\ Needed(Current(m), Subject(m))
      BY <2>2, PolicyCalls DEF Advances
    <3>2. Effect(EnableIfDisabled, m)
      BY <1>2, <2>2, <3>1 DEF Advances
    <3> QED BY <3>2 DEF Effect, Has, Leaves, EnableIfDisabled
  <2>3. CASE Returns(m)
    <3>1. ~Past(m, "destroy", 1, 4)'
      BY <2>3 DEF Returns, Past, Idle
    <3>2. call[m].op = "destroy"
      <4>1. call[m].op \in {"start", "stop", "destroy"}
        BY <1>1, <2>3, ScriptEnd DEF Returns, TypeOK
      <4> QED BY <2>3, <3>1, <4>1 DEF Returns, Outcome
    <3>3. call[m].stage = Len(sidecars[m]) + 1
      BY <2>3, <3>2 DEF Returns, LastStage
    <3>4. call[m].step > 4
      BY <1>1, <2>3, <3>2, ScriptEnd DEF Returns, TypeOK
    <3>5. Past(m, "destroy", 1, 4)
      BY <1>1, <3>2, <3>3, <3>4 DEF Past
    <3> QED BY <1>3, <2>3, <3>5 DEF Returns, cluster, Has
  <2>4. CASE Enters(m) \/ GoesOn(m)
    <3>1. /\ state'[m] = state[m] /\ ~Advances(m)
          /\ Has(m, "NetworkPolicy")' <=> Has(m, "NetworkPolicy")
      BY <2>4 DEF Enters, GoesOn, Advances, AtCall, cluster, Has
    <3> QED BY <1>3, <2>1, <3>1
  <2>5. CASE Advances(m) \/ Fails(m)
    <3>1. /\ AtCall(m) /\ state'[m] = state[m]
          /\ Effect(Current(m), Subject(m)) \/ UNCHANGED cluster
      BY <2>5 DEF Advances, Fails
    <3>2. Has(m, "NetworkPolicy")' => Has(m, "NetworkPolicy")
      BY <3>1, PolicyCalls DEF Has, cluster
    <3> QED BY <1>3, <2>1, <2>2, <3>1, <3>2
  <2> QED BY <1>5, <2>3, <2>4, <2>5 DEF Own
<1> QED BY <1>4, <1>5, ElsewhereStep

\* enableIfDisabled: as long as no call has failed on its way, no network policy is left
\* of an instance in state Destroyed.
THEOREM NetworksAreRestored == Spec => []NetworkRestored
<1>1. Init => PolicyInv
  BY DEF Init, PolicyInv, Enabled, Has
<1>2. IInv /\ PolicyInv /\ [Next]_vars => PolicyInv'
  BY PolicyStep
<1>3. PolicyInv => NetworkRestored
  BY DEF PolicyInv, Enabled, NetworkRestored
<1> QED BY <1>1, <1>2, <1>3, IInvHolds, PTL DEF Spec

-----------------------------------------------------------------------------
(* Without failed calls, nothing of a pod is left over *)

\* deployPod creates, and destroyPod deletes, one object of each kind of a pod.
LEMMA PodScripts ==
  /\ \A k \in 1..4 :
       /\ deployPod[k].kind \in PodKinds /\ deployPod[k].verb = "create"
       /\ destroyPod[k].kind \in PodKinds /\ destroyPod[k].verb \in {"delete", "discard"}
  /\ \A x \in PodKinds : \E k \in 1..4 : deployPod[k].kind = x
  /\ \A x \in PodKinds : \E k \in 1..4 : destroyPod[k].kind = x
  /\ \A j, k \in 1..4 : deployPod[j].kind = deployPod[k].kind => j = k
  /\ deployPod[1].kind = "ServiceAccount" /\ deployPod[2].kind = "Role"
  /\ deployPod[3].kind = "RoleBinding" /\ deployPod[4].kind = "ReplicaSet"
  /\ destroyPod[3].kind = "Role" /\ destroyPod[4].kind = "RoleBinding"
<1> USE DEF deployPod, destroyPod, PodKinds, CreateServiceAccount, CreateRole, CreateRoleBinding,
            CreateReplicaSet, DeleteReplicaSet, DeleteServiceAccount, DeleteRole, DeleteRoleBinding
<1>1. \A k \in 1..4 : k = 1 \/ k = 2 \/ k = 3 \/ k = 4
  OBVIOUS
<1>2. \A k \in 1..4 :
       /\ deployPod[k].kind \in PodKinds /\ deployPod[k].verb = "create"
       /\ destroyPod[k].kind \in PodKinds /\ destroyPod[k].verb \in {"delete", "discard"}
  BY <1>1
<1>3. /\ deployPod[1].kind = "ServiceAccount" /\ deployPod[2].kind = "Role"
      /\ deployPod[3].kind = "RoleBinding" /\ deployPod[4].kind = "ReplicaSet"
      /\ destroyPod[1].kind = "ReplicaSet" /\ destroyPod[2].kind = "ServiceAccount"
      /\ destroyPod[3].kind = "Role" /\ destroyPod[4].kind = "RoleBinding"
  OBVIOUS
<1>4. 1 \in 1..4 /\ 2 \in 1..4 /\ 3 \in 1..4 /\ 4 \in 1..4
  OBVIOUS
<1>5. \A x \in PodKinds : \E k \in 1..4 : deployPod[k].kind = x
  BY <1>3, <1>4
<1>6. \A x \in PodKinds : \E k \in 1..4 : destroyPod[k].kind = x
  BY <1>3, <1>4
<1>7. \A j, k \in 1..4 : deployPod[j].kind = deployPod[k].kind => j = k
  BY <1>1, <1>3
<1> QED BY <1>2, <1>3, <1>5, <1>6, <1>7

\* Which calls are about the objects of m's pod.
LEMMA PodCalls ==
  ASSUME TypeOK, NEW m \in Mains, AtCall(m)
  PROVE  /\ call[m].op = "start" /\ call[m].stage > Len(sidecars[m]) =>
              /\ Subject(m) = m /\ call[m].step \in 1..4
              /\ Current(m) = deployPod[call[m].step]
         /\ call[m].op = "stop" /\ call[m].stage = 0 =>
              /\ Subject(m) = m /\ call[m].step \in 1..4
              /\ Current(m) = destroyPod[call[m].step]
         /\ Leaves(Current(m)) => call[m].op = "start"
         /\ Leaves(Current(m)) /\ Current(m).kind \in PodKinds => call[m].stage > Len(sidecars[m])
<1>1. /\ m \in Inst /\ Len(sidecars[m]) \in Nat /\ Running(m)
      /\ call[m].stage \in Nat /\ call[m].step \in Nat \ {0} /\ call[m].step <= Len(Script(m))
  BY SubjectType DEF Inst, AtCall, TypeOK, ControlTypeOK, Calls
<1>2. ASSUME call[m].op = "start", call[m].stage > Len(sidecars[m])
      PROVE  /\ Subject(m) = m /\ call[m].step \in 1..4
             /\ Current(m) = deployPod[call[m].step]
  <2>1. Subject(m) = m
    BY <1>1, <1>2, SubjectOf DEF TypeOK
  <2>2. Script(m) = deployPod
    BY <1>1, <1>2 DEF Script
  <2>3. Len(deployPod) = 4
    BY DEF deployPod
  <2> QED BY <1>1, <2>1, <2>2, <2>3 DEF Current
<1>3. ASSUME call[m].op = "stop", call[m].stage = 0
      PROVE  /\ Subject(m) = m /\ call[m].step \in 1..4
             /\ Current(m) = destroyPod[call[m].step]
  <2>1. Subject(m) = m
    BY <1>1, <1>3, SubjectOf DEF TypeOK
  <2>2. Script(m) = destroyPod
    BY <1>1, <1>3 DEF Script
  <2>3. Len(destroyPod) = 4
    BY DEF destroyPod
  <2> QED BY <1>1, <2>1, <2>2, <2>3 DEF Current
<1>4. Leaves(Current(m)) => call[m].op = "start"
  BY <1>1, Creations DEF TypeOK
<1>5. ASSUME Leaves(Current(m)), Current(m).kind \in PodKinds, call[m].stage <= Len(sidecars[m])
      PROVE  FALSE
  BY <1>1, <1>4, <1>5, CallTable
  DEF TypeOK, PodKinds, DeployOrPatchService, CreatePersistentVolumeClaim,
      CreateOrUpdateConfigMap, CreateMiddleware, CreateIngressRoute
<1>6. call[m].stage > Len(sidecars[m]) \/ call[m].stage <= Len(sidecars[m])
  BY <1>1
<1> QED BY <1>2, <1>3, <1>4, <1>5, <1>6

\* A call that creates an object finds it missing, unless it is about the proxy, or about
\* the account that a refused start has left.
LEMMA CreateAnswered ==
  ASSUME TypeOK, NEW m \in Mains, Vacant(m), AtCall(m), call[m].op = "start",
         Answer(Current(m), Subject(m)) \notin {"ok", "invalid"}
  PROVE  \/ /\ call[m].stage <= Len(sidecars[m])
            /\ Current(m).kind \in {"Middleware", "IngressRoute"}
         \/ /\ call[m].stage > Len(sidecars[m]) /\ call[m].step = 1
            /\ Current(m).kind = "ServiceAccount" /\ m \in refused
            /\ Answer(Current(m), Subject(m)) = "exists"
<1>1. /\ m \in Inst /\ Len(sidecars[m]) \in Nat /\ Running(m)
      /\ call[m].stage \in Nat /\ call[m].step \in Nat \ {0}
  BY SubjectType DEF Inst, AtCall, TypeOK, ControlTypeOK, Calls
<1>2. CASE call[m].stage > Len(sidecars[m])
  <2>1. /\ Subject(m) = m /\ call[m].step \in 1..4
        /\ Current(m) = deployPod[call[m].step]
    BY <1>2, PodCalls
  <2>2. Current(m).kind \in PodKinds /\ Current(m).verb = "create"
    BY <2>1, PodScripts
  <2>3. call[m].stage = PodStage(m) /\ ~Past(m, "start", PodStage(m), call[m].step)
    BY <1>1, <1>2 DEF Vacant, Past, PodStage
  <2>4. Allowed(Current(m), m)
    BY <2>2 DEF Allowed, PodKinds
  <2>5. Answer(Current(m), m) = "exists" /\ Has(m, Current(m).kind)
    BY <2>1, <2>2, <2>4 DEF Answer, Conflict, Exists, Has
  <2>6. call[m].step = 1
    <3> SUFFICES ASSUME call[m].step \in 2..4 PROVE FALSE
      BY <2>1
    <3>1. Past(m, "start", PodStage(m), 1)
      BY <2>3 DEF Past
    <3> QED BY <2>1, <2>3, <2>5, <3>1 DEF Vacant
  <2>7. Unrefused(m)
    BY <2>3, <2>6 DEF Vacant
  <2>8. Current(m).kind = "ServiceAccount"
    BY <2>1, <2>6, PodScripts
  <2> QED BY <1>2, <2>1, <2>2, <2>5, <2>6, <2>7, <2>8 DEF Unrefused
<1>3. CASE call[m].stage <= Len(sidecars[m])
  <2>1. Current(m) \in {DeployOrPatchService, CreatePersistentVolumeClaim,
                        CreateOrUpdateConfigMap, CreateMiddleware, CreateIngressRoute}
    BY <1>1, <1>3, CallTable DEF TypeOK
  <2>2. Current(m) \in {DeployOrPatchService, CreatePersistentVolumeClaim, CreateOrUpdateConfigMap}
          => Answer(Current(m), Subject(m)) \in {"ok", "invalid"}
    BY DEF Answer, Allowed, Conflict, DeployOrPatchService, CreatePersistentVolumeClaim,
       CreateOrUpdateConfigMap
  <2> QED BY <1>3, <2>1, <2>2 DEF CreateMiddleware, CreateIngressRoute
<1> QED BY <1>1, <1>2, <1>3

\* A call of destroyPod that is refused has found its object missing.
LEMMA DeleteAnswered ==
  ASSUME TypeOK, NEW m \in Mains, AtCall(m), call[m].op = "destroy", call[m].stage = 0,
         Answer(Current(m), Subject(m)) # "ok"
  PROVE  ~Has(m, destroyPod[call[m].step].kind)
<1>1. m \in Inst /\ Running(m) /\ Subject(m) = m
  BY SubjectOf DEF Inst, AtCall, TypeOK
<1>2. Script(m) = destroyPod
  BY DEF Script
<1>3. Len(destroyPod) = 4
  BY DEF destroyPod
<1>4. Current(m) = destroyPod[call[m].step] /\ call[m].step \in 1..4
  BY <1>1, <1>2, <1>3 DEF AtCall, Current, TypeOK, ControlTypeOK, Calls
<1>5. Current(m).kind \in PodKinds /\ Current(m).verb \in {"delete", "discard"}
  BY <1>4, PodScripts
<1>6. Allowed(Current(m), m)
  BY <1>5 DEF Allowed, PodKinds
<1>7. ~Invalid(Current(m), m)
  BY <1>5 DEF Invalid, DeployOrPatchService, CreatePersistentVolumeClaim, CreateRole,
     CreateReplicaSet
<1>8. Conflict(Current(m), Exists(Current(m), m)) # "ok"
  BY <1>1, <1>6, <1>7 DEF Answer
<1> QED BY <1>4, <1>5, <1>8 DEF Conflict, Exists, Has

\* A refusal half way leaves no more than the account, the role and the binding.
LEMMA VacantFails ==
  ASSUME IInv, NEW m \in Mains, Vacant(m), Fails(m), faults = 0, faults' = 0,
         UNCHANGED <<sidecars, settings>>
  PROVE  state'[m] = "Started" \/ (Remains(m)' /\ Unrefused(m)')
<1> USE DEF IInv
<1>1. /\ m \in Inst /\ Len(sidecars[m]) \in Nat /\ PodStage(m) \in Nat \ {0}
      /\ call[m].stage \in Nat /\ call[m].step \in Nat \ {0}
      /\ call[m].op \in {"idle", "start", "stop", "destroy"}
  BY SubjectType DEF Inst, TypeOK, PodStage, ControlTypeOK, Calls, Ops
<1>2. /\ AtCall(m) /\ Running(m) /\ UNCHANGED <<state, objs>>
      /\ Answer(Current(m), Subject(m)) # "ok"
      /\ m \in refused => m \in refused'
      /\ Script(m) = deployPod /\ Answer(Current(m), Subject(m)) = "invalid" => m \in refused'
  BY DEF Fails, cluster, AtCall
<1>3. \A k : Has(m, k)' <=> Has(m, k)
  BY <1>2 DEF Has
<1>4. Remains(m) => Remains(m)'
  BY <1>3 DEF Remains
<1>5. Unrefused(m) => Unrefused(m)'
  BY <1>2, <1>3 DEF Unrefused
<1>6. CASE call[m].op = "start"
  <2>1. CASE ~Past(m, "start", PodStage(m), 1)
    BY <1>4, <1>5, <1>6, <2>1 DEF Vacant
  <2>2. CASE Past(m, "start", PodStage(m), 1)
    <3>1. call[m].stage = PodStage(m) /\ call[m].stage > Len(sidecars[m]) /\ call[m].step # 1
      BY <1>1, <1>6, <2>2 DEF Vacant, Past, PodStage
    <3>2. call[m].step \in 1..4 /\ ~Past(m, "start", PodStage(m), 4)
      BY <1>1, <1>2, <1>6, <3>1, PodCalls DEF Past
    <3>3. Script(m) = deployPod
      BY <1>1, <1>6, <3>1 DEF Script
    <3>4. Answer(Current(m), Subject(m)) = "invalid"
      BY <1>1, <1>2, <1>6, <3>1, CreateAnswered
    <3>5. Unrefused(m)'
      BY <1>2, <3>3, <3>4 DEF Unrefused
    <3>6. ~Has(m, "ReplicaSet")
      <4>1. 4 \in 2..4 /\ deployPod[4].kind = "ReplicaSet"
        BY PodScripts
      <4> QED BY <1>6, <2>2, <3>2, <4>1 DEF Vacant
    <3>7. Has(m, "ServiceAccount")
      BY <2>2 DEF AuthInv, Authorized, PodStage
    <3>8. Has(m, "RoleBinding") => Has(m, "Role")
      <4> SUFFICES ASSUME Has(m, "RoleBinding") PROVE Has(m, "Role")
        OBVIOUS
      <4>1. 3 \in 2..4 /\ deployPod[3].kind = "RoleBinding"
        BY PodScripts
      <4>2. Past(m, "start", PodStage(m), 3)
        BY <1>6, <2>2, <4>1 DEF Vacant
      <4>3. Past(m, "start", PodStage(m), 2)
        BY <1>1, <4>2 DEF Past
      <4>4. rules[m]
        BY <1>1 DEF ResourceInv, AskedFor
      <4> QED BY <4>3, <4>4 DEF AuthInv, Authorized, PodStage
    <3>9. Remains(m)
      BY <3>6, <3>7, <3>8 DEF Remains
    <3> QED BY <1>4, <3>5, <3>9
  <2> QED BY <2>1, <2>2
<1>7. CASE call[m].op = "stop"
  BY <1>1, <1>2, <1>7 DEF HandlerInv
<1>8. CASE call[m].op = "destroy" /\ state[m] # "Started"
  <2>1. Unrefused(m) /\ ~Has(m, "ReplicaSet")
    BY <1>8 DEF Vacant
  <2>2. CASE ~Past(m, "destroy", 0, 2)
    BY <1>4, <1>5, <1>8, <2>1, <2>2 DEF Vacant
  <2>3. CASE Past(m, "destroy", 0, 2) /\ ~Past(m, "destroy", 0, 3)
    <3>1. call[m].stage = 0 /\ call[m].step = 3
      BY <1>1, <1>8, <2>3 DEF Past
    <3>2. ~Has(m, "Role")
      BY <1>2, <1>8, <3>1, DeleteAnswered, PodScripts
    <3>3. ~Has(m, "RoleBinding")
      BY <1>8, <2>3, <3>2 DEF Vacant
    <3> QED BY <1>4, <1>5, <2>1, <3>2, <3>3 DEF Remains
  <2>4. CASE Past(m, "destroy", 0, 3)
    <3>1. Past(m, "destroy", 0, 2) /\ ~Has(m, "Role")
      BY <1>1, <2>4 DEF Past, DestroyInv, Cleared
    <3>2. ~Has(m, "RoleBinding")
      <4>1. CASE Past(m, "destroy", 0, 4)
        BY <4>1 DEF DestroyInv, Cleared
      <4>2. CASE ~Past(m, "destroy", 0, 4)
        <5>1. call[m].stage = 0 /\ call[m].step = 4
          BY <1>1, <1>8, <2>4, <4>2 DEF Past
        <5> QED BY <1>2, <1>8, <5>1, DeleteAnswered, PodScripts
      <4> QED BY <4>1, <4>2
    <3> QED BY <1>4, <1>5, <2>1, <3>1, <3>2 DEF Remains
  <2> QED BY <2>2, <2>3, <2>4
<1> QED BY <1>1, <1>2, <1>6, <1>7, <1>8 DEF Running

\* deployPod that gets on by a call.
LEMMA VacantDeploys ==
  ASSUME IInv, NEW m \in Mains, Vacant(m), Advances(m), faults = 0, faults' = 0,
         UNCHANGED <<sidecars, settings>>, call[m].op = "start"
  PROVE  Vacant(m)'
<1> USE DEF IInv
<1> DEFINE c == Current(m)
<1>1. /\ m \in Inst /\ Len(sidecars[m]) \in Nat /\ PodStage(m) \in Nat \ {0}
      /\ call[m].stage \in Nat /\ call[m].step \in Nat \ {0}
  BY SubjectType DEF Inst, TypeOK, PodStage, ControlTypeOK, Calls
<1>2. PodStage(m)' = PodStage(m)
  BY DEF PodStage
<1>3. /\ AtCall(m) /\ UNCHANGED <<state, refused>> /\ Subject(m) \in Inst
      /\ call'[m].op = "start" /\ call'[m].stage = call[m].stage
      /\ call'[m].step = call[m].step + 1
      /\ \/ /\ Needed(c, Subject(m)) /\ Answer(c, Subject(m)) = "ok"
            /\ Effect(c, Subject(m))
         \/ ~Needed(c, Subject(m)) /\ UNCHANGED objs
  BY <1>1, SubjectType DEF Advances, cluster, TypeOK
<1>4. call[m].stage <= PodStage(m)
  BY DEF Vacant
<1>5. \A k \in 1..4 : ~Past(m, "stop", 0, k)'
  BY <1>3 DEF Past
<1>6. Leaves(c)
  BY <1>1, <1>3, CallTable
  DEF TypeOK, Leaves, DeployOrPatchService, CreatePersistentVolumeClaim,
      CreateOrUpdateConfigMap, CreateMiddleware, CreateIngressRoute, CreateServiceAccount,
      CreateRole, CreateRoleBinding, CreateReplicaSet
<1>7. \A k : k # c.kind => (Has(m, k)' <=> Has(m, k))
  BY <1>3 DEF Effect, Has
<1>8. CASE call[m].stage <= Len(sidecars[m])
  <2>1. \A k \in PodKinds : Has(m, k)' <=> Has(m, k)
    BY <1>1, <1>3, <1>6, <1>7, <1>8, PodCalls
  <2>2. ~Past(m, "start", PodStage(m), 1) /\ ~Past(m, "start", PodStage(m), 1)'
    BY <1>1, <1>2, <1>3, <1>8 DEF Past, PodStage
  <2>3. Remains(m)' /\ Unrefused(m)'
    BY <1>3, <2>1, <2>2 DEF Vacant, Remains, Unrefused, PodKinds
  <2> QED BY <1>2, <1>3, <1>4, <1>5, <2>2, <2>3 DEF Vacant
<1>9. CASE call[m].stage > Len(sidecars[m])
  <2>1. /\ Subject(m) = m /\ call[m].step \in 1..4 /\ c = deployPod[call[m].step]
        /\ call[m].stage = PodStage(m)
    BY <1>1, <1>3, <1>4, <1>9, PodCalls DEF PodStage
  <2>2. /\ Past(m, "start", PodStage(m), 1)'
        /\ \A k \in 2..4 : ~Past(m, "start", PodStage(m), k)' =>
             k # call[m].step /\ ~Past(m, "start", PodStage(m), k)
    BY <1>1, <1>2, <1>3, <2>1 DEF Past
  <2>3. ASSUME NEW k \in 2..4, ~Past(m, "start", PodStage(m), k)'
        PROVE  ~Has(m, deployPod[k].kind)'
    <3>1. k \in 1..4 /\ deployPod[k].kind # c.kind
      BY <2>1, <2>2, <2>3, PodScripts
    <3>2. CASE call[m].step = 1
      <4>1. c = CreateServiceAccount
        BY <2>1, <3>2 DEF deployPod
      <4>2. Needed(c, m)
        BY <4>1 DEF Needed, CreateServiceAccount, DeployOrPatchService, DeleteService
      <4>3. ~Has(m, "ServiceAccount")
        BY <1>3, <2>1, <4>1, <4>2 DEF Answer, Conflict, Exists, Has, CreateServiceAccount
      <4>4. ~Past(m, "start", PodStage(m), 1)
        BY <1>1, <2>1, <3>2 DEF Past
      <4>5. Remains(m)
        BY <4>4 DEF Vacant
      <4>6. deployPod[k].kind \in {"Role", "RoleBinding", "ReplicaSet"}
        BY PodScripts
      <4> QED BY <1>7, <3>1, <4>3, <4>5, <4>6 DEF Remains
    <3>3. CASE call[m].step # 1
      <4>1. Past(m, "start", PodStage(m), 1)
        BY <1>1, <2>1, <3>3 DEF Past
      <4>2. ~Has(m, deployPod[k].kind)
        BY <2>2, <2>3, <4>1 DEF Vacant
      <4> QED BY <1>7, <3>1, <4>2
    <3> QED BY <3>2, <3>3
  <2> QED BY <1>2, <1>3, <1>4, <1>5, <2>2, <2>3 DEF Vacant
<1> QED BY <1>1, <1>8, <1>9

\* destroyPod that gets on by a call.
LEMMA VacantRemoves ==
  ASSUME IInv, NEW m \in Mains, Vacant(m), Own(m), Advances(m), faults = 0, faults' = 0,
         call[m].op # "start"
  PROVE  Vacant(m)'
<1> USE DEF IInv
<1> DEFINE c == Current(m)
<1>1. /\ m \in Inst /\ Len(sidecars[m]) \in Nat
      /\ call[m].stage \in Nat /\ call[m].step \in Nat \ {0}
      /\ call[m].op \in {"idle", "start", "stop", "destroy"}
  BY SubjectType DEF Inst, TypeOK, ControlTypeOK, Calls, Ops
<1>2. /\ AtCall(m) /\ Running(m) /\ UNCHANGED <<state, refused>> /\ Subject(m) \in Inst
      /\ call'[m].op = call[m].op /\ call'[m].stage = call[m].stage
      /\ call'[m].step = call[m].step + 1
      /\ \/ Needed(c, Subject(m)) /\ Effect(c, Subject(m))
         \/ ~Needed(c, Subject(m)) /\ UNCHANGED objs
  BY <1>1, SubjectType DEF Advances, cluster, TypeOK, AtCall
<1>3. ~Leaves(c)
  BY <1>2, PodCalls
<1>4. /\ \A k : Has(m, k)' => Has(m, k)
      /\ \A k : k # c.kind => (Has(m, k)' <=> Has(m, k))
  BY <1>2, <1>3 DEF Effect, Has
<1>5. ASSUME NEW k \in 1..4, Past(m, "stop", 0, k)' PROVE ~Has(m, destroyPod[k].kind)'
  <2>1. CASE Past(m, "stop", 0, k)
    BY <1>4, <2>1 DEF Vacant
  <2>2. CASE call[m].op = "stop" /\ call[m].stage = 0 /\ call[m].step = k
    <3>1. Subject(m) = m /\ c = destroyPod[k]
      BY <1>2, <2>2, PodCalls
    <3>2. c.kind \in PodKinds
      BY <3>1, PodScripts
    <3>3. CASE Effect(c, m)
      BY <1>3, <3>1, <3>3 DEF Effect, Has
    <3>4. CASE ~Needed(c, m) /\ UNCHANGED objs
      <4>1. c.kind \in {"Role", "RoleBinding"} /\ ~rules[m]
        BY <3>2, <3>4 DEF Needed, PodKinds, DeployOrPatchService, DeleteService
      <4>2. ~Has(m, c.kind)
        BY <1>1, <4>1 DEF ResourceInv, AskedFor
      <4> QED BY <1>4, <3>1, <4>2
    <3> QED BY <1>2, <3>1, <3>3, <3>4
  <2>3. k <= 3 \/ ~("stop" = "start" /\ 0 = 0)
    OBVIOUS
  <2> QED BY <1>5, <2>1, <2>2, <2>3, PastFrom
<1>6. ASSUME state[m] # "Started"
      PROVE  /\ ~Has(m, "ReplicaSet")' /\ Unrefused(m)'
             /\ ~Past(m, "destroy", 0, 2)' => Remains(m)'
             /\ ~Past(m, "destroy", 0, 3)' => (Has(m, "RoleBinding")' => Has(m, "Role")')
  <2>1. ~Has(m, "ReplicaSet")' /\ Unrefused(m)'
    BY <1>2, <1>4, <1>6 DEF Vacant, Unrefused
  <2>2. call[m].op = "destroy"
    BY <1>1, <1>2, <1>6 DEF HandlerInv, Running
  <2>3. ASSUME ~Past(m, "destroy", 0, 2)' PROVE Remains(m)'
    <3>1. ~Past(m, "destroy", 0, 2) /\ call[m].stage = 0 /\ call[m].step = 1
      BY <1>1, <1>2, <2>2, <2>3 DEF Past
    <3>2. c = DeleteReplicaSet
      BY <1>1, <1>2, <2>2, <3>1, CallTable DEF TypeOK
    <3>3. c.kind = "ReplicaSet"
      BY <3>2 DEF DeleteReplicaSet
    <3> QED BY <1>4, <1>6, <2>1, <2>2, <3>1, <3>3 DEF Vacant, Remains
  <2>4. ASSUME ~Past(m, "destroy", 0, 3)', Has(m, "RoleBinding")' PROVE Has(m, "Role")'
    <3>1. ~Past(m, "destroy", 0, 3) /\ call[m].stage = 0 /\ call[m].step \in {1, 2}
      BY <1>1, <1>2, <2>2, <2>4 DEF Past
    <3>2. c = DeleteReplicaSet \/ c = DeleteServiceAccount
      BY <1>1, <1>2, <2>2, <3>1, CallTable DEF TypeOK
    <3>3. c.kind \in {"ReplicaSet", "ServiceAccount"}
      BY <3>2 DEF DeleteReplicaSet, DeleteServiceAccount
    <3> QED BY <1>4, <1>6, <2>2, <2>4, <3>1, <3>3 DEF Vacant
  <2> QED BY <2>1, <2>3, <2>4
<1> QED BY <1>2, <1>5, <1>6 DEF Vacant

\* One step of m's handler.
LEMMA VacantOwn ==
  ASSUME IInv, NEW m \in Mains, Vacant(m), Own(m), faults = 0, faults' = 0
  PROVE  Vacant(m)'
<1> USE DEF IInv
<1>1. /\ m \in Inst /\ Len(sidecars[m]) \in Nat /\ PodStage(m) \in Nat \ {0}
      /\ call[m].stage \in Nat /\ call[m].step \in Nat \ {0}
      /\ call[m].op \in {"idle", "start", "stop", "destroy"}
  BY SubjectType DEF Inst, TypeOK, PodStage, ControlTypeOK, Calls, Ops
<1>2. PodStage(m)' = PodStage(m)
  BY OwnSettings, SameSettings
<1>3. ASSUME UNCHANGED <<objs, refused>>
      PROVE  /\ \A k : Has(m, k)' <=> Has(m, k)
             /\ Remains(m)' <=> Remains(m)
             /\ Unrefused(m)' <=> Unrefused(m)
  BY <1>3 DEF Has, Remains, Unrefused
<1>4. ASSUME call'[m].op = "idle", state'[m] = "Started" \/ (Remains(m)' /\ Unrefused(m)')
      PROVE  Vacant(m)'
  BY <1>4 DEF Vacant, Past, Remains
<1>5. ASSUME \A k \in PodKinds : ~Has(m, k)' PROVE Remains(m)' /\ Unrefused(m)'
  BY <1>5 DEF Remains, Unrefused, PodKinds
<1>6. CASE Enters(m)
  <2>1. ~Running(m) /\ UNCHANGED <<state, objs, refused>> /\ call'[m].step = 1
    BY <1>6 DEF Enters, cluster
  <2>2. state[m] # "Started" => Remains(m)' /\ Unrefused(m)'
    BY <1>3, <2>1 DEF Vacant, Running, Past
  <2>3. CASE call'[m].op = "start" /\ state[m] \in {"Committed", "Stopped"}
    <3>1. call'[m].stage <= PodStage(m) /\ ~Past(m, "start", PodStage(m), 1)'
      BY <1>1, <1>2, <1>6, <2>1, <2>3 DEF Enters, Past
    <3>2. \A k \in 1..4 : ~Past(m, "stop", 0, k)'
      BY <2>3 DEF Past
    <3> QED BY <1>2, <2>2, <2>3, <3>1, <3>2 DEF Vacant
  <2>4. CASE call'[m].op = "stop" /\ state[m] = "Started" /\ call'[m].stage = 0
    <3>1. \A k \in 1..4 : ~Past(m, "stop", 0, k)'
      BY <2>1, <2>4 DEF Past
    <3> QED BY <2>1, <2>4, <3>1 DEF Vacant
  <2>5. CASE call'[m].op = "destroy"
    BY <2>1, <2>2, <2>5 DEF Vacant, Past, Remains
  <2> QED BY <1>6, <2>3, <2>4, <2>5 DEF Enters
<1>7. CASE GoesOn(m)
  <2>1. /\ UNCHANGED <<state, objs, refused>> /\ Running(m) /\ call[m].stage < LastStage(m)
        /\ call'[m].op = call[m].op /\ call'[m].stage = call[m].stage + 1 /\ call'[m].step = 1
    BY <1>7 DEF GoesOn, cluster
  <2>2. call[m].op # "stop"
    BY <1>1, <2>1 DEF HandlerInv, LastStage
  <2>3. CASE call[m].op = "start"
    <3>1. call[m].stage < PodStage(m) /\ call'[m].stage <= PodStage(m)
      BY <1>1, <2>1, <2>3 DEF LastStage, PodStage
    <3>2. ~Past(m, "start", PodStage(m), 1) /\ ~Past(m, "start", PodStage(m), 1)'
      BY <1>1, <1>2, <2>1, <3>1 DEF Past
    <3>3. \A k \in 1..4 : ~Past(m, "stop", 0, k)'
      BY <2>1, <2>3 DEF Past
    <3> QED BY <1>2, <1>3, <2>1, <2>3, <3>1, <3>2, <3>3 DEF Vacant
  <2>4. CASE call[m].op = "destroy"
    <3>1. Past(m, "destroy", 0, 2)' /\ Past(m, "destroy", 0, 3)'
      BY <1>1, <2>1, <2>4 DEF Past
    <3>2. \A k \in 1..4 : ~Past(m, "stop", 0, k)'
      BY <2>1, <2>4 DEF Past
    <3> QED BY <1>3, <2>1, <2>4, <3>1, <3>2 DEF Vacant
  <2> QED BY <1>1, <2>1, <2>2, <2>3, <2>4 DEF Running
<1>8. CASE Returns(m)
  <2>1. /\ UNCHANGED <<objs, refused>> /\ call'[m].op = "idle"
        /\ state'[m] = Outcome(call[m].op)
        /\ call[m].stage = LastStage(m) /\ call[m].op \in {"start", "stop", "destroy"}
        /\ call[m].op # "start" => call[m].step > 4
    BY <1>1, <1>8, ScriptEnd DEF Returns, cluster, Idle, TypeOK
  <2>2. CASE call[m].op = "start"
    BY <1>4, <2>1, <2>2 DEF Outcome
  <2>3. CASE call[m].op = "stop"
    <3>1. \A k \in 1..4 : Past(m, "stop", 0, k)
      BY <1>1, <2>1, <2>3 DEF Past, LastStage
    <3>2. \A k \in PodKinds : ~Has(m, k)
      BY <3>1, PodScripts DEF Vacant
    <3> QED BY <1>3, <1>4, <1>5, <2>1, <3>2
  <2>4. CASE call[m].op = "destroy"
    <3>1. Past(m, "destroy", 0, 1) /\ Past(m, "destroy", 0, 2) /\ Past(m, "destroy", 0, 3)
          /\ Past(m, "destroy", 0, 4)
      BY <1>1, <2>1, <2>4 DEF Past, LastStage
    <3>2. \A k \in PodKinds : ~Has(m, k)
      BY <3>1 DEF DestroyInv, Cleared, PodKinds
    <3> QED BY <1>3, <1>4, <1>5, <2>1, <3>2
  <2> QED BY <2>1, <2>2, <2>3, <2>4
<1>9. CASE Fails(m)
  <2>1. call'[m].op = "idle" /\ UNCHANGED <<sidecars, settings>>
    BY <1>9 DEF Fails, Idle, Own
  <2> QED BY <1>4, <1>9, <2>1, VacantFails
<1>10. CASE Advances(m)
  <2>1. UNCHANGED <<sidecars, settings>>
    BY DEF Own
  <2> QED BY <1>10, <2>1, VacantDeploys, VacantRemoves
<1> QED BY <1>6, <1>7, <1>8, <1>9, <1>10 DEF Own

\* As long as no call fails on its way, Stop and Destroy leave nothing of a pod that was
\* not refused, and a start meets the proxy's objects or the account of a refused one.
LEMMA VacancyStep ==
  ASSUME IInv, VacancyInv, [Next]_vars
  PROVE  VacancyInv'
<1> SUFFICES ASSUME faults' = 0, NEW m \in Mains PROVE Vacant(m)' /\ Explained(m)'
  BY DEF VacancyInv
<1> USE DEF IInv
<1>1. faults = 0
  BY FaultsGrow
<1>2. Vacant(m) /\ Explained(m) /\ m \in Inst /\ m \in Family(m)
  BY <1>1 DEF VacancyInv, Inst, Family
<1>3. CASE Elsewhere(m)
  <2>1. \A x \in PodKinds : Has(m, x)' <=> Has(m, x)
    BY <1>2, <1>3 DEF Elsewhere
  <2>2. call'[m] = call[m] /\ (state[m] = "Started" => state'[m] = "Started")
    BY <1>3 DEF Elsewhere
  <2>3. Running(m) => PodStage(m)' = PodStage(m)
    BY <1>3 DEF Elsewhere, PodStage
  <2>4. call[m].op = "start" =>
          \A k \in 1..4 : Past(m, "start", PodStage(m), k)' <=> Past(m, "start", PodStage(m), k)
    BY <2>2, <2>3 DEF Past, Running
  <2>5. \A k \in 1..4 : /\ Past(m, "stop", 0, k)' <=> Past(m, "stop", 0, k)
                        /\ Past(m, "destroy", 0, k)' <=> Past(m, "destroy", 0, k)
    BY <2>2 DEF Past
  <2>6. (Remains(m)' <=> Remains(m)) /\ (Unrefused(m)' <=> Unrefused(m))
    BY <1>3, <2>1 DEF Remains, Unrefused, PodKinds, Elsewhere
  <2>7. Vacant(m)'
    <3>1. state'[m] # "Started" /\ call'[m].op # "start" =>
            /\ ~Has(m, "ReplicaSet")' /\ Unrefused(m)'
            /\ ~Past(m, "destroy", 0, 2)' => Remains(m)'
            /\ ~Past(m, "destroy", 0, 3)' => (Has(m, "RoleBinding")' => Has(m, "Role")')
      BY <1>2, <2>1, <2>2, <2>5, <2>6 DEF Vacant, PodKinds
    <3>2. call'[m].op = "start" =>
            /\ call'[m].stage <= PodStage(m)'
            /\ ~Past(m, "start", PodStage(m), 1)' => Remains(m)' /\ Unrefused(m)'
            /\ Past(m, "start", PodStage(m), 1)' =>
                 \A k \in 2..4 : ~Past(m, "start", PodStage(m), k)' => ~Has(m, deployPod[k].kind)'
      <4> SUFFICES ASSUME call'[m].op = "start"
                   PROVE  /\ call'[m].stage <= PodStage(m)'
                          /\ ~Past(m, "start", PodStage(m), 1)' => Remains(m)' /\ Unrefused(m)'
                          /\ Past(m, "start", PodStage(m), 1)' =>
                               \A k \in 2..4 : ~Past(m, "start", PodStage(m), k)' =>
                                 ~Has(m, deployPod[k].kind)'
        OBVIOUS
      <4>1. call[m].op = "start" /\ PodStage(m)' = PodStage(m)
        BY <2>2, <2>3 DEF Running
      <4>2. \A k \in 2..4 : k \in 1..4 /\ (Has(m, deployPod[k].kind)' <=> Has(m, deployPod[k].kind))
        BY <2>1, PodScripts
      <4>3. Past(m, "start", PodStage(m), 1)' <=> Past(m, "start", PodStage(m), 1)
        BY <2>4, <4>1
      <4> QED BY <1>2, <2>2, <2>4, <2>6, <4>1, <4>2, <4>3 DEF Vacant
    <3>3. \A k \in 1..4 : Past(m, "stop", 0, k)' => ~Has(m, destroyPod[k].kind)'
      BY <1>2, <2>1, <2>5, PodScripts DEF Vacant
    <3> QED BY <3>1, <3>2, <3>3 DEF Vacant
  <2>8. /\ result'[m] \in {result[m], Ok} /\ Family(m) \subseteq Family(m)'
        /\ m \in refused => m \in refused'
    BY <1>3 DEF Elsewhere, Family
  <2>9. Explained(m)'
    BY <1>2, <2>8 DEF Explained, Ok
  <2> QED BY <2>7, <2>9
<1>4. CASE Own(m)
  <2>1. Vacant(m)'
    BY <1>1, <1>2, <1>4, VacantOwn
  <2>2. Family(m)' = Family(m)
    BY <1>4, OwnSettings, SameSettings
  <2>3. m \in refused => m \in refused'
    BY <1>1, <1>4 DEF Own, Enters, Advances, Fails, GoesOn, Returns
  <2>4. CASE result'[m] = result[m]
    BY <1>2, <2>1, <2>2, <2>3, <2>4 DEF Explained
  <2>5. CASE Enters(m)
    BY <2>1, <2>5 DEF Enters, Ok, Explained
  <2>6. CASE Fails(m)
    <3>1. /\ AtCall(m) /\ Running(m) /\ Needed(Current(m), Subject(m))
          /\ result'[m] = Failure(call[m].op, Answer(Current(m), Subject(m)), Current(m).kind)
      BY <1>1, <2>6 DEF Fails, AtCall
    <3> SUFFICES ASSUME call[m].op = "start", Answer(Current(m), Subject(m)) \in {"exists", "state"}
                 PROVE  \/ /\ Current(m).kind \in {"Middleware", "IngressRoute"}
                           /\ Family(m) \cap Shapers # {}
                        \/ /\ Answer(Current(m), Subject(m)) = "exists"
                           /\ Current(m).kind = "ServiceAccount" /\ m \in refused
      BY <2>1, <2>2, <2>3, <3>1 DEF Failure, Explained
    <3>2. Subject(m) \in Family(m)
      BY <1>2, <3>1, SubjectOf DEF Family, TypeOK
    <3>3. Current(m).kind \in {"Middleware", "IngressRoute"} => Subject(m) \in Shapers
      BY <3>1 DEF Needed
    <3> QED BY <1>2, <3>1, <3>2, <3>3, CreateAnswered
  <2> QED BY <1>4, <2>1, <2>4, <2>5, <2>6 DEF Own, Advances, GoesOn, Returns
<1> QED BY <1>3, <1>4, ElsewhereStep

\* The invariant holds in every reachable state.
LEMMA VacancyHolds == Spec => []VacancyInv
<1>1. Init => VacancyInv
  <2> SUFFICES ASSUME Init, NEW m \in Mains PROVE Vacant(m) /\ Explained(m)
    BY DEF VacancyInv
  <2>1. call[m] = Idle /\ result[m] = Ok /\ objs = {}
    BY DEF Init, Inst
  <2> QED BY <2>1 DEF Vacant, Remains, Unrefused, Explained, Past, Has, Idle, Ok
<1>2. IInv /\ VacancyInv /\ [Next]_vars => VacancyInv'
  BY VacancyStep
<1> QED BY <1>1, <1>2, IInvHolds, PTL DEF Spec

\* Stop, deployPod: as long as no call has failed on its way, no replica set is left of a
\* stopped instance, and no service account, role or binding either, unless deployPod was
\* refused half way, so that Start can create them.
THEOREM StoppedIsClean == Spec => []StoppedHasNoPod
<1>1. TypeOK /\ VacancyInv => StoppedHasNoPod
  <2> SUFFICES ASSUME TypeOK, VacancyInv, NEW m \in Mains,
                      state[m] = "Stopped", call[m] = Idle, faults = 0
               PROVE  Owned(m, PodKinds) = {} \/ (m \in refused /\ ~Has(m, "ReplicaSet"))
    BY DEF StoppedHasNoPod
  <2>1. ~Has(m, "ReplicaSet") /\ Unrefused(m)
    BY DEF VacancyInv, Vacant, Idle
  <2>2. ASSUME m \notin refused, NEW o \in Owned(m, PodKinds) PROVE FALSE
    <3>1. o \in objs /\ o[1] \in PodKinds /\ o = <<o[1], m>>
      BY DEF Owned, TypeOK, ClusterTypeOK, Objects
    <3> QED BY <2>1, <2>2, <3>1 DEF Has, Unrefused
  <2> QED BY <2>1, <2>2
<1> QED BY <1>1, TypeCorrect, VacancyHolds, PTL

\* deployResources, deployPod: without failed calls a start is never refused because of an
\* object of an earlier one, the proxy's objects and the account of a start that was itself
\* refused half way excepted; and never because of a role, a binding or a pod.
THEOREM StartsMeetNoLeftovers == Spec => []NoLeftovers
<1>1. VacancyInv => NoLeftovers
  BY DEF VacancyInv, Explained, NoLeftovers
<1> QED BY <1>1, VacancyHolds, PTL

\* StartAsync after Stop or after an image upgrade: an instance without a NetShaper starts
\* again, unless one of its starts was refused half way; no object exists already and no
\* sidecar is in a state that PreStart refuses.
THEOREM RestartsSucceed == Spec => []RestartsWork
<1>1. IInv /\ VacancyInv => RestartsWork
  <2> SUFFICES ASSUME IInv, VacancyInv, ~(faults > 0), NEW m \in Mains,
                      result[m].op = "start", result[m].err \in {"exists", "state"}
               PROVE  m \in refused \/ Family(m) \cap Shapers # {}
    BY DEF RestartsWork
  <2>1. faults = 0
    BY BoundAssumption DEF IInv, TypeOK, ClusterTypeOK
  <2> QED BY <2>1 DEF VacancyInv, Explained
<1> QED BY <1>1, VacancyHolds, IInvHolds, PTL

-----------------------------------------------------------------------------
(* A start of a committed instance deploys all that its pod refers to *)

\* A call of a start keeps what is deployed, and deploys what it is about.
LEMMA StartKeeps ==
  ASSUME TypeOK, NEW m \in Mains, AtCall(m), call[m].op = "start",
         UNCHANGED <<sidecars, settings>>,
         UNCHANGED cluster \/ Effect(Current(m), Subject(m)), NEW x \in Family(m)
  PROVE  /\ ClaimDeployed(x) => ClaimDeployed(x)'
         /\ FilesDeployed(x) => FilesDeployed(x)'
         /\ ServiceDeployed(m) => ServiceDeployed(m)'
<1>1. /\ m \in Inst /\ x \in Inst /\ Running(m) /\ Subject(m) \in Inst
  BY AttachedType, SubjectType DEF Inst, Family, TypeOK, AtCall
<1>2. FamilyPorts(m)' = FamilyPorts(m) /\ volume'[x] = volume[x] /\ files'[x] = files[x]
  BY DEF settings, FamilyPorts, Family, Attached
<1>3. CASE UNCHANGED cluster
  BY <1>2, <1>3 DEF cluster, ClaimDeployed, FilesDeployed, ServiceDeployed, Has
<1>4. CASE Effect(Current(m), Subject(m))
  <2>1. /\ Leaves(Current(m))
        /\ Current(m).kind = "ConfigMap" => Current(m) = CreateOrUpdateConfigMap
        /\ Current(m).kind = "Service" => Current(m) = DeployOrPatchService
    BY <1>1, CallTable
    DEF TypeOK, Leaves, DeployOrPatchService, CreatePersistentVolumeClaim,
        CreateOrUpdateConfigMap, CreateMiddleware, CreateIngressRoute, CreateServiceAccount,
        CreateRole, CreateRoleBinding, CreateReplicaSet
  <2>2. \A k : Has(x, k) => Has(x, k)'
    BY <1>4, <2>1 DEF Effect, Has
  <2>3. \A k : Has(m, k) => Has(m, k)'
    BY <1>4, <2>1 DEF Effect, Has
  <2>4. mounted[x] = files[x] => mounted'[x] = files[x]
    <3>1. CASE x = Subject(m) /\ Current(m).kind = "ConfigMap"
      BY <1>1, <1>4, <2>1, <3>1
      DEF Effect, Write, Writes, CreateOrUpdateConfigMap, TypeOK, ClusterTypeOK
    <3>2. CASE x # Subject(m) \/ Current(m).kind # "ConfigMap"
      BY <1>1, <1>4, <3>2, EffectFrame
    <3> QED BY <3>1, <3>2
  <2>5. exposed[m] = FamilyPorts(m) => exposed'[m] = FamilyPorts(m)
    <3>1. CASE m = Subject(m) /\ Current(m).kind = "Service"
      BY <1>1, <1>4, <2>1, <3>1
      DEF Effect, Write, Writes, DeployOrPatchService, TypeOK, ClusterTypeOK
    <3>2. CASE m # Subject(m) \/ Current(m).kind # "Service"
      BY <1>1, <1>4, <3>2, EffectFrame
    <3> QED BY <3>1, <3>2
  <2> QED BY <1>2, <2>2, <2>3, <2>4, <2>5 DEF ClaimDeployed, FilesDeployed, ServiceDeployed
<1> QED BY <1>3, <1>4

\* A start that gets past a call of deployResources has deployed its object, or needs none.
LEMMA StartDeploys ==
  ASSUME TypeOK, NEW m \in Mains, Advances(m), UNCHANGED <<sidecars, settings>>, NEW x \in Inst,
         x = Subject(m)
  PROVE  /\ Current(m) = CreatePersistentVolumeClaim => ClaimDeployed(x)'
         /\ Current(m) = CreateOrUpdateConfigMap => FilesDeployed(x)'
         /\ Current(m) = DeployOrPatchService /\ x = m => ServiceDeployed(m)'
<1> USE DEF CreatePersistentVolumeClaim, CreateOrUpdateConfigMap, DeployOrPatchService
<1>1. FamilyPorts(m)' = FamilyPorts(m) /\ volume'[x] = volume[x] /\ files'[x] = files[x]
  BY DEF settings, FamilyPorts, Family, Attached
<1>2. CASE Current(m).verb # "restore" /\ ~Needed(Current(m), x)
  <2>1. /\ Current(m) = CreatePersistentVolumeClaim => ~volume[x]
        /\ Current(m) = CreateOrUpdateConfigMap => ~(files[x] > 0)
        /\ Current(m) = DeployOrPatchService => FamilyPorts(x) = {}
    BY <1>2 DEF Needed, DeleteService
  <2> QED BY <1>1, <2>1 DEF ClaimDeployed, FilesDeployed, ServiceDeployed
<1>3. CASE Effect(Current(m), x)
  <2>1. Current(m) = CreatePersistentVolumeClaim => Has(x, "PersistentVolumeClaim")'
    BY <1>3 DEF Effect, Has, Leaves
  <2>2. Current(m) = CreateOrUpdateConfigMap => Has(x, "ConfigMap")' /\ mounted'[x] = files[x]
    BY <1>3 DEF Effect, Has, Leaves, Write, Writes, TypeOK, ClusterTypeOK
  <2>3. Current(m) = DeployOrPatchService => Has(x, "Service")' /\ exposed'[x] = FamilyPorts(x)
    BY <1>3 DEF Effect, Has, Leaves, Write, Writes, TypeOK, ClusterTypeOK
  <2> QED BY <1>1, <2>1, <2>2, <2>3 DEF ClaimDeployed, FilesDeployed, ServiceDeployed
<1> QED BY <1>2, <1>3 DEF Advances

\* One step of m's handler.
LEMMA DeployedOwn ==
  ASSUME IInv, NEW m \in Mains, Deployed(m), Own(m)
  PROVE  Deployed(m)'
<1> USE DEF IInv
<1> SUFFICES ASSUME call'[m].op = "start", state'[m] = "Committed"
             PROVE  Deployed(m)'
  BY DEF Deployed
<1>1. /\ m \in Inst /\ m \in Family(m) /\ Len(sidecars[m]) \in Nat
      /\ call[m].stage \in Nat /\ call[m].step \in Nat
      /\ \A q \in 1..Len(sidecars[m]) : sidecars[m][q] \in Inst /\ sidecars[m][q] \in Family(m)
      /\ UNCHANGED <<sidecars, settings>>
  BY SubjectType DEF Inst, TypeOK, ControlTypeOK, Calls, Family, Attached, Own
<1>2. CASE Enters(m)
  <2>1. call'[m].stage = 0 /\ call'[m].step = 1
    BY <1>2 DEF Enters
  <2>2. \A g \in Nat, k \in 1..4 : ~Past(m, "start", g, k)'
    BY <2>1 DEF Past
  <2> QED BY <1>1, <2>2 DEF Deployed
<1>3. CASE Advances(m) \/ GoesOn(m)
  <2>1. /\ state[m] = "Committed" /\ call[m].op = "start" /\ Running(m) /\ ~Enters(m)
    BY <1>3 DEF Advances, GoesOn, Running, Enters
  <2>2. ASSUME NEW x \in Family(m)
        PROVE  /\ ClaimDeployed(x) => ClaimDeployed(x)'
               /\ FilesDeployed(x) => FilesDeployed(x)'
               /\ ServiceDeployed(m) => ServiceDeployed(m)'
    <3>1. CASE GoesOn(m)
      <4>1. UNCHANGED <<objs, mounted, exposed, volume, files>>
        BY <1>1, <3>1 DEF GoesOn, cluster, settings
      <4>2. FamilyPorts(m)' = FamilyPorts(m)
        BY <1>1 DEF settings, FamilyPorts, Family, Attached
      <4> QED BY <4>1, <4>2 DEF ClaimDeployed, FilesDeployed, ServiceDeployed, Has
    <3>2. CASE Advances(m)
      BY <1>1, <2>1, <3>2, StartKeeps DEF Advances
    <3> QED BY <1>3, <3>1, <3>2
  <2>3. ASSUME NEW g \in Nat, NEW k \in 1..4, k <= 3 \/ g # 0, Past(m, "start", g, k)',
               ~Past(m, "start", g, k)
        PROVE  Advances(m) /\ AtCall(m) /\ call[m].stage = g /\ call[m].step = k
    BY <2>1, <2>3, PastFrom DEF Advances
  <2>4. Past(m, "start", 0, 1)' => ServiceDeployed(m)'
    <3>1. CASE Past(m, "start", 0, 1)
      BY <1>1, <2>1, <2>2, <3>1 DEF Deployed
    <3>2. CASE Advances(m) /\ AtCall(m) /\ call[m].stage = 0 /\ call[m].step = 1
      <4>1. Current(m) = DeployOrPatchService /\ Subject(m) = m
        BY <1>1, <2>1, <3>2, CallTable, SubjectOf DEF TypeOK
      <4> QED BY <1>1, <3>2, <4>1, StartDeploys
    <3> QED BY <2>3, <3>1, <3>2
  <2>5. Past(m, "start", 0, 2)' => ClaimDeployed(m)'
    <3>1. CASE Past(m, "start", 0, 2)
      BY <1>1, <2>1, <2>2, <3>1 DEF Deployed
    <3>2. CASE Advances(m) /\ AtCall(m) /\ call[m].stage = 0 /\ call[m].step = 2
      <4>1. Current(m) = CreatePersistentVolumeClaim /\ Subject(m) = m
        BY <1>1, <2>1, <3>2, CallTable, SubjectOf DEF TypeOK
      <4> QED BY <1>1, <3>2, <4>1, StartDeploys
    <3> QED BY <2>3, <3>1, <3>2
  <2>6. Past(m, "start", 0, 3)' => FilesDeployed(m)'
    <3>1. CASE Past(m, "start", 0, 3)
      BY <1>1, <2>1, <2>2, <3>1 DEF Deployed
    <3>2. CASE Advances(m) /\ AtCall(m) /\ call[m].stage = 0 /\ call[m].step = 3
      <4>1. Current(m) = CreateOrUpdateConfigMap /\ Subject(m) = m
        BY <1>1, <2>1, <3>2, CallTable, SubjectOf DEF TypeOK
      <4> QED BY <1>1, <3>2, <4>1, StartDeploys
    <3> QED BY <2>3, <3>1, <3>2
  <2>7. ASSUME NEW q \in 1..Len(sidecars[m])
        PROVE  /\ Past(m, "start", q, 3)' => ClaimDeployed(sidecars[m][q])'
               /\ Past(m, "start", q, 4)' => FilesDeployed(sidecars[m][q])'
    <3> DEFINE x == sidecars[m][q]
    <3>1. q \in Nat /\ q # 0 /\ x \in Inst /\ x \in Family(m) /\ sidecars'[m] = sidecars[m]
      BY <1>1
    <3>2. ASSUME AtCall(m), call[m].stage = q
          PROVE  /\ Subject(m) = x
                 /\ call[m].step = 3 => Current(m) = CreatePersistentVolumeClaim
                 /\ call[m].step = 4 => Current(m) = CreateOrUpdateConfigMap
      BY <1>1, <2>1, <3>1, <3>2, CallTable, SubjectOf DEF TypeOK
    <3>3. Past(m, "start", q, 3)' => ClaimDeployed(x)'
      <4>1. CASE Past(m, "start", q, 3)
        <5>1. ClaimDeployed(x)
          BY <2>1, <4>1 DEF Deployed
        <5> QED BY <2>2, <3>1, <5>1 DEF ClaimDeployed
      <4>2. CASE Advances(m) /\ AtCall(m) /\ call[m].stage = q /\ call[m].step = 3
        <5>1. Subject(m) = x /\ Current(m) = CreatePersistentVolumeClaim
          BY <3>2, <4>2
        <5>2. \A y \in Inst : y = Subject(m) => ClaimDeployed(y)'
          BY <1>1, <4>2, <5>1, StartDeploys
        <5> QED BY <3>1, <5>1, <5>2 DEF ClaimDeployed
      <4> QED BY <2>3, <3>1, <4>1, <4>2
    <3>4. Past(m, "start", q, 4)' => FilesDeployed(x)'
      <4>1. CASE Past(m, "start", q, 4)
        <5>1. FilesDeployed(x)
          BY <2>1, <4>1 DEF Deployed
        <5> QED BY <2>2, <3>1, <5>1 DEF FilesDeployed
      <4>2. CASE Advances(m) /\ AtCall(m) /\ call[m].stage = q /\ call[m].step = 4
        <5>1. Subject(m) = x /\ Current(m) = CreateOrUpdateConfigMap
          BY <3>2, <4>2
        <5>2. \A y \in Inst : y = Subject(m) => FilesDeployed(y)'
          BY <1>1, <4>2, <5>1, StartDeploys
        <5> QED BY <3>1, <5>1, <5>2 DEF FilesDeployed
      <4> QED BY <2>3, <3>1, <4>1, <4>2
    <3> QED BY <3>3, <3>4
  <2>8. sidecars'[m] = sidecars[m]
    BY <1>1
  <2> QED BY <2>4, <2>5, <2>6, <2>7, <2>8 DEF Deployed
<1>4. CASE Fails(m) \/ Returns(m)
  BY <1>4 DEF Fails, Returns, Idle
<1> QED BY <1>2, <1>3, <1>4 DEF Own

\* What a start of a committed instance has deployed stays, as no setter gets in between.
LEMMA DeployStep ==
  ASSUME IInv, DeployInv, [Next]_vars
  PROVE  DeployInv'
<1> SUFFICES ASSUME NEW m \in Mains PROVE Deployed(m)'
  BY DEF DeployInv
<1>1. Deployed(m)
  BY DEF DeployInv
<1>2. CASE Elsewhere(m)
  <2> SUFFICES ASSUME call'[m].op = "start", state'[m] = "Committed"
               PROVE  Deployed(m)'
    BY DEF Deployed
  <2>1. call'[m] = call[m] /\ call[m].op = "start" /\ Running(m)
    BY <1>2 DEF Elsewhere, Running
  <2>2. /\ state[m] = "Committed" /\ sidecars'[m] = sidecars[m]
        /\ \A x \in Family(m) : Template(x)' = Template(x)
    BY <1>2, <2>1 DEF Elsewhere
  <2>3. /\ FamilyPorts(m)' = FamilyPorts(m)
        /\ \A x \in Family(m) : volume'[x] = volume[x] /\ files'[x] = files[x]
    BY <2>2, SameSettings
  <2>4. m \in Family(m) /\ \A q \in 1..Len(sidecars[m]) : sidecars[m][q] \in Family(m)
    BY DEF Family, Attached
  <2>5. /\ exposed'[m] = exposed[m]
        /\ \A x \in Family(m), k \in ResourceKinds :
             mounted'[x] = mounted[x] /\ (Has(x, k)' <=> Has(x, k))
    BY <1>2 DEF Elsewhere
  <2>6. \A x \in Family(m) :
          /\ ClaimDeployed(x) => ClaimDeployed(x)'
          /\ FilesDeployed(x) => FilesDeployed(x)'
    BY <2>3, <2>5 DEF ClaimDeployed, FilesDeployed, ResourceKinds
  <2>7. ServiceDeployed(m) => ServiceDeployed(m)'
    BY <2>3, <2>4, <2>5 DEF ServiceDeployed, ResourceKinds
  <2>8. \A g, k : Past(m, "start", g, k)' => Past(m, "start", g, k)
    BY <2>1 DEF Past
  <2>9. ASSUME NEW q \in 1..Len(sidecars[m])
        PROVE  /\ Past(m, "start", q, 3)' => ClaimDeployed(sidecars[m][q])'
               /\ Past(m, "start", q, 4)' => FilesDeployed(sidecars[m][q])'
    <3>1. /\ Past(m, "start", q, 3) => ClaimDeployed(sidecars[m][q])
          /\ Past(m, "start", q, 4) => FilesDeployed(sidecars[m][q])
      BY <1>1, <2>1, <2>2 DEF Deployed
    <3>2. PICK x \in Family(m) : x = sidecars[m][q]
      BY <2>4
    <3>3. /\ Past(m, "start", q, 3)' => ClaimDeployed(x)'
          /\ Past(m, "start", q, 4)' => FilesDeployed(x)'
      BY <2>1, <2>6, <3>1, <3>2 DEF Past
    <3> QED BY <2>2, <3>2, <3>3 DEF ClaimDeployed, FilesDeployed
  <2>10. /\ Past(m, "start", 0, 1)' => ServiceDeployed(m)'
         /\ Past(m, "start", 0, 2)' => ClaimDeployed(m)'
         /\ Past(m, "start", 0, 3)' => FilesDeployed(m)'
    BY <1>1, <2>1, <2>2, <2>4, <2>6, <2>7, <2>8 DEF Deployed
  <2> QED BY <2>2, <2>9, <2>10 DEF Deployed
<1>3. CASE Own(m)
  BY <1>1, <1>3, DeployedOwn
<1> QED BY <1>2, <1>3, ElsewhereStep

\* The return of such a start.
LEMMA StartedIsResolvable ==
  ASSUME IInv, DeployInv, NEW m \in Mains, [Next]_vars,
         state[m] = "Committed", state'[m] = "Started"
  PROVE  Resolvable(m)'
<1> USE DEF IInv
<1>1. /\ m \in Inst /\ Len(sidecars[m]) \in Nat
  BY SubjectType DEF Inst, TypeOK
<1>2. Own(m) /\ Returns(m)
  BY ElsewhereStep DEF Elsewhere, Own, Enters, Advances, Fails, GoesOn
<1>3. /\ UNCHANGED <<objs, mounted, exposed, volume, files>>
      /\ FamilyPorts(m)' = FamilyPorts(m) /\ Family(m)' = Family(m)
  BY <1>2 DEF Own, Returns, cluster, settings, FamilyPorts, Family, Attached
<1>4. /\ call[m].op = "start" /\ call[m].stage = PodStage(m)
  BY <1>2 DEF Returns, Outcome, LastStage, PodStage
<1>5. \A g \in 0..Len(sidecars[m]), k \in 1..4 : Past(m, "start", g, k)
  BY <1>1, <1>4 DEF Past, PodStage
<1>6. /\ ServiceDeployed(m) /\ ClaimDeployed(m) /\ FilesDeployed(m)
      /\ \A q \in 1..Len(sidecars[m]) :
           ClaimDeployed(sidecars[m][q]) /\ FilesDeployed(sidecars[m][q])
  BY <1>1, <1>4, <1>5 DEF DeployInv, Deployed
<1>7. \A x \in Family(m) : ClaimDeployed(x) /\ FilesDeployed(x)
  BY <1>6 DEF Family, Attached
<1>8. Resolvable(m)
  BY <1>6, <1>7 DEF Resolvable, ClaimDeployed, FilesDeployed, ServiceDeployed
<1> QED BY <1>3, <1>8 DEF Resolvable, Has

\* StartAsync in state Committed: when the instance becomes Started, every volume of the
\* family has its claim, every config map holds all the files, and the service exposes
\* exactly the ports of the family, also after an upgrade and after starts that failed.
THEOREM StartsDeployAll == Spec => StartDeploysAll
<1>1. Init => DeployInv
  <2> SUFFICES ASSUME Init, NEW m \in Mains PROVE Deployed(m)
    BY DEF DeployInv
  <2>1. call[m] = Idle
    BY DEF Init, Inst
  <2> QED BY <2>1 DEF Deployed, Idle
<1>2. IInv /\ DeployInv /\ [Next]_vars => DeployInv'
  BY DeployStep
<1>3. IInv /\ DeployInv /\ [Next]_vars =>
        [\A m \in Mains : state[m] = "Committed" /\ state'[m] = "Started" => Resolvable(m)']_vars
  BY StartedIsResolvable
<1> QED BY <1>1, <1>2, <1>3, IInvHolds, PTL DEF Spec, StartDeploysAll

-----------------------------------------------------------------------------
(* Claims are deleted by Destroy only *)

\* Of all the calls, only the first of destroyResources deletes a claim.
LEMMA ClaimsAreKept ==
  ASSUME IInv, [Next]_vars, NEW i \in Inst,
         Has(i, "PersistentVolumeClaim"), ~Has(i, "PersistentVolumeClaim")'
  PROVE  \E m \in Mains : i \in Family(m) /\ call[m].op = "destroy"
<1> USE DEF IInv
<1>1. objs' # objs
  BY DEF Has
<1>2. ASSUME NEW j \in Inst, Build(j) \/ Configure(j) \/ StartAsync(j) \/ Stop(j) \/ Destroy(j)
      PROVE  FALSE
  BY <1>1, <1>2, SetterFrame DEF cluster, StartAsync, Stop, Destroy, Enter
<1>3. ASSUME NEW j \in Inst, Disable(j) \/ Enable(j) PROVE FALSE
  BY <1>3, NetworkObjs DEF Has
<1>4. ASSUME NEW j \in Inst, Step(j)
      PROVE  \E m \in Mains : i \in Family(m) /\ call[m].op = "destroy"
  <2>1. AtCall(j) /\ Effect(Current(j), Subject(j)) /\ Running(j)
    BY <1>1, <1>4, StepEffect DEF cluster, AtCall
  <2>2. ~Leaves(Current(j)) /\ Current(j).kind = "PersistentVolumeClaim" /\ i = Subject(j)
    BY <2>1 DEF Effect, Has
  <2>3. j \in Mains
    BY <2>1, <2>2, SidecarCalls DEF Inst
  <2>4. call[j].op \in {"stop", "destroy"} /\ call[j].stage > 0
    BY <2>1, <2>2, CallTable
    DEF TypeOK, Leaves, DeployOrPatchService, CreatePersistentVolumeClaim,
        CreateOrUpdateConfigMap, CreateMiddleware, CreateIngressRoute, CreateServiceAccount,
        CreateRole, CreateRoleBinding, CreateReplicaSet, DeleteReplicaSet,
        DeleteServiceAccount, DeleteRole, DeleteRoleBinding
  <2>5. call[j].op = "destroy"
    BY <2>4 DEF HandlerInv
  <2>6. i \in Family(j)
    BY <2>1, <2>2, SubjectOf DEF Family, TypeOK
  <2> QED BY <2>3, <2>5, <2>6
<1> QED BY <1>1, <1>2, <1>3, <1>4 DEF Next, vars, cluster

\* destroyResources: Stop, a failed start, an upgrade or a handler of another family never
\* deletes the claim of an instance's volume; only Destroy of its own family does.
THEOREM DataIsKept == Spec => OnlyDestroyLosesData
<1>1. IInv /\ [Next]_vars =>
        [\A i \in Inst :
           Has(i, "PersistentVolumeClaim") /\ ~Has(i, "PersistentVolumeClaim")' =>
             \E m \in Mains : i \in Family(m) /\ call[m].op = "destroy"]_vars
  BY ClaimsAreKept
<1> QED BY <1>1, IInvHolds, PTL DEF Spec, OnlyDestroyLosesData
=============================================================================
