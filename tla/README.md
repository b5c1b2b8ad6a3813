# A TLA+ model of knuu

knuu is a Go library for integration tests on Kubernetes: a test creates
*instances* (a pod with its service, volume, files, roles and sidecars), starts,
stops, upgrades and destroys them in a namespace of its own, and relies on knuu to
leave nothing behind. What can go wrong is seldom in one function; it is in the
order in which handlers run, and in what is left when one of their API calls
fails. That is what this project models.

## Inventory

| Component | State it keeps | Operations | What is hard |
|---|---|---|---|
| instance life cycle (`pkg/instance/execution.go`, `resources.go`, `state.go`) | the state of the instance; the objects it has in the cluster | `StartAsync`, `Stop`, `Destroy` | 4 to 12 API calls each, none of them transactional, most of them not idempotent; a failed handler leaves the state unchanged and the cluster half changed |
| instance settings (`build.go`, `storage.go`, `network.go`, `security.go`, `monitoring.go`) | image, command, volume, files, ports, rules, probes | some 20 setters, each allowed in some states | a setting accepted in a state in which it is never applied; limits over several calls |
| sidecars (`sidecars.go`, `pkg/sidecars`) | the list of sidecars, a parent pointer | `Add`, `Initialize`, `PreStart`, propagation of states | two sets of states that must agree; hooks that run again on a restart |
| Kubernetes client (`pkg/k8s`) | a `terminated` flag | create, update, delete, look up, wait | what each call does when the object is there already, or not; validators that refuse a call half way through a handler; lookups that swallow errors |
| scope and timeout handler (`pkg/knuu`) | the namespace; a pod that deletes it | `New`, `HandleStopSignal`, `CleanUp` | crashes between two steps, reruns with the same scope, two handlers at once, a script that restarts |
| proxy (`pkg/traefik`, `proxy.go`) | deployment, cluster-scoped roles, routes | `Deploy`, `AddHost` | objects outside of the namespace; objects nobody deletes |
| preloader (`pkg/preloader`) | a list of images, a daemon set | `AddImage`, `RemoveImage`, `EmptyImages`, `Cleanup` | list and daemon set are changed one after the other |
| image builder (`pkg/container`, `pkg/builder`) | Dockerfile instructions, image cache, a Kaniko job | `PushBuilderImage`, `BuildImageFromGitRepo`, `GenerateImageHash` | a cached image that is not the wanted one; a watch against a job that retries |
| object store (`pkg/minio`) | volume, claim, deployment and service; buckets and files; a map of mutexes, made at its first use | `New`, `Push`, `Delete`, `GetURL` | lookups whose errors mean "missing"; reruns on what an earlier run left; concurrent first pushes |
| names and clones (`pkg/system`, `instance.go`, `k8s/utils.go`) | the set of names in use | `New`, `SetName`, `CloneWithName`, `CloneWithSuffix`, `SanitizeName`, and the names of preloaders | check-then-add; names that are never given back; different names that become one; a clone with a state it has not earned; sidecars of clones |
| waiting and commands (`execution.go`, `k8s/replicaset.go`, `k8s/logs.go`) | none | `WaitInstanceIsRunning`, `WaitInstanceIsStopped`, `StartWithCallback`, `ExecuteCommand`, `Logs`, `GetEphemeralIP` | goroutines that look at a pod others change; lookups that return no pod and no error |
| port forwarding (`network.go`, `k8s/pod.go`) | a goroutine per attempt | `PortForwardTCP` | attempts that time out and go on; ports that were free a moment ago |

A test calls the instance; the instance calls the Kubernetes client; sidecars are
instances owned by another one and run in its pod; `New` uses an instance (the
timeout handler) to guard the namespace and calls the proxy.

What makes each correct: a destroyed instance leaves nothing; a started one has all
its pod refers to; a pod is the one the settings describe; only Destroy loses
data; an instance and its sidecars move together; nothing in the namespace is without
a handler that will remove it; a handler that runs gets the namespace deleted;
preloaded is what was asked for; a name belongs to one instance; a callback means that
the instance runs; calls that wait come back; a forwarded port is one's own.
`PROJECT.json` lists the hazards line by line, with
the property that covers each.

## Modules

| Module | Models |
|---|---|
| `K8s` | the calls of the Kubernetes client as records `[verb, kind]`; the verb says what the client and the API server do when the object exists, or does not |
| `Lifecycle` | abstract specification: the states of a family of instances and the moves between them, without a cluster |
| `Instance` | the instance: settings, sidecars, `StartAsync`, `Stop`, `Destroy`, `Disable`, `Enable`, against a cluster of objects |
| `MCInstance` | `Instance` for TLC (symmetry of the ports) |
| `InstanceProofs` | the inductive invariant of `Instance`, part by part, and the theorems that rest on it |
| `Image` | the image of an instance: builder factory, hash, cache, `Commit`, clones, and the Kaniko jobs that build and push |
| `Preloader` | the image preloader |
| `Execution` | what a test does with a running instance: waiting, callbacks, commands, logs, addresses |
| `PortForward` | `PortForwardTCP`: its attempts, their goroutines, the ports of the host |
| `Sanitize` | `SanitizeName` as an operator, and the rule that names must meet |
| `Names` | the registry of names and the clones of instances, used by several goroutines; extends `Sanitize` |
| `Minio` | the object store: its deployment over several runs, its buckets and files |
| `Knuu` | a scope: `New`, the proxy's set-up, signals, `CleanUp`, the timeout handlers' pods, crashes and reruns |
| `KnuuProofs`, `PortForwardProofs`, `MinioProofs`, `ExecutionProofs`, `PreloaderProofs`, `NamesProofs`, `ImageProofs` | the inductive invariants and theorems of the modules they are named after |

### Instance

*State.* `state`, `sidecars` and the settings are fields of the Go structs. A volume
is present or not (the code accepts one), files are counted, ports are a set, and
the other settings are two revision counters: `unguarded` counts what
`SetImagePullPolicy` and `SetInstanceType` do, which look at no state, `rev` what the
others do. A setter increments its counter, a pod records the values it was created with.
`objs` is the set of objects in the cluster, `mounted`, `exposed` and `podSpec` are the
contents of config maps, services and replica sets.

*Refusals.* `flaws[i]` are the kinds of objects that cannot be created as i is set: a
policy rule without verbs, a volume of size zero, a memory request above the limit. A
setter may make its setting invalid, and, where a value is replaced and not appended,
valid again. `Invalid` says which call notices: `CreatePersistentVolumeClaim`, if it
makes the claim at all, `CreateRole` (whose rules are validated before any call is made),
and `CreateReplicaSet`, for a flaw of anyone in the family. Those two come after the service
account was made; `refused` is a history variable, the instances whose `deployPod` has ended
like this. A service whose ports collide is refused too.

*Handlers.* A handler is a list of stages (the instance, each of its sidecars, the
pod), a stage is a script (`deployResources`, `deployPod`, `destroyPod`,
`destroyResources`, ...), a script is a sequence of calls, in the order of the code.
`call[i]` is the position of the handler that runs on `i`. One step of the model is
one call: not needed (`Skip`), successful (`CallOk`), refused by the instance, a validator or
the server (`CallRefused`), or lost with or without its effect (`CallFault`). A refused
or lost call ends the handler and leaves `state` alone, as every `return err` does;
`Return` sets the state of the instance and of all its sidecars. `result[i]` is how the
last operation on i was refused, if it was.

*Concurrency.* An instance and its sidecars are used by one goroutine of the test
(the structs have no locks); the model interleaves families. Within a family other
operations wait until the handler returns (`Free`).

*Bounds.* An instance, a NetShaper and another sidecar, two interchangeable ports, two
files, two edits and one fault. `MaxEdits` bounds the changes of settings and the sidecars
that are added, `MaxFaults` the lost calls; starts, stops, upgrades and retries are
unbounded. One fault reaches every call of every handler, in every state of the cluster
that handlers leave behind. Two edits are two sidecars, a setting and a sidecar, a flaw
and its correction, or two changes of one setting, in any state and at any time; what more
edits or faults do together is left to the theorems, which hold for any bounds. Two ports
are what the observability sidecar exposes, and enough for a collision with its
parent; two files make a config map that is outdated.

### Image

*State.* A factory is its base image, its Dockerfile lines, its arguments and the
temporary directory that is its build context; `builderFactory[i]` is a reference, since
a clone shares the factory of its original. The cache of an instance is the set of
hashes it has built, and the name of an image is derived from its hash, as in the code.
`jobs` are the Kaniko jobs, `registry` what they have pushed. `gitFailed` is a history
variable: the instances whose `SetGitRepo` has returned an error. Their image is set and
their state is 'Preparing', so that `Commit` accepts them.

*Actions.* `SetImage`, `SetGitRepo`, the operations that add a Dockerfile line,
`AddFile` in state 'Preparing', `Commit` in its three outcomes, the steps of
`Kaniko.Build` (create the job, see a pod of it end, return), any error on the way, and
`CloneWithName`. The cluster runs the pods of a job until one succeeds or more than
`BackoffLimit` have failed, whether or not a builder still waits. `getBuildDir`
makes a directory at every call, because nothing assigns `buildDir`. The hash is
taken to be injective; it includes the Dockerfile of a failed attempt, so
that a retried `Commit` pushes under another name.

*Bounds.* Two directories are two factories (two instances, or an upgrade), or a
factory and a file; two jobs are a retry, two concurrent builds, or a build on top of a
repository's image; `BackoffLimit` is 1 instead of 5: a job that retries once does all
that one that retries five times does.

*Fairness.* A goroutine that builds goes on, and a pod of an active job ends, one way or
the other. A pod that stays pending would keep `Commit` waiting until its context is
cancelled.

### Preloader

Each operation changes the list, then the daemon set; every API call may fail before
or after it took effect. `wanted` is a history variable: what the test was told is
preloaded. `disturbed` remembers that the last change of the list has failed, or that
`Cleanup` was called. `Cut` is the list without its k-th element, as `RemoveImage` leaves
it. The name that `preloader.New` takes is in `Names`.

### Execution

*State.* The g-th start makes replica set g, with a pod of its own. Deleting the replica set
is immediate; its pod ends later, at the garbage collector's pace, and the status of
a replica set lags behind its pod. `call` is the call of the test's goroutine,
`waiter[g]` the goroutine that the g-th `StartWithCallback` has left behind.

*Actions.* `StartAsync` in its three uses (alone, within `Start`, within
`StartWithCallback`), `Stop` and `Destroy` in two steps (the replica set, the rest,
which may fail), the polls of the two Wait functions, and `ExecuteCommand`,
`Logs`, `GetEphemeralIP`, `PortForwardTCP` as far as they all go the same way: find the
first pod of the replica set, use it. `GetFirstPodFromReplicaSet` returns nil and no
error without a replica set; what the caller does then is `panic`. The cluster makes
pods ready and unready, ends them and updates the status. The context may end at any
time.

*Bounds.* Two starts are a restart, with an old and a new pod, and an old and a new
waiting goroutine; a third would repeat the second. One flap and one fault reach
every poll and every call.

*Fairness.* Goroutines go on, and the cluster does its work: pods become ready (images
that cannot be pulled are out of scope: without a deadline, knuu waits for them for ever),
pods without an owner end, status follows.

### PortForward

*State.* `at[c]` is the place of call c in `PortForwardTCP` or in the select of
`PortForwardPod`, `forwarder[c][a]` the goroutine of its a-th attempt: dialing, listening,
`failed` (it has an error that nobody has read), `lost` (the connection broke after
it was ready). The free port is looked for once and is the same for all attempts.

*Bounds.* Two callers, two ports, two attempts (`maxRetries` is 5): one attempt that
was given up and one that meets it on the port; a call that takes the port of another.

*Fairness.* Of the calls only: timers fire. A dial may hang for ever.

### Sanitize and Names

*State.* Names are sequences over four characters, which stand for a letter or digit, a
letter that is changed, the hyphen, and whatever becomes a hyphen; `MaxNameLen` is 4
instead of 63. `registry` is `instancesMap`. `job[g]` is the call goroutine g is in
with the names it still has to claim. `pods` and `services` are names, since that is how
the code finds its objects.

*Actions.* `New`, `SetName`, `Add`, `CloneWithName` and `CloneWithSuffix` each claim
names one after the other; a claim is a lookup (`HasInstanceName`) and a store
(`AddInstanceName`), and other goroutines run in between. A clone copies the state of
its original. `StartAsync` and `Stop` are reduced to the service and the pod; `Destroy` is
left out, since the code never gives a destroyed instance's name back. `preloader.New`
takes a name of the same registry (`NewPreloader`, `AddPreloader`) and nothing gives it
back either; it shares the bound `MaxRenames` with the renames.

*Bounds.* All names of up to two characters as given by the test; clones and sidecars
add two more each, so that names are cut (that names of any length are cut well is proved). Four instances are an instance with a
sidecar and its clone with one; two goroutines race for a name.

*Uses of an instance.* One goroutine at a time uses an instance and its sidecar, as in
`Instance`; the registry is what goroutines share.

### Minio

*State.* `pc` walks through `New`: `createOrUpdateDeployment` with `createPVC`, `waitForMinio`,
`createOrUpdateService`, `WaitForService`, `getEndpoint`. `volume` is what the cluster has of
the wanted size: nothing, a free one, one that is in use. Calls of `Push` and
`Delete` are at `at[g]`. The map of mutexes is made by the first call that finds it nil
(`CheckMap`, `MakeMap`), the mutex of a bucket by the first that does not find one
(`LookupMutex`, `StoreMutex`): a second goroutine may replace either, so that two
goroutines hold two mutexes of one bucket (`doubled` remembers it; `crossed` remembers
whose file another `Delete` removed).

*Faults.* The lookups of the claim and of the service take an error for "missing"; any
other failed call ends `New`, having had its effect or not; the program is run again
on what is there. Concurrent use of the map of mutexes is a data race: both
accesses happen, in any order, or the Go runtime ends the program.

*Bounds.* Three runs: one that fails, one that dies in `createPVC`, one that finds what both
left; two faults; two goroutines, one bucket (buckets do not influence each other).

*Fairness.* Calls go on; a mutex that is free again and again is granted (Go's mutexes have
a starvation mode, hence SF); the load balancer assigns addresses; a pod
runs whose volume is free. Nothing is assumed of a volume that is taken, nor of the context.

### Knuu

`pc` walks through `New` (namespace, timeout handler, the proxy's calls), the
program may crash at any point, be signalled, and be run again with the same scope.
`script[h]` is the command at which the pod of handler `h` is. Objects of
the test are one object `work`. A handler whose `Start` failed half way
(`HalfStartHandler`) leaves objects of that name and no pod.

*Fairness.* Only the cluster's: a pod that runs executes its next command, and a
namespace that is being deleted goes away at last. Nothing is assumed of the program,
which may hang or die, and failed commands are bounded by `MaxFaults`, which is the
assumption that commands do not fail forever.

## What the runs show

| Run | Shows |
|---|---|
| `instance` | two sidecars, one a NetShaper, two edits, one fault: `CleanAfterDestroy`, `PodReflectsSettings`, `PodIsAuthorized`, `StartDeploysAll`, `OnlyDestroyLosesData`, `NetworkRestored`, `NoLeftovers`, `StoppedHasNoPod`, `SidecarsFollowParent`, `RestartsWork`, the type invariant, and `Instance` implements `Lifecycle` |
| `image` | `ImageMatches` (a committed instance has the image of its own instructions, and it was pushed, unless its `SetGitRepo` has failed), `SharedFactoriesAreFrozen` (clones cannot disturb each other through the factory they share), and the liveness property `CommitReturns` |
| `preloader` | `WantedIsPreloaded` (but for the two cases it names), `FailuresHeal` |
| `knuu` | `WorkIsGuarded`, and the liveness property `TimeoutCleansUp` |
| `execution` | `CallbackMeansReady`, `PanicNeedsFailure` (the complete list of cases in which a nil pod is dereferenced), `StalePodNeedsOverlap`, `StoppedPodWillEnd`, and the liveness property `CallsReturn` |
| `port_forward` | `TypeOK` (which bounds the attempts), `ReturnedPortsDiffer`, `LeakNeedsTimeout` (with the place where a successful attempt blocks as its exception), and the liveness property `ForwardReturns` |
| `names` | `RegisteredNamesAreValid`, `NamesAreUnique`, `NamesAreReclaimed`, `PodsHaveOwners`, `StartedMeansDeployed`, each with the exceptions that the code leaves |
| `minio` | `DeploymentHasClaim`, `PanicsOnce`, `ConflictNeedsRace`, `GhostNeedsRace`, and the liveness properties `NewReturns` and `CallsEnd` |

Several properties have the form "this happens only if": the code leaves a gap
(an unguarded map, a timed out goroutine, a rename), and the property says that
nothing else leads there. The exceptions are history variables of the model.

In all runs deadlock checking is off: the test may stop using its instances, and a
program that has exited for the last time does nothing.

### Where the code and its documents differ

Four runs show where the code does not do what a comment or document says:

* `instance_destroy_stopped`: `Stop`, then `Destroy` fails, because `destroyPod`
  deletes a service account that is gone. (It follows that 'Destroyed' is reached from
  'Started' only; `Lifecycle` says so, and `instance` confirms it.)
* `image_files`: a file added before `Commit` is not in the build context, and the image
  cannot be built.
* `clone_sidecars`: the sidecars of a clone are not marked as sidecars: they
  deploy services of their own, and commands sent to them look for a pod they do not have.
* `knuu_clean_up`: `CleanUp` deletes the namespace; the proxy's cluster role and its binding,
  named after the scope, are not in it, stay, and are in the way of the next run with that
  scope. `docs/knuu-new.md:163` says that all resources are cleaned up.

Other gaps are built into the passing properties, as their exceptions:

* an instance with a NetShaper does not start again after an image upgrade
  (`RestartsWork`);
* what is added to a stopped instance is mounted by its next pod and was never deployed:
  `StartDeploysAll` and `StartedMeansDeployed` speak of starts in state 'Committed';
* a retried `AddImage` returns no error and does nothing (`WantedIsPreloaded`);
* a start that is refused half way, by the validators or by the server, leaves the service
  account, which every later start finds in its way, however it is corrected
  (`NoLeftovers`, `RestartsWork`, `StoppedHasNoPod`);
* the pull policy and the type of an instance can be set in any state; a pod that
  exists keeps what it was made with (`PodReflectsSettings`);
* `Commit` after a `SetGitRepo` that failed accepts an image nobody has pushed
  (`ImageMatches`);
* a `Destroy` whose lookup of the network policy fails does not remove it (`NetworkRestored`);
* a preloader keeps its name for ever (`NamesAreReclaimed`), and the sidecars of a clone that
  was refused keep theirs;
* the goroutine of a forwarded port blocks for ever when its connection is lost
  (`LeakNeedsTimeout`);
* a program that dies before the timeout handler runs leaves an empty namespace
  (`WorkIsGuarded` says that it is empty);
* `WaitInstanceIsStopped` does not wait for the pod (`StoppedPodWillEnd`);
* a started instance that is renamed loses its pod (`PodsHaveOwners`);
* the clone of a stopped instance is started without its resources
  (`StartedMeansDeployed`);
* `createPVC` dereferences nil after it has created a volume; the next run finds that
  volume (`PanicsOnce`).

## Proofs

Of the properties the passing runs check, TLAPS proves all that are not about liveness,
for any sets of instances, sidecars, ports, goroutines, images and so on, and for any
bounds.

| Module | Theorems (`Spec => []P`, or the action property P) |
|---|---|
| `InstanceProofs` | `TypeCorrect`: `TypeOK`; `SidecarsFollow`: `SidecarsFollowParent`; `PodsAreAuthorized`: `PodIsAuthorized`; `DestroyIsClean`: `CleanAfterDestroy`; `PodsAreUpToDate`: `PodReflectsSettings`; `NetworksAreRestored`: `NetworkRestored`; `StoppedIsClean`: `StoppedHasNoPod`; `StartsMeetNoLeftovers`: `NoLeftovers`; `RestartsSucceed`: `RestartsWork`; the action properties `StartsDeployAll`: `StartDeploysAll` and `DataIsKept`: `OnlyDestroyLosesData`; and `LifecycleImplemented`: `ImplementsLifecycle`, the refinement |
| `KnuuProofs` | `NamespaceIsGuarded`: `WorkIsGuarded` |
| `ImageProofs` | `CommittedImagesFit`: `ImageMatches`; the action property `SharedFactoriesAreNotChanged`: `SharedFactoriesAreFrozen` |
| `NamesProofs` | `NoNameIsGivenAway`: `NamesAreUnique`; `OldNamesAreFree`: `NamesAreReclaimed`; `PodsAreOwned`: `PodsHaveOwners`; `StartedIsDeployed`: `StartedMeansDeployed`; `NamesAreValid`: `RegisteredNamesAreValid` |
| `ExecutionProofs` | `CallbacksAreLate`: `CallbackMeansReady`; `PanicsAreKnown`: `PanicNeedsFailure`; `StalePodsOverlap`: `StalePodNeedsOverlap`; `StoppedPodsEnd`: `StoppedPodWillEnd` |
| `MinioProofs` | `DeploymentsHaveClaims`: `DeploymentHasClaim`; `NilOnce`: `PanicsOnce`; `ConflictsAreRaces`: `ConflictNeedsRace`; `GhostsAreRaces`: `GhostNeedsRace` |
| `PortForwardProofs` | `ForwardTypeCorrect`: `TypeOK`; `PortsDiffer`: `ReturnedPortsDiffer`; `LeaksAreTimeouts`: `LeakNeedsTimeout` |
| `PreloaderProofs` | `WantedImagesArePreloaded`: `WantedIsPreloaded`; the action property `FailuresAreHealed`: `FailuresHeal`; also `ImagesAreListedOnce`, that the list has no duplicates |

*Assumptions.* All are about constants, named where the constants are declared, and
evaluated by TLC in the runs of the module. `FamilyAssumption` (an instance is made
either by the test or by `Sidecars().Add`; shapers are sidecars), `BoundAssumption`,
`ExecutionAssumption`, `NamesAssumption`, `KnuuAssumption` and `NameLenAssumption` (bounds are
natural numbers, flags are Booleans, a name has room for a character);
`ForwardAssumption` (there is a port and an attempt); `MinioAssumption`,
`NoneAssumption` and `ImageBounds` (the value that stands for nil is not one of the data,
and the lines of a Dockerfile are not files). Nothing is assumed of the number of instances, calls or goroutines, so any
interleaving of any number of them is covered.

None of the properties is inductive; each proof module begins with the invariant that is,
in named parts, and proves that every action keeps it.

### The invariant of Instance

Whether the objects of an instance are gone when `Destroy` returns depends on which calls
it has behind it, on why it skipped the others, and on who else could have created the
objects again. `IInv` says this in parts:

* `FamilyInv`: only the test's own instances have sidecars, a sidecar has one parent;
* `OwnerInv`: a sidecar has neither a pod nor a service of its own;
* `HandlerInv`: the states in which each handler runs, and how far a handler gets that
  cannot succeed: `Stop` or `Destroy` of a sidecar ends at its service account
  (`OwnerInv`), `Destroy` of a stopped instance ends at its network. Hence only
  handlers of the test's own instances return, and `Destroy` returns from 'Started' only;
* `AuthInv`: what the pod runs as is created before it and deleted after it;
* `ResourceInv`: an object exists only if the settings ask for it, so that a delete
  that is skipped has nothing to delete. It is preserved because settings are only
  ever added to;
* `ServiceInv`: a service the client does not know of (`kubernetesService` is nil, so
  `Destroy` would skip it) was left by a first start that failed, and the next start
  makes it known before `Destroy` can be called;
* `DestroyInv`: what a running `Destroy` has deleted stays deleted.

Four more parts are each inductive together with `IInv`:

* `SpecInv`: the pod of a started instance, and of a start that has got past
  `deployPod`'s last call, is the one the settings describe, up to the value the two
  unguarded ones had when it was made; the others are refused in state 'Started', and
  all wait while a handler runs;
* `PolicyInv`: without failed calls, a `Destroy` that got past `enableIfDisabled`, and
  a destroyed instance, has no network policy;
* `VacancyInv`: without failed calls, the objects a start creates with "create" are
  absent before the call of that start which creates them, but for the service account of
  an instance in `refused`. It needs, for every position of every handler, what
  that handler has yet to do (`Remains`), that a start that gets past its account was not
  refused before (`Unrefused`), and why an instance that refuses is a NetShaper (`Explained`);
* `DeployInv`: a start of a committed instance has deployed what lies behind its
  position: claims, files and their number, ports.

Each proof goes through the actions, and treats a handler's step by what it does to the
position (`StepCases`) and to the cluster (`StepObjs`, `CallDone`) rather than call by
call. `CallTable` is the one place where the scripts are unfolded. For the last four
parts, `Elsewhere`, `Advances`, `Fails`, `GoesOn`, `Returns` and `Enters` are the steps as one instance of
the test sees them. The refinement maps each variable of `Lifecycle` to the one of
the same name; all steps but `Build`, `AddSidecar` and `Return` map to stuttering, and
`Return` of `Stop` or `Destroy` is a move of `Lifecycle` because `SidecarsFollowParent` makes the
whole family 'Started'.

### The invariants of the other modules

* `Knuu`. `GuardInv`: past the timeout handler, an active namespace has a handler whose
  script runs, since only the program itself makes a namespace active again.
* `Image`. `RegistryInv`: a job pushes what the hash in its destination was made from,
  whenever it ends and whoever waits; cached hashes are pushed. `BuildInv`: the
  Dockerfile that a build has written is still in its directory when the job is created.
  `FactoryInv` says why: an instance that is being prepared has its factory for
  itself, and each factory its directory. `SourceInv`: a base image can be pulled, unless
  its `SetGitRepo` has failed. `CommitInv` then speaks of clones too; a
  clone of an instance whose `SetGitRepo` failed inherits the failure with the image.
* `Names`. `JobInv`: what a call has yet to claim, for which fresh instances, and that no
  other call works on them. `NameInv`: a name is registered and used once, by an instance
  or a preloader, or was raced for. `SanitizeName` stays opaque: these theorems hold whatever it returns.
  `BalanceInv`, for `PodsHaveOwners`, counts: the sidecars of clones are not marked as
  sidecars, so they can be stopped and started beside their parents, and several
  instances may share a name after a race. Under each name there are as many instances
  up by themselves (`Up`) as sidecars stopped beside their running parents (`Down`), and
  one more if there is a pod. `DeployInv` does the same for `StartedMeansDeployed`, without counting.
  `ValidInv`, for `RegisteredNamesAreValid`: what is registered, what instances are called
  and what calls have yet to claim was returned by `SanitizeName`, of which
  `SanitizedIsValid` and `ValidStays` say what it returns for names of any length.
* `Execution`. `WaiterInv` relates the goroutines of `StartWithCallback` to the pods that have
  been ready, `ClusterInv` the replica set to the last start, `StateInv` lists the
  states in which an instance lacks its replica set, or has one too many, which is
  where nil pods come from.
* `Minio`. `MapInv` and `MutexInv`: a goroutine holds the mutex that is in the map, unless the
  bucket was given a second one, or lost its mutex with the map; the bucket that it is about to make does not exist,
  with the same exception. `FileInv` and `NewInv` relate the step of a call to what it has seen.
* `PortForward`. `ListenInv`: no two goroutines listen on one port; `ReadyInv`: a call
  that succeeded had a forwarder that was ready; `LeakInv`: what is left of an
  attempt that is behind its call was given up by the timer.
* `Preloader`. `PreloaderInv`: if nothing was disturbed, the daemon set is that of the
  list; the list has no duplicates, without which `RemoveImage` would leave one.

### Induction

`ReplaceInvalid` scans a name of any length, so that its properties need induction. The
library's induction rules are about operators, which the provers cannot instantiate;
`InductionOn` is a rule about sets instead: a set of natural numbers that has 0 and, with
each number, the next one, has all of them. It follows from `WFMin` (a non-empty set has
a minimal element) and `NatLessThanWellFounded`. A proof defines the set of the numbers
for which a fact holds, hides its definition, and cites the rule.

### Not proved

* Liveness under fairness (`TimeoutCleansUp`, `CommitReturns`, `CallsReturn`,
  `ForwardReturns`, `NewReturns`, `CallsEnd`) is out of the prover's reach, and checked by TLC only.
* The four properties that the code does not have are refuted by TLC, which needs no proof.


## Abstractions and omissions

* The values of settings, the contents of files and the wording of errors are left out.
* In `Instance` and `Execution` the objects of an instance are identified by the instance:
  names are taken to be unique, which is what `Names` is about.
* What a validator looks at is left out: whether a new value is valid is a choice. The ports
  are the exception, since a collision is about two instances. An empty path of a volume is
  one of the pod's other settings; that of a port is checked by `AddPort` itself, and the
  keys of config maps are indices, so neither is ever refused.
* A lookup and the call that depends on it are one step: the objects of an
  instance are touched by its own goroutine only.
* `deployOrPatchService` is one "apply": the client's `GetService` returns a non-nil
  object also on an error, so the code always updates, and the API server creates a
  service that is updated and missing (services allow creation on update).
* In `Instance` a handler ends when its last call has been answered; waiting for the pod
  is in `Execution`.
* Build arguments are in a job and in the image it makes, but `ImageMatches` does not
  compare them: the hash does not either (see the hazards).

### Not modelled

* The Docker builder, a sequence of commands on the local machine, and the regular
  expressions of Git contexts.
* The HTTP calls of NetShaper and the YAML of the observability sidecar
  (`sidecars/observability/otel.go`): requests and formatting without state.
* Which values the validators of `k8s/validate.go` accept (names excepted): one value against
  one expression. That they refuse, and where, is in `Instance`.
* The text of errors. That `Wrap` and `WithParams` change shared values is listed as a
  hazard.
* The polling of a host behind the proxy (`AddHostWithReadyCheck`), URLs and endpoints.
* `ReplacePod` and `ReplaceReplicaSet`, which nothing in the repository calls outside of tests.
* The drivers of the end-to-end tests: they are the "test" of these models.

## Plan

1. *Done:* all modules and runs above, and the theorems of the section on proofs.
2. *Refinement:* abstract specifications of more components, in the manner of `Lifecycle`,
   and proofs that the modules implement them: the registry of names as a set of owners,
   the object store as a set of buckets that are made once.
3. *Variants:* `CleanAfterDestroy` and `NoLeftovers` for instances that share a name, which
   needs `Names` and `Instance` in one module.
