-------------------------------- MODULE Minio --------------------------------
(***************************************************************************)
(* The object store (pkg/minio).  New deploys it: a persistent volume and  *)
(* a claim, a deployment, a service, each with calls that may fail, in a   *)
(* program that may die and be run again on the same namespace.  Then      *)
(* goroutines push and delete files concurrently: a push makes sure that   *)
(* the bucket exists, holding a mutex that it finds in a map.  Neither the *)
(* map nor the field it is in is guarded, and the first push makes it.     *)
(***************************************************************************)
EXTENDS Naturals, FiniteSets

CONSTANTS
  Goroutines,
  Buckets,
  None,       \* no bucket
  MaxRuns,    \* bound: runs of the program
  MaxFaults   \* bound: calls that fail on their way

ASSUME MinioAssumption ==
  /\ {MaxRuns, MaxFaults} \subseteq Nat
  /\ None \notin Buckets

VARIABLES
  pc,          \* the step of New, "up" or "exited"
  volume,      \* a volume of the size asked for: "none", "free", or "taken" by others
  claim, deployment, service,   \* the object exists
  ready,       \* Status.ReadyReplicas of the deployment
  ingress,     \* the load balancer has given the service an address
  at,          \* at[g]: where the call of goroutine g is
  bucketName,  \* bucketName[g]: its argument
  hasMap,      \* muMap # nil
  muMap,       \* muMap[b]: the mutex of b, or 0
  mu,          \* mu[g]: the mutex that g has looked up, or 0
  mutexes,     \* the number of mutexes made: the last one is mutex number mutexes
  locked,      \* the mutexes that are locked
  buckets,     \* the buckets that exist
  files,       \* the buckets that hold the file
  doubled,     \* history: buckets whose mutex was replaced, or lost with the map it was in
  conflicts,   \* history: buckets that were made twice
  crossed,     \* history: buckets whose file was removed while a Delete had just found it
  ghosts,      \* history: buckets where a Delete of nothing succeeded
  panics, runs, faults

cluster == <<volume, claim, deployment, service, ready, ingress>>
store == <<buckets, files>>
guards == <<hasMap, muMap, mu, mutexes, locked>>
calls == <<at, bucketName, guards>>
history == <<doubled, conflicts, crossed, ghosts>>
vars == <<pc, cluster, store, calls, history, panics, runs, faults>>

\* What a program starts with
NoCalls == [g \in Goroutines |-> "idle"]
NoMutexes == [b \in Buckets |-> 0]

\* A namespace without Minio, in a cluster that may have a volume of that size.
Init ==
  /\ pc = "getDeployment"
  /\ volume \in {"none", "free", "taken"}
  /\ claim = FALSE /\ deployment = FALSE /\ service = FALSE
  /\ ready = 0 /\ ingress = FALSE
  /\ at = NoCalls /\ bucketName = [g \in Goroutines |-> None]
  /\ hasMap = FALSE /\ muMap = NoMutexes /\ mu = [g \in Goroutines |-> 0]
  /\ mutexes = 0 /\ locked = {}
  /\ buckets = {} /\ files = {}
  /\ doubled = {} /\ conflicts = {} /\ crossed = {} /\ ghosts = {}
  /\ panics = 0 /\ runs = 1 /\ faults = 0

Fault == faults < MaxFaults /\ faults' = faults + 1

\* The program ends: New has returned an error, or something has killed it.
Exit ==
  /\ pc' = "exited"
  /\ at' = NoCalls /\ bucketName' = [g \in Goroutines |-> None]
  /\ hasMap' = FALSE /\ muMap' = NoMutexes /\ mu' = [g \in Goroutines |-> 0]
  /\ mutexes' = 0 /\ locked' = {}

-----------------------------------------------------------------------------
(* New *)

\* What the call of the present step does to the cluster.
Effect ==
  CASE pc = "createVolume" -> volume' = "free" /\ UNCHANGED <<claim, deployment, service, ready, ingress>>
    [] pc = "createClaim" -> ~claim /\ claim' = TRUE /\ UNCHANGED <<volume, deployment, service, ready, ingress>>
    [] pc = "createDeployment" -> deployment' = TRUE /\ UNCHANGED <<volume, claim, service, ready, ingress>>
    [] pc = "createService" -> ~service /\ service' = TRUE /\ UNCHANGED <<volume, claim, deployment, ready, ingress>>
    [] OTHER -> UNCHANGED cluster

\* Mutant: volumes that others use are no candidates, and neither are free ones.
NoSuitable == FALSE

\* createPVC takes any volume of the size for suitable, used or not.
Suitable == volume # "none"

\* Mutant: the deployment is created before the claim.
ClaimLast ==
  CASE pc = "getDeployment" -> IF deployment THEN "updateDeployment" ELSE "createDeployment"
    [] pc = "createDeployment" -> "getClaim"
    [] pc = "getClaim" -> IF claim THEN "waitForMinio" ELSE "listVolumes"
    [] pc = "listVolumes" -> IF Suitable THEN "createClaim" ELSE "createVolume"
    [] pc = "createClaim" -> "waitForMinio"
    [] OTHER -> "waitForMinio"

\* createOrUpdateDeployment and createPVC: the step after a call that was answered.
\* Once a volume was created, existingPV is still nil and is dereferenced.
DeploymentStep ==
  CASE pc = "getDeployment" -> IF deployment THEN "updateDeployment" ELSE "getClaim"
    [] pc = "getClaim" -> IF claim THEN "createDeployment" ELSE "listVolumes"
    [] pc = "listVolumes" -> IF Suitable THEN "createClaim" ELSE "createVolume"
    [] pc = "createClaim" -> "createDeployment"
    [] OTHER -> "waitForMinio"

createOrUpdateDeployment ==
  /\ pc \in {"getDeployment", "updateDeployment", "getClaim", "listVolumes", "createClaim", "createDeployment"}
  /\ Effect
  /\ pc' = DeploymentStep
  /\ UNCHANGED <<calls, panics, faults>>

Panic ==
  /\ pc = "createVolume"
  /\ Effect
  /\ Exit
  /\ panics' = panics + 1
  /\ UNCHANGED faults

\* Mutant: a replica too many is waited for.
TwoReplicas == ready > 1

EnoughReplicas == ready > 0

\* Errors of the lookup are not looked at.
waitForMinio ==
  /\ pc = "waitForMinio"
  /\ EnoughReplicas
  /\ pc' = "getService"
  /\ UNCHANGED <<cluster, calls, panics, faults>>

createOrUpdateService ==
  /\ pc \in {"getService", "updateService", "createService"}
  /\ Effect
  /\ pc' = IF pc # "getService" THEN "waitForService"
           ELSE IF service THEN "updateService" ELSE "createService"
  /\ UNCHANGED <<calls, panics, faults>>

isServiceReady == ingress

checkServiceConnectivity == ready > 0

WaitForService ==
  /\ pc = "waitForService"
  /\ isServiceReady /\ checkServiceConnectivity
  /\ pc' = "getEndpoint"
  /\ UNCHANGED <<cluster, calls, panics, faults>>

getEndpoint ==
  /\ pc = "getEndpoint"
  /\ pc' = "up"
  /\ UNCHANGED <<cluster, calls, panics, faults>>

\* The lookups of the claim and of the service take an error for "not there".
LookupFails ==
  /\ pc \in {"getClaim", "getService"}
  /\ Fault
  /\ pc' = IF pc = "getClaim" THEN "listVolumes" ELSE "createService"
  /\ UNCHANGED <<cluster, calls, panics>>

\* Any other call that fails ends New, and so does the creation of what is there.
NewFails ==
  /\ \/ /\ pc \notin {"getClaim", "getService", "waitForMinio", "up", "exited"}
        /\ Fault
        /\ Effect \/ UNCHANGED cluster
     \/ /\ (pc = "createClaim" /\ claim) \/ (pc = "createService" /\ service)
        /\ UNCHANGED <<cluster, faults>>
  /\ Exit
  /\ UNCHANGED panics

\* The context is done while New waits.
ContextDone ==
  /\ pc \in {"waitForMinio", "waitForService"}
  /\ Exit
  /\ UNCHANGED <<cluster, panics, faults>>

New ==
  /\ \/ createOrUpdateDeployment \/ Panic \/ waitForMinio \/ createOrUpdateService
     \/ WaitForService \/ getEndpoint \/ LookupFails \/ NewFails
  /\ UNCHANGED <<store, history, runs>>

\* The program is run again.
Rerun ==
  /\ pc = "exited"
  /\ runs < MaxRuns
  /\ runs' = runs + 1
  /\ pc' = "getDeployment"
  /\ UNCHANGED <<cluster, store, calls, history, panics, faults>>

\* The pod runs as soon as its volume is bound; a provisioner may bring a volume of
\* its own when the one there is taken.
PodReady ==
  /\ deployment /\ claim /\ ready = 0
  /\ ready' = 1
  /\ UNCHANGED <<pc, volume, claim, deployment, service, ingress, store, calls, history, panics, runs, faults>>

AssignAddress ==
  /\ service /\ ~ingress
  /\ ingress' = TRUE
  /\ UNCHANGED <<pc, volume, claim, deployment, service, ready, store, calls, history, panics, runs, faults>>

-----------------------------------------------------------------------------
(* Push and Delete *)

Goto(g, place) == at' = [at EXCEPT ![g] = place]

\* A call begins: Push with the map of the mutexes, Delete with the lookup of the file.
Call(g, b) ==
  /\ at[g] = "idle"
  /\ bucketName' = [bucketName EXCEPT ![g] = b]
  /\ Goto(g, "begin") \/ Goto(g, "stat")
  /\ UNCHANGED <<store, guards, history, faults>>

CheckMap(g) ==
  /\ at[g] = "begin"
  /\ Goto(g, IF hasMap THEN "lookup" ELSE "create")
  /\ UNCHANGED <<store, bucketName, guards, history, faults>>

\* The new map takes the place of one that another goroutine has made since it was
\* found missing, with the mutexes in it.
MakeMap(g) ==
  /\ at[g] = "create"
  /\ hasMap' = TRUE
  /\ muMap' = NoMutexes
  /\ doubled' = doubled \cup {b \in Buckets : muMap[b] # 0}
  /\ Goto(g, "lookup")
  /\ UNCHANGED <<store, bucketName, mu, mutexes, locked, conflicts, crossed, ghosts, faults>>

LookupMutex(g) ==
  LET m == muMap[bucketName[g]]
  IN  /\ at[g] = "lookup"
      /\ mu' = [mu EXCEPT ![g] = m]
      /\ Goto(g, IF m = 0 THEN "store" ELSE "lock")
      /\ UNCHANGED <<store, bucketName, hasMap, muMap, mutexes, locked, history, faults>>

\* Mutant: the new mutex is not put into the map.
ForgetMutex(g) ==
  /\ at[g] = "store"
  /\ mutexes' = mutexes + 1
  /\ mu' = [mu EXCEPT ![g] = mutexes + 1]
  /\ Goto(g, "lock")
  /\ UNCHANGED <<store, bucketName, hasMap, muMap, locked, history, faults>>

StoreMutex(g) ==
  LET b == bucketName[g]
  IN  /\ at[g] = "store"
      /\ mutexes' = mutexes + 1
      /\ mu' = [mu EXCEPT ![g] = mutexes + 1]
      /\ muMap' = [muMap EXCEPT ![b] = mutexes + 1]
      /\ doubled' = IF muMap[b] # 0 THEN doubled \cup {b} ELSE doubled
      /\ Goto(g, "lock")
      /\ UNCHANGED <<store, bucketName, hasMap, locked, conflicts, crossed, ghosts, faults>>

Lock(g) ==
  /\ at[g] = "lock"
  /\ mu[g] \notin locked
  /\ locked' = locked \cup {mu[g]}
  /\ Goto(g, "check")
  /\ UNCHANGED <<store, bucketName, hasMap, muMap, mu, mutexes, history, faults>>

\* Mutant: the mutex is kept when the bucket exists.
UnlockIfMade(g, place) ==
  /\ locked' = IF at[g] = "check" /\ place = "put" THEN locked ELSE locked \ {mu[g]}
  /\ Goto(g, place)

\* The deferred Unlock, and where the call goes on.
Unlock(g, place) ==
  /\ locked' = locked \ {mu[g]}
  /\ Goto(g, place)

\* BucketExists
CheckBucket(g) ==
  /\ at[g] = "check"
  /\ \/ bucketName[g] \in buckets /\ Unlock(g, "put") /\ UNCHANGED faults
     \/ bucketName[g] \notin buckets /\ Goto(g, "make") /\ UNCHANGED <<locked, faults>>
     \/ Fault /\ Unlock(g, "idle")
  /\ UNCHANGED <<store, bucketName, hasMap, muMap, mu, mutexes, history>>

\* A bucket that exists is not made again, and the call fails.
MakeBucket(g) ==
  LET b == bucketName[g]
  IN  /\ at[g] = "make"
      /\ \/ /\ b \notin buckets /\ buckets' = buckets \cup {b}
            /\ Unlock(g, "put")
            /\ UNCHANGED <<conflicts, faults>>
         \/ /\ b \in buckets /\ conflicts' = conflicts \cup {b}
            /\ Unlock(g, "idle")
            /\ UNCHANGED <<buckets, faults>>
         \/ /\ Fault
            /\ buckets' \in {buckets, buckets \cup {b}}
            /\ Unlock(g, "idle")
            /\ UNCHANGED conflicts
      /\ UNCHANGED <<files, bucketName, hasMap, muMap, mu, mutexes, doubled, crossed, ghosts>>

PutObject(g) ==
  /\ at[g] = "put"
  /\ \/ files' = files \cup {bucketName[g]} /\ UNCHANGED faults
     \/ Fault /\ files' \in {files, files \cup {bucketName[g]}}
  /\ Goto(g, "idle")
  /\ UNCHANGED <<buckets, bucketName, guards, history>>

\* Mutant: the file is not looked up.
StatNothing(g) ==
  /\ at[g] = "stat"
  /\ Goto(g, "remove")
  /\ UNCHANGED <<store, bucketName, guards, history, faults>>

StatObject(g) ==
  /\ at[g] = "stat"
  /\ \/ Goto(g, IF bucketName[g] \in files THEN "remove" ELSE "idle") /\ UNCHANGED faults
     \/ Fault /\ Goto(g, "idle")
  /\ UNCHANGED <<store, bucketName, guards, history>>

\* To remove a file that is gone is no error.
RemoveObject(g) ==
  LET b == bucketName[g]
      others == {h \in Goroutines \ {g} : at[h] = "remove" /\ bucketName[h] = b}
  IN  /\ at[g] = "remove"
      /\ \/ /\ files' = files \ {b}
            /\ ghosts' = IF b \in files THEN ghosts ELSE ghosts \cup {b}
            /\ UNCHANGED faults
         \/ Fault /\ files' \in {files, files \ {b}} /\ UNCHANGED ghosts
      /\ crossed' = IF others # {} THEN crossed \cup {b} ELSE crossed
      /\ Goto(g, "idle")
      /\ UNCHANGED <<buckets, bucketName, guards, doubled, conflicts>>

Step(g) ==
  \/ CheckMap(g) \/ MakeMap(g) \/ LookupMutex(g) \/ StoreMutex(g) \/ Lock(g) \/ CheckBucket(g) \/ MakeBucket(g)
  \/ PutObject(g) \/ StatObject(g) \/ RemoveObject(g)

Work(g) ==
  /\ pc = "up"
  /\ Step(g)
  /\ UNCHANGED <<pc, cluster, panics, runs>>

\* The runtime may notice that the map is written while it is used, and ends the program.
ConcurrentMapAccess ==
  /\ \E g, h \in Goroutines : g # h /\ at[g] = "store" /\ at[h] \in {"lookup", "store"}
  /\ Exit
  /\ UNCHANGED <<cluster, store, history, panics, runs, faults>>

-----------------------------------------------------------------------------

Next ==
  \/ New \/ Rerun \/ PodReady \/ AssignAddress
  \/ ContextDone /\ UNCHANGED <<store, history, runs>>
  \/ \E g \in Goroutines :
       \/ Work(g)
       \/ \E b \in Buckets : pc = "up" /\ Call(g, b) /\ UNCHANGED <<pc, cluster, panics, runs>>
  \/ ConcurrentMapAccess

\* New and the calls go on, mutexes are granted to whoever waits, the cluster assigns
\* addresses and runs a pod whose volume is free.  Nothing is assumed of the context.
Fairness ==
  /\ WF_vars(New)
  /\ WF_vars(volume = "free" /\ PodReady)
  /\ WF_vars(AssignAddress)
  /\ \A g \in Goroutines : WF_vars(Work(g)) /\ SF_vars(Work(g) /\ Lock(g))

Spec == Init /\ [][Next]_vars /\ Fairness

-----------------------------------------------------------------------------
(* Properties *)

\* Wherever New has failed or died, a deployment has its claim: the next run updates
\* the deployment and does not look for the claim.
DeploymentHasClaim == deployment => claim

\* New dereferences nil at most once: the run that dies there has created the volume
\* that the next run finds.
PanicsOnce == panics <= 1

\* New returns, or the program dies, whatever failed before; it can wait for ever only
\* if the volume it took for suitable is not free.
NewReturns == pc \notin {"up", "exited"} ~> (pc \in {"up", "exited"} \/ volume = "taken")

\* A bucket is made twice, and a push fails for it, only if the mutex of the bucket was
\* replaced in the unguarded map, or lost when two first pushes both made the map.
ConflictNeedsRace == conflicts \subseteq doubled

\* A Delete succeeds although there is no file only if another Delete has removed the
\* file between its lookup and its removal.
GhostNeedsRace == ghosts \subseteq crossed

\* Push and Delete return: every way out of createBucketIfNotExists unlocks the mutex.
CallsEnd == \A g \in Goroutines : at[g] # "idle" ~> at[g] = "idle"
=============================================================================
