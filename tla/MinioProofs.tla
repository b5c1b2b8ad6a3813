----------------------------- MODULE MinioProofs -----------------------------
(***************************************************************************)
(* Proofs about module Minio, for any goroutines, buckets, runs of the     *)
(* program and failing calls.                                              *)
(***************************************************************************)
EXTENDS Minio, TLAPS

NewSteps ==
  {"getDeployment", "updateDeployment", "getClaim", "listVolumes", "createVolume", "createClaim",
   "createDeployment", "waitForMinio", "getService", "updateService", "createService",
   "waitForService", "getEndpoint"}

Places == {"idle", "begin", "create", "lookup", "store", "lock", "check", "make", "put", "stat", "remove"}

ClusterTypeOK ==
  /\ pc \in NewSteps \cup {"up", "exited"}
  /\ volume \in {"none", "free", "taken"}
  /\ claim \in BOOLEAN /\ deployment \in BOOLEAN /\ service \in BOOLEAN
  /\ panics \in Nat

CallsTypeOK ==
  /\ at \in [Goroutines -> Places]
  /\ bucketName \in [Goroutines -> Buckets \cup {None}]
  /\ \A g \in Goroutines : at[g] # "idle" => bucketName[g] \in Buckets
  /\ hasMap \in BOOLEAN
  /\ muMap \in [Buckets -> Nat]
  /\ mu \in [Goroutines -> Nat]
  /\ mutexes \in Nat

\* New creates the deployment when it has the claim, and a volume when there is none.
NewInv ==
  /\ DeploymentHasClaim
  /\ pc = "createDeployment" => claim
  /\ PanicsOnce
  /\ pc = "createVolume" => volume = "none"
  /\ panics > 0 => volume # "none"

\* A goroutine that locks or has locked a mutex uses the one in the map, unless that
\* one was replaced or lost.
MapInv ==
  \A g \in Goroutines :
    at[g] \in {"lock", "check", "make"} =>
      /\ mu[g] # 0
      /\ bucketName[g] \in doubled \/ mu[g] = muMap[bucketName[g]]

\* Between Lock and Unlock the mutex is locked and nobody else has it, and the bucket
\* that is about to be made does not exist.
MutexInv ==
  \A g \in Goroutines :
    /\ at[g] \in {"check", "make"} =>
         /\ mu[g] \in locked
         /\ \A h \in Goroutines : at[h] \in {"check", "make"} /\ mu[h] = mu[g] => h = g
    /\ at[g] = "make" => bucketName[g] \in doubled \/ bucketName[g] \notin buckets

\* A file that Delete has found is there until another Delete gets ahead of it.
FileInv ==
  \A g \in Goroutines :
    at[g] = "remove" => bucketName[g] \in crossed \/ bucketName[g] \in files

StoreInv == MapInv /\ MutexInv /\ FileInv /\ ConflictNeedsRace /\ GhostNeedsRace

MinioInv == ClusterTypeOK /\ CallsTypeOK /\ NewInv /\ StoreInv

-----------------------------------------------------------------------------
(* New *)

\* No calls, no mutexes: what Init and Exit set.
LEMMA NoCallsType ==
  /\ NoCalls \in [Goroutines -> Places]
  /\ [g \in Goroutines |-> None] \in [Goroutines -> Buckets \cup {None}]
  /\ [g \in Goroutines |-> 0] \in [Goroutines -> Nat]
  /\ NoMutexes \in [Buckets -> Nat]
BY DEF NoCalls, NoMutexes, Places

\* At first there is no deployment, no bucket and no mutex.
LEMMA MinioInit == Init => MinioInv
<1> SUFFICES ASSUME Init PROVE MinioInv
  OBVIOUS
<1>1. ClusterTypeOK /\ NewInv
  <2>1. pc = "getDeployment" /\ panics = 0 /\ volume \in {"none", "free", "taken"}
    BY DEF Init
  <2>2. claim = FALSE /\ deployment = FALSE /\ service = FALSE
    BY DEF Init
  <2>3. ClusterTypeOK
    BY <2>1, <2>2 DEF ClusterTypeOK, NewSteps
  <2>4. ~(panics > 0) /\ PanicsOnce
    BY <2>1 DEF PanicsOnce
  <2> QED BY <2>1, <2>2, <2>3, <2>4 DEF NewInv, DeploymentHasClaim
<1>2. CallsTypeOK
  BY NoCallsType DEF Init, CallsTypeOK, NoCalls
<1>3. \A g \in Goroutines : at[g] = "idle"
  BY DEF Init, NoCalls
<1>4. StoreInv
  BY <1>3 DEF Init, StoreInv, MapInv, MutexInv, FileInv, ConflictNeedsRace, GhostNeedsRace
<1> QED BY <1>1, <1>2, <1>4 DEF MinioInv

\* What the calls of New do to the cluster.
LEMMA EffectCases ==
  ASSUME ClusterTypeOK, Effect \/ UNCHANGED cluster
  PROVE  /\ volume' \in {"none", "free", "taken"}
         /\ claim' \in BOOLEAN /\ deployment' \in BOOLEAN /\ service' \in BOOLEAN
         /\ claim => claim'
         /\ deployment' => deployment \/ pc = "createDeployment"
         /\ volume' = volume \/ (pc = "createVolume" /\ volume' = "free")
         /\ pc = "createClaim" /\ Effect => claim'
         /\ pc = "createVolume" /\ Effect => volume' = "free"
<1> USE DEF ClusterTypeOK
<1>1. CASE UNCHANGED cluster
  BY <1>1 DEF cluster, Effect
<1>2. CASE pc = "createVolume" /\ Effect
  BY <1>2 DEF Effect
<1>3. CASE pc = "createClaim" /\ Effect
  BY <1>3 DEF Effect
<1>4. CASE pc = "createDeployment" /\ Effect
  BY <1>4 DEF Effect
<1>5. CASE pc = "createService" /\ Effect
  BY <1>5 DEF Effect
<1>6. CASE pc \notin {"createVolume", "createClaim", "createDeployment", "createService"} /\ Effect
  BY <1>6 DEF Effect, cluster
<1> QED BY <1>1, <1>2, <1>3, <1>4, <1>5, <1>6

\* A program that has ended has no calls under way.
LEMMA ExitCalls ==
  ASSUME MinioInv, Exit, UNCHANGED <<store, history>>
  PROVE  CallsTypeOK' /\ StoreInv' /\ pc' = "exited"
<1>1. CallsTypeOK' /\ pc' = "exited"
  BY NoCallsType DEF Exit, CallsTypeOK, NoCalls
<1>2. \A g \in Goroutines : at'[g] = "idle"
  BY DEF Exit, NoCalls
<1> QED BY <1>1, <1>2 DEF MinioInv, StoreInv, MapInv, MutexInv, FileInv, ConflictNeedsRace,
           GhostNeedsRace, store, history

\* A step that is none of Push and Delete keeps what is known about them.
LEMMA StoreFrame ==
  ASSUME MinioInv, UNCHANGED <<calls, store, history>>
  PROVE  CallsTypeOK' /\ StoreInv'
BY DEF MinioInv, CallsTypeOK, StoreInv, MapInv, MutexInv, FileInv, ConflictNeedsRace,
   GhostNeedsRace, calls, guards, store, history

\* A step of New, or its end because the context is done.
LEMMA NewStep ==
  ASSUME MinioInv, New \/ (ContextDone /\ UNCHANGED <<store, history, runs>>)
  PROVE  MinioInv'
<1> USE DEF MinioInv
<1>1. UNCHANGED <<store, history>>
  BY DEF New
<1>2. ASSUME UNCHANGED <<calls, panics>>, UNCHANGED cluster,
             pc' \in (NewSteps \cup {"up", "exited"}) \ {"createDeployment", "createVolume"}
      PROVE  MinioInv'
  BY <1>1, <1>2, StoreFrame DEF cluster, ClusterTypeOK, NewInv, DeploymentHasClaim, PanicsOnce
<1>3. CASE createOrUpdateDeployment
  <2>1. /\ Effect /\ pc' = DeploymentStep /\ UNCHANGED <<calls, panics>>
        /\ pc \in {"getDeployment", "updateDeployment", "getClaim", "listVolumes",
                   "createClaim", "createDeployment"}
    BY <1>3 DEF createOrUpdateDeployment
  <2>2. pc' \in NewSteps
    BY <2>1 DEF DeploymentStep, NewSteps
  <2>3. /\ pc' = "createDeployment" => claim \/ pc = "createClaim"
        /\ pc' = "createVolume" => pc = "listVolumes" /\ volume = "none"
    BY <2>1 DEF DeploymentStep, Suitable
  <2>4. ClusterTypeOK' /\ NewInv'
    BY <2>1, <2>2, <2>3, EffectCases DEF ClusterTypeOK, NewInv, DeploymentHasClaim, PanicsOnce
  <2> QED BY <1>1, <2>1, <2>4, StoreFrame
<1>4. CASE Panic
  <2>1. /\ pc = "createVolume" /\ Effect /\ Exit /\ panics' = panics + 1
    BY <1>4 DEF Panic
  <2>2. panics = 0
    BY <2>1 DEF NewInv, PanicsOnce, ClusterTypeOK
  <2>3. ClusterTypeOK' /\ NewInv'
    BY <1>1, <2>1, <2>2, EffectCases, ExitCalls
    DEF ClusterTypeOK, NewInv, DeploymentHasClaim, PanicsOnce
  <2> QED BY <1>1, <2>1, <2>3, ExitCalls
<1>5. CASE waitForMinio \/ WaitForService \/ getEndpoint \/ LookupFails
  BY <1>2, <1>5 DEF waitForMinio, WaitForService, getEndpoint, LookupFails, NewSteps
<1>6. CASE createOrUpdateService
  <2>1. /\ Effect /\ UNCHANGED <<calls, panics>>
        /\ pc \in {"getService", "updateService", "createService"}
        /\ pc' \in {"waitForService", "updateService", "createService"}
    BY <1>6 DEF createOrUpdateService
  <2>2. ClusterTypeOK' /\ NewInv'
    BY <2>1, EffectCases DEF ClusterTypeOK, NewSteps, NewInv, DeploymentHasClaim, PanicsOnce
  <2> QED BY <1>1, <2>1, <2>2, StoreFrame
<1>7. CASE NewFails \/ ContextDone
  <2>1. Exit /\ UNCHANGED panics /\ (Effect \/ UNCHANGED cluster)
    BY <1>7 DEF NewFails, ContextDone
  <2>2. ClusterTypeOK' /\ NewInv'
    BY <1>1, <2>1, EffectCases, ExitCalls
    DEF ClusterTypeOK, NewInv, DeploymentHasClaim, PanicsOnce
  <2> QED BY <1>1, <2>1, <2>2, ExitCalls
<1> QED BY <1>3, <1>4, <1>5, <1>6, <1>7 DEF New

-----------------------------------------------------------------------------
(* Push and Delete *)

\* A step that leaves the mutexes and buckets alone and does not lead into the
\* critical section.
LEMMA OutsideMutex ==
  ASSUME MinioInv, NEW g \in Goroutines,
         UNCHANGED <<muMap, mu, locked, buckets, doubled, conflicts>>,
         at' = [at EXCEPT ![g] = at'[g]], at'[g] \notin {"lock", "check", "make"},
         \/ UNCHANGED bucketName
         \/ at[g] = "idle" /\ bucketName' = [bucketName EXCEPT ![g] = bucketName'[g]]
  PROVE  MapInv' /\ MutexInv' /\ ConflictNeedsRace'
<1> SUFFICES ASSUME NEW h \in Goroutines, at'[h] \in {"lock", "check", "make"}
             PROVE  h # g /\ at'[h] = at[h] /\ bucketName'[h] = bucketName[h]
  BY DEF MinioInv, StoreInv, MapInv, MutexInv, ConflictNeedsRace
<1> QED BY DEF MinioInv, CallsTypeOK

\* Push or Delete is called.
LEMMA CallStep ==
  ASSUME MinioInv, NEW g \in Goroutines, NEW b \in Buckets, Call(g, b)
  PROVE  CallsTypeOK' /\ StoreInv'
<1>1. PICK p \in {"begin", "stat"} : at' = [at EXCEPT ![g] = p]
  BY DEF Call, Goto
<1>2. /\ at[g] = "idle" /\ bucketName' = [bucketName EXCEPT ![g] = b]
      /\ UNCHANGED <<store, guards, history>>
  BY DEF Call
<1>3. CallsTypeOK'
  BY <1>1, <1>2 DEF MinioInv, CallsTypeOK, Places, guards
<1>4. at'[g] = p /\ bucketName'[g] = b
  BY <1>1, <1>2 DEF MinioInv, CallsTypeOK
<1>5. MapInv' /\ MutexInv' /\ ConflictNeedsRace'
  BY <1>1, <1>2, <1>4, OutsideMutex DEF guards, store, history
<1>6. FileInv' /\ GhostNeedsRace'
  BY <1>1, <1>2 DEF MinioInv, CallsTypeOK, StoreInv, FileInv, GhostNeedsRace, store, history
<1> QED BY <1>3, <1>5, <1>6 DEF StoreInv

\* Whether there is a map is looked at before it is used.
LEMMA CheckMapStep ==
  ASSUME MinioInv, NEW g \in Goroutines, CheckMap(g)
  PROVE  CallsTypeOK' /\ StoreInv'
<1> USE DEF MinioInv
<1>1. PICK p \in {"create", "lookup"} : at' = [at EXCEPT ![g] = p]
  BY DEF CheckMap, Goto
<1>2. at[g] = "begin" /\ UNCHANGED <<store, bucketName, guards, history>>
  BY DEF CheckMap
<1>3. CallsTypeOK'
  BY <1>1, <1>2 DEF CallsTypeOK, Places, guards
<1>4. MapInv' /\ MutexInv' /\ ConflictNeedsRace'
  BY <1>1, <1>2, OutsideMutex DEF CallsTypeOK, guards, store, history
<1>5. FileInv' /\ GhostNeedsRace'
  BY <1>1, <1>2 DEF CallsTypeOK, StoreInv, FileInv, GhostNeedsRace, store, history
<1> QED BY <1>3, <1>4, <1>5 DEF StoreInv

\* A new map: all buckets that had a mutex have lost it.
LEMMA MakeMapStep ==
  ASSUME MinioInv, NEW g \in Goroutines, MakeMap(g)
  PROVE  CallsTypeOK' /\ StoreInv'
<1> USE DEF MinioInv
<1>1. /\ at[g] = "create" /\ hasMap' = TRUE /\ muMap' = NoMutexes
      /\ at' = [at EXCEPT ![g] = "lookup"]
      /\ doubled' = doubled \cup {b \in Buckets : muMap[b] # 0}
      /\ UNCHANGED <<store, bucketName, mu, mutexes, locked, conflicts, crossed, ghosts>>
  BY DEF MakeMap, Goto
<1>2. CallsTypeOK'
  BY <1>1, NoCallsType DEF CallsTypeOK, Places
<1>3. MapInv'
  <2> SUFFICES ASSUME NEW h \in Goroutines, at'[h] \in {"lock", "check", "make"}
               PROVE  mu'[h] # 0 /\ bucketName'[h] \in doubled'
    BY DEF MapInv
  <2>1. at[h] = at'[h] /\ mu[h] # 0 /\ bucketName[h] \in Buckets
    BY <1>1 DEF CallsTypeOK, StoreInv, MapInv
  <2>2. bucketName[h] \in doubled \/ muMap[bucketName[h]] # 0
    BY <2>1 DEF StoreInv, MapInv
  <2> QED BY <1>1, <2>1, <2>2
<1>4. MutexInv'
  BY <1>1 DEF CallsTypeOK, StoreInv, MutexInv, store
<1>5. FileInv' /\ ConflictNeedsRace' /\ GhostNeedsRace'
  BY <1>1 DEF CallsTypeOK, StoreInv, FileInv, ConflictNeedsRace, GhostNeedsRace, store
<1> QED BY <1>2, <1>3, <1>4, <1>5 DEF StoreInv

\* createBucketIfNotExists looks a mutex up in the map that nothing guards.
LEMMA LookupStep ==
  ASSUME MinioInv, NEW g \in Goroutines, LookupMutex(g)
  PROVE  CallsTypeOK' /\ StoreInv'
<1> USE DEF MinioInv
<1>1. /\ at[g] = "lookup" /\ bucketName[g] \in Buckets
      /\ mu' = [mu EXCEPT ![g] = muMap[bucketName[g]]]
      /\ at' = [at EXCEPT ![g] = IF muMap[bucketName[g]] = 0 THEN "store" ELSE "lock"]
      /\ UNCHANGED <<store, bucketName, hasMap, muMap, mutexes, locked, history>>
  BY DEF LookupMutex, Goto, CallsTypeOK
<1>2. muMap[bucketName[g]] \in Nat
  BY <1>1 DEF CallsTypeOK
<1>3. CallsTypeOK'
  BY <1>1, <1>2 DEF CallsTypeOK, Places
<1>4. MapInv'
  BY <1>1, <1>2 DEF CallsTypeOK, StoreInv, MapInv, history
<1>5. MutexInv'
  BY <1>1 DEF CallsTypeOK, StoreInv, MutexInv, store, history
<1>6. FileInv' /\ ConflictNeedsRace' /\ GhostNeedsRace'
  BY <1>1 DEF CallsTypeOK, StoreInv, FileInv, ConflictNeedsRace, GhostNeedsRace, store, history
<1> QED BY <1>3, <1>4, <1>5, <1>6 DEF StoreInv

\* The first mutex of a bucket is everybody's; the second makes the bucket doubled.
LEMMA StoreStep ==
  ASSUME MinioInv, NEW g \in Goroutines, StoreMutex(g)
  PROVE  CallsTypeOK' /\ StoreInv'
<1> USE DEF MinioInv
<1>1. /\ at[g] = "store" /\ bucketName[g] \in Buckets
      /\ mutexes' = mutexes + 1
      /\ mu' = [mu EXCEPT ![g] = mutexes + 1]
      /\ muMap' = [muMap EXCEPT ![bucketName[g]] = mutexes + 1]
      /\ doubled' = IF muMap[bucketName[g]] # 0 THEN doubled \cup {bucketName[g]} ELSE doubled
      /\ at' = [at EXCEPT ![g] = "lock"]
      /\ UNCHANGED <<store, bucketName, hasMap, locked, conflicts, crossed, ghosts>>
  BY DEF StoreMutex, Goto, CallsTypeOK
<1>2. CallsTypeOK'
  BY <1>1 DEF CallsTypeOK, Places
<1>3. MapInv'
  <2> SUFFICES ASSUME NEW h \in Goroutines, at'[h] \in {"lock", "check", "make"}
               PROVE  mu'[h] # 0 /\ (bucketName[h] \in doubled' \/ mu'[h] = muMap'[bucketName[h]])
    BY <1>1 DEF MapInv
  <2>1. CASE h = g
    BY <1>1, <2>1 DEF CallsTypeOK
  <2>2. CASE h # g
    <3>1. at[h] = at'[h] /\ mu'[h] = mu[h] /\ mu[h] # 0
      BY <1>1, <2>2 DEF CallsTypeOK, StoreInv, MapInv
    <3>2. bucketName[h] \in doubled \/ mu[h] = muMap[bucketName[h]]
      BY <3>1 DEF StoreInv, MapInv
    <3> QED BY <1>1, <3>1, <3>2 DEF CallsTypeOK
  <2> QED BY <2>1, <2>2
<1>4. MutexInv'
  BY <1>1 DEF CallsTypeOK, StoreInv, MutexInv, store
<1>5. FileInv' /\ ConflictNeedsRace' /\ GhostNeedsRace'
  BY <1>1 DEF CallsTypeOK, StoreInv, FileInv, ConflictNeedsRace, GhostNeedsRace, store
<1> QED BY <1>2, <1>3, <1>4, <1>5 DEF StoreInv

\* The mutex that was looked up or made is taken.
LEMMA LockStep ==
  ASSUME MinioInv, NEW g \in Goroutines, Lock(g)
  PROVE  CallsTypeOK' /\ StoreInv'
<1> USE DEF MinioInv
<1>1. /\ at[g] = "lock" /\ mu[g] \notin locked
      /\ locked' = locked \cup {mu[g]}
      /\ at' = [at EXCEPT ![g] = "check"]
      /\ UNCHANGED <<store, bucketName, hasMap, muMap, mu, mutexes, history>>
  BY DEF Lock, Goto
<1>2. CallsTypeOK'
  BY <1>1 DEF CallsTypeOK, Places
<1>3. MapInv'
  BY <1>1 DEF CallsTypeOK, StoreInv, MapInv, history
<1>4. \A h \in Goroutines : at[h] \in {"check", "make"} => mu[h] # mu[g]
  BY <1>1 DEF StoreInv, MutexInv
<1>5. MutexInv'
  BY <1>1, <1>4 DEF CallsTypeOK, StoreInv, MutexInv, store, history
<1>6. FileInv' /\ ConflictNeedsRace' /\ GhostNeedsRace'
  BY <1>1 DEF CallsTypeOK, StoreInv, FileInv, ConflictNeedsRace, GhostNeedsRace, store, history
<1> QED BY <1>2, <1>3, <1>5, <1>6 DEF StoreInv

\* A goroutine leaves the critical section.  The buckets of the others that are in it
\* are not the ones it may have made.
LEMMA UnlockStep ==
  ASSUME MinioInv, NEW g \in Goroutines, at[g] \in {"check", "make"},
         NEW p \in {"put", "idle"}, Unlock(g, p),
         buckets' = buckets \/ (at[g] = "make" /\ buckets' = buckets \cup {bucketName[g]}),
         conflicts' = conflicts \/ (at[g] = "make" /\ bucketName[g] \in buckets
                                    /\ conflicts' = conflicts \cup {bucketName[g]}),
         UNCHANGED <<files, bucketName, hasMap, muMap, mu, mutexes, doubled, crossed, ghosts>>
  PROVE  CallsTypeOK' /\ StoreInv'
<1> USE DEF MinioInv
<1>1. locked' = locked \ {mu[g]} /\ at' = [at EXCEPT ![g] = p]
  BY DEF Unlock, Goto
<1>2. CallsTypeOK'
  BY <1>1 DEF CallsTypeOK, Places
<1>3. MapInv'
  BY <1>1 DEF CallsTypeOK, StoreInv, MapInv
<1>4. MutexInv'
  <2> SUFFICES ASSUME NEW h \in Goroutines, at'[h] \in {"check", "make"}
               PROVE  /\ mu[h] \in locked'
                      /\ \A k \in Goroutines : at'[k] \in {"check", "make"} /\ mu[k] = mu[h] => k = h
                      /\ at'[h] = "make" => bucketName[h] \in doubled \/ bucketName[h] \notin buckets'
    BY DEF MutexInv
  <2>1. h # g /\ at[h] = at'[h]
    BY <1>1 DEF CallsTypeOK
  <2>2. mu[h] \in locked /\ mu[h] # mu[g]
    BY <2>1 DEF StoreInv, MutexInv
  <2>3. \A k \in Goroutines : at'[k] \in {"check", "make"} /\ mu[k] = mu[h] => k = h
    BY <1>1, <2>1 DEF CallsTypeOK, StoreInv, MutexInv
  <2>4. bucketName[h] \in doubled \/ bucketName[h] # bucketName[g]
    BY <2>1, <2>2 DEF StoreInv, MapInv
  <2> QED BY <1>1, <2>1, <2>2, <2>3, <2>4 DEF StoreInv, MutexInv
<1>6. FileInv' /\ GhostNeedsRace'
  BY <1>1 DEF CallsTypeOK, StoreInv, FileInv, GhostNeedsRace
<1>7. ConflictNeedsRace'
  BY DEF StoreInv, MutexInv, ConflictNeedsRace
<1> QED BY <1>2, <1>3, <1>4, <1>6, <1>7 DEF StoreInv

\* BucketExists, under the mutex.
LEMMA CheckStep ==
  ASSUME MinioInv, NEW g \in Goroutines, CheckBucket(g)
  PROVE  CallsTypeOK' /\ StoreInv'
<1> USE DEF MinioInv
<1>1. at[g] = "check" /\ UNCHANGED <<store, bucketName, hasMap, muMap, mu, mutexes, history>>
  BY DEF CheckBucket
<1>2. CASE Unlock(g, "put") \/ Unlock(g, "idle")
  BY <1>1, <1>2, UnlockStep DEF store, history
<1>3. CASE bucketName[g] \notin buckets /\ Goto(g, "make") /\ UNCHANGED locked
  <2>1. at' = [at EXCEPT ![g] = "make"]
    BY <1>3 DEF Goto
  <2>2. CallsTypeOK'
    BY <1>1, <1>3, <2>1 DEF CallsTypeOK, Places
  <2>3. MapInv' /\ MutexInv'
    BY <1>1, <1>3, <2>1 DEF CallsTypeOK, StoreInv, MapInv, MutexInv, store, history
  <2>4. FileInv' /\ ConflictNeedsRace' /\ GhostNeedsRace'
    BY <1>1, <2>1 DEF CallsTypeOK, StoreInv, FileInv, ConflictNeedsRace, GhostNeedsRace, store, history
  <2> QED BY <2>2, <2>3, <2>4 DEF StoreInv
<1> QED BY <1>2, <1>3 DEF CheckBucket

\* MakeBucket, under the mutex: it fails only for a bucket that another one, with
\* another mutex, made since it was looked for.
LEMMA MakeStep ==
  ASSUME MinioInv, NEW g \in Goroutines, MakeBucket(g)
  PROVE  CallsTypeOK' /\ StoreInv'
<1>1. at[g] = "make" /\ UNCHANGED <<files, bucketName, hasMap, muMap, mu, mutexes, doubled, crossed, ghosts>>
  BY DEF MakeBucket
<1>2. Unlock(g, "put") \/ Unlock(g, "idle")
  BY DEF MakeBucket
<1>3. /\ buckets' = buckets \/ buckets' = buckets \cup {bucketName[g]}
      /\ \/ conflicts' = conflicts
         \/ bucketName[g] \in buckets /\ conflicts' = conflicts \cup {bucketName[g]}
  BY DEF MakeBucket
<1> QED BY <1>1, <1>2, <1>3, UnlockStep

\* Put, Stat and Remove do not look at the mutex.
LEMMA FileStep ==
  ASSUME MinioInv, NEW g \in Goroutines, PutObject(g) \/ StatObject(g) \/ RemoveObject(g)
  PROVE  CallsTypeOK' /\ StoreInv'
<1> USE DEF MinioInv
<1>1. PICK p \in {"idle", "remove"} : at' = [at EXCEPT ![g] = p]
  BY DEF PutObject, StatObject, RemoveObject, Goto
<1>2. UNCHANGED <<buckets, bucketName, guards, doubled, conflicts>>
  BY DEF PutObject, StatObject, RemoveObject, store, history
<1>3. at[g] \in {"put", "stat", "remove"}
  BY DEF PutObject, StatObject, RemoveObject
<1>4. CallsTypeOK'
  BY <1>1, <1>2, <1>3 DEF CallsTypeOK, Places, guards
<1>5. MapInv' /\ MutexInv' /\ ConflictNeedsRace'
  BY <1>1, <1>2, OutsideMutex DEF CallsTypeOK, guards
<1>6. FileInv' /\ GhostNeedsRace'
  <2>1. CASE PutObject(g)
    BY <2>1 DEF PutObject, Goto, CallsTypeOK, StoreInv, FileInv, GhostNeedsRace, history
  <2>2. CASE StatObject(g)
    BY <2>2 DEF StatObject, Goto, CallsTypeOK, StoreInv, FileInv, GhostNeedsRace, store, history
  <2>3. CASE RemoveObject(g)
    <3>1. /\ at[g] = "remove" /\ at' = [at EXCEPT ![g] = "idle"]
          /\ files' = files \/ files' = files \ {bucketName[g]}
          /\ ghosts' = ghosts \/ (bucketName[g] \notin files /\ ghosts' = ghosts \cup {bucketName[g]})
          /\ crossed \subseteq crossed'
      BY <2>3 DEF RemoveObject, Goto
    <3>2. ASSUME NEW h \in Goroutines \ {g}, at[h] = "remove", bucketName[h] = bucketName[g]
          PROVE  bucketName[g] \in crossed'
      BY <2>3, <3>2 DEF RemoveObject
    <3>3. FileInv'
      BY <1>2, <3>1, <3>2 DEF CallsTypeOK, StoreInv, FileInv
    <3>4. GhostNeedsRace'
      BY <3>1 DEF StoreInv, FileInv, GhostNeedsRace
    <3> QED BY <3>3, <3>4
  <2> QED BY <2>1, <2>2, <2>3
<1> QED BY <1>4, <1>5, <1>6 DEF StoreInv

-----------------------------------------------------------------------------
(* The invariant *)

LEMMA MinioStep == MinioInv /\ [Next]_vars => MinioInv'
<1> SUFFICES ASSUME MinioInv, [Next]_vars PROVE MinioInv'
  OBVIOUS
<1>1. ASSUME UNCHANGED <<pc, volume, claim, deployment, service, panics>>
      PROVE  ClusterTypeOK' /\ NewInv'
  BY <1>1 DEF MinioInv, ClusterTypeOK, NewInv, DeploymentHasClaim, PanicsOnce
<1>2. CASE New \/ (ContextDone /\ UNCHANGED <<store, history, runs>>)
  BY <1>2, NewStep
<1>3. CASE Rerun
  <2>1. ClusterTypeOK' /\ NewInv'
    BY <1>3 DEF Rerun, cluster, MinioInv, ClusterTypeOK, NewSteps, NewInv, DeploymentHasClaim, PanicsOnce
  <2> QED BY <1>3, <2>1, StoreFrame DEF Rerun, MinioInv
<1>4. CASE PodReady \/ AssignAddress
  BY <1>1, <1>4, StoreFrame DEF PodReady, AssignAddress, MinioInv
<1>5. ASSUME NEW g \in Goroutines, Work(g) PROVE MinioInv'
  BY <1>1, <1>5, CheckMapStep, MakeMapStep, LookupStep, StoreStep, LockStep, CheckStep, MakeStep, FileStep
  DEF Work, Step, cluster, MinioInv
<1>6. ASSUME NEW g \in Goroutines, NEW b \in Buckets, Call(g, b), UNCHANGED <<pc, cluster, panics, runs>>
      PROVE  MinioInv'
  BY <1>1, <1>6, CallStep DEF cluster, MinioInv
<1>7. CASE ConcurrentMapAccess
  <2>1. Exit /\ UNCHANGED <<cluster, store, history, panics>>
    BY <1>7 DEF ConcurrentMapAccess
  <2>2. ClusterTypeOK' /\ NewInv'
    BY <2>1, ExitCalls DEF cluster, MinioInv, ClusterTypeOK, NewInv, DeploymentHasClaim, PanicsOnce
  <2> QED BY <2>1, <2>2, ExitCalls DEF MinioInv
<1>8. CASE UNCHANGED vars
  BY <1>1, <1>8, StoreFrame DEF vars, cluster, MinioInv
<1> QED BY <1>2, <1>3, <1>4, <1>5, <1>6, <1>7, <1>8 DEF Next

\* The invariant holds over any number of runs, of calls and of failures.
LEMMA MinioInvHolds == Spec => []MinioInv
BY MinioInit, MinioStep, PTL DEF Spec

\* createOrUpdateDeployment makes the claim first: wherever New failed, died or was run
\* again, a deployment in the cluster has the claim that the update does not look for.
THEOREM DeploymentsHaveClaims == Spec => []DeploymentHasClaim
<1>1. MinioInv => DeploymentHasClaim
  BY DEF MinioInv, NewInv
<1> QED BY <1>1, MinioInvHolds, PTL

\* createPVC dereferences nil at most once in any number of runs.
THEOREM NilOnce == Spec => []PanicsOnce
<1>1. MinioInv => PanicsOnce
  BY DEF MinioInv, NewInv
<1> QED BY <1>1, MinioInvHolds, PTL

\* createBucketIfNotExists: the mutexes keep any number of pushes from making a bucket
\* twice, unless one was replaced in the map they are kept in, or lost with that map.
THEOREM ConflictsAreRaces == Spec => []ConflictNeedsRace
<1>1. MinioInv => ConflictNeedsRace
  BY DEF MinioInv, StoreInv
<1> QED BY <1>1, MinioInvHolds, PTL

\* Delete reports success for a file that was not there only if another Delete got
\* between its lookup and its removal.
THEOREM GhostsAreRaces == Spec => []GhostNeedsRace
<1>1. MinioInv => GhostNeedsRace
  BY DEF MinioInv, StoreInv
<1> QED BY <1>1, MinioInvHolds, PTL
=============================================================================
