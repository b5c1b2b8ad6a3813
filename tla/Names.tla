-------------------------------- MODULE Names --------------------------------
(***************************************************************************)
(* Names and clones of instances (pkg/instance/instance.go, sidecars.go,   *)
(* pkg/system/dependencies.go).  The names that are taken are kept in a    *)
(* map that all goroutines of a test share.  SetName looks a name up and   *)
(* stores it in two steps; New, Add and CloneWithName claim one or two     *)
(* names that way and stop at the first that is refused, and so does       *)
(* preloader.New, for good (what a preloader is for is in module           *)
(* Preloader).  The objects of an instance in the cluster are found by its *)
(* name, whatever it is then.                                              *)
(*                                                                         *)
(* One goroutine at a time uses an instance and its sidecar.  An instance  *)
(* is committed as soon as it has its name (module Image has that part),   *)
(* has a port and at most one sidecar; how Start and Stop make their calls *)
(* is in module Instance.                                                  *)
(***************************************************************************)
EXTENDS Sanitize

CONSTANTS
  Goroutines,
  MaxInstances,   \* bound: instances that exist
  MaxRenames,     \* bound: calls of SetName by the test, and of preloader.New
  MaxRawLen       \* bound: length of a name that a test asks for

ASSUME NamesAssumption == {MaxInstances, MaxRenames, MaxRawLen} \subseteq Nat

Ids == 1..MaxInstances

NoId == 0

VARIABLES
  registry,     \* SystemDependencies.instancesMap
  status,       \* status[i]: unused, in the making, at hand, or an orphan of a failed call
  name, state, isSidecar,
  sidecar,      \* sidecar[i]: the sidecar of i, or NoId
  job,          \* job[g]: the call goroutine g is in
  preloading,   \* the name that preloader.New has found free and not yet stored, or none
  preloaders,   \* the names of preloaders
  pods, services,  \* the names under which the cluster has one
  panicked,     \* SanitizeName has panicked
  raced,        \* history: names stored by two goroutines that had both found them free
  renamed,      \* history: instances renamed after they were started
  unstarted,    \* history: instances cloned from one that was stopped
  renames       \* renames and preloaders so far

instances == <<status, name, state, isSidecar, sidecar>>
cluster == <<pods, services>>
preloads == <<preloading, preloaders>>
history == <<raced, renamed, unstarted, renames>>
vars == <<registry, instances, job, preloads, cluster, panicked, history>>

\* The names that tests ask for, and what becomes of them: the name of the instance
\* and the name of the sidecar that is cloned with it, whose prefix is the name as the
\* test gave it.  (A set of values: it is computed once.)
RawNames == UNION {[1..n -> Characters] : n \in 1..MaxRawLen}

Suffix == <<"-", "a">>

Requests == {[name |-> SanitizeName(r), sidecar |-> SanitizeName(r \o Suffix)] : r \in RawNames}

\* A call: what it is, the instance it was made on, the instances it makes, the names
\* it still has to claim, and whether the first of them was found free.
Job(op, on, fresh, claims) ==
  [op |-> op, on |-> on, fresh |-> fresh, claims |-> claims, free |-> op # "idle"]

Idle == Job("idle", NoId, {}, <<>>)

Claim(i, n) == [inst |-> i, name |-> n]

Init ==
  /\ registry = {}
  /\ status = [i \in Ids |-> "unused"]
  /\ name = [i \in Ids |-> <<>>]
  /\ state = [i \in Ids |-> "Committed"]
  /\ isSidecar = [i \in Ids |-> FALSE]
  /\ sidecar = [i \in Ids |-> NoId]
  /\ job = [g \in Goroutines |-> Idle]
  /\ preloading = <<>> /\ preloaders = {}
  /\ pods = {} /\ services = {}
  /\ panicked = FALSE
  /\ raced = {} /\ renamed = {} /\ unstarted = {}
  /\ renames = 0

Live == {i \in Ids : status[i] = "live"}

Unused == {i \in Ids : status[i] = "unused"}

\* One of the ids S: which one makes no difference.
Pick(S) == CHOOSE i \in S : TRUE

\* i and its sidecar
Family(i) == {i, sidecar[i]} \ {NoId}

\* No goroutine is in a call on i, on its parent or on its sidecar.
Quiet(i) ==
  \A g \in Goroutines, j \in Live :
    i \in Family(j) \/ j \in Family(i) => job[g].on # j

-----------------------------------------------------------------------------
(* The calls that claim names *)

\* Goroutine g makes a call that claims names for the fresh instances.  It returns at
\* once if the first of them is taken.
Begin(g, op, on, fresh, claims) ==
  /\ job[g] = Idle
  /\ claims[1].name \notin registry
  /\ IF <<>> \in {claims[k].name : k \in DOMAIN claims}
     THEN panicked' = TRUE /\ UNCHANGED <<job, status>>
     ELSE /\ job' = [job EXCEPT ![g] = Job(op, on, fresh, claims)]
          /\ status' = [i \in Ids |-> IF i \in fresh THEN "making" ELSE status[i]]
          /\ UNCHANGED panicked
  /\ renames' = IF op = "rename" THEN renames + 1 ELSE renames
  /\ UNCHANGED <<registry, name, state, isSidecar, sidecar, preloads, cluster, raced, renamed, unstarted>>

New(g, r) ==
  /\ Unused # {}
  /\ LET i == Pick(Unused) IN Begin(g, "new", NoId, {i}, <<Claim(i, r.name)>>)

\* SetName called by the test, in any state.
Rename(g, i, r) ==
  /\ i \in Live /\ Quiet(i)
  /\ renames < MaxRenames
  /\ Begin(g, "rename", i, {}, <<Claim(i, r.name)>>)

\* Add: the sidecar is initialized, with a name of its own, before it is found out
\* whether i may have one.
Add(g, i) ==
  /\ i \in Live /\ Quiet(i)
  /\ state[i] \in {"Committed", "Stopped"}
  /\ sidecar[i] = NoId
  /\ Unused # {}
  /\ LET s == Pick(Unused)
     IN  Begin(g, "add", i, {s}, <<Claim(s, SanitizeName(name[i] \o Suffix))>>)

\* Mutant: an instance can be cloned in any state.
Always(i) == TRUE

Cloneable(i) == state[i] \in {"Committed", "Stopped"}

\* The sidecar is cloned before the instance.
CloneWithName(g, i, r) ==
  /\ i \in Live /\ Quiet(i)
  /\ Cloneable(i)
  /\ Unused # {}
  /\ LET c == Pick(Unused)
         s == Pick(Unused \ {c})
     IN  IF sidecar[i] = NoId
         THEN Begin(g, "clone", i, {c}, <<Claim(c, r.name)>>)
         ELSE /\ sidecar[sidecar[i]] = NoId
              /\ Cloneable(sidecar[i])
              /\ Unused # {c}
              /\ Begin(g, "clone", i, {c, s}, <<Claim(s, r.sidecar), Claim(c, r.name)>>)

CloneWithSuffix(g, i) ==
  LET prefix == name[i] \o Suffix
  IN  CloneWithName(g, i, [name |-> SanitizeName(prefix), sidecar |-> SanitizeName(prefix \o Suffix)])

-----------------------------------------------------------------------------
(* SetName *)

\* HasInstanceName for the second name of a call: one that is taken ends the call.  What
\* the call has made so far is lost to the test, and keeps its name.
HasInstanceName(g) ==
  /\ job[g] # Idle /\ ~job[g].free
  /\ IF job[g].claims[1].name \in registry
     THEN /\ job' = [job EXCEPT ![g] = Idle]
          /\ status' = [i \in Ids |->
               IF i \notin job[g].fresh THEN status[i]
               ELSE IF name[i] = <<>> THEN "unused" ELSE "orphan"]
     ELSE job' = [job EXCEPT ![g].free = TRUE] /\ UNCHANGED status
  /\ UNCHANGED <<registry, name, state, isSidecar, sidecar, preloads, cluster, panicked, history>>

\* Mutant: the old name is not given back.
KeepOldName(new, old) == registry \cup {new}

\* Mutant: the name is set before the old one is given back.
RemoveNewName(new, old) == (registry \cup {new}) \ (IF old = <<>> THEN {} ELSE {new})

\* AddInstanceName and RemoveInstanceName
Registered(new, old) == (registry \cup {new}) \ {old}

\* The name is stored and set.  A call with names left to claim goes on with the next.
AddInstanceName(g) ==
  LET i == job[g].claims[1].inst
      n == job[g].claims[1].name
  IN  /\ job[g].free
      /\ registry' = Registered(n, name[i])
      /\ raced' = IF n \in registry THEN raced \cup {n} ELSE raced
      /\ renamed' = IF job[g].op = "rename" /\ state[i] # "Committed" THEN renamed \cup {i} ELSE renamed
      /\ name' = [name EXCEPT ![i] = n]
      /\ UNCHANGED <<preloads, cluster, panicked, renames>>

\* The end of New, Add and CloneWithName for the instances they have made.
Finish(g) ==
  LET i == job[g].on
      c == job[g].claims[1].inst
      ids == job[g].fresh
  IN  CASE job[g].op = "add" ->
             \* Initialize marks its instance; Add may refuse it then
             /\ isSidecar' = [isSidecar EXCEPT ![c] = TRUE]
             /\ IF isSidecar[i]
                THEN status' = [status EXCEPT ![c] = "orphan"] /\ UNCHANGED sidecar
                ELSE status' = [status EXCEPT ![c] = "live"] /\ sidecar' = [sidecar EXCEPT ![i] = c]
             /\ UNCHANGED <<state, unstarted>>
        [] job[g].op = "clone" ->
             \* the state is copied, the mark of a sidecar and its parent are not
             /\ status' = [j \in Ids |-> IF j \in ids THEN "live" ELSE status[j]]
             /\ state' = [j \in Ids |-> IF j \in ids THEN state[i] ELSE state[j]]
             /\ sidecar' = [sidecar EXCEPT ![c] = IF ids = {c} THEN NoId ELSE Pick(ids \ {c})]
             /\ unstarted' = IF state[i] = "Stopped" THEN unstarted \cup ids ELSE unstarted
             /\ UNCHANGED isSidecar
        [] OTHER ->
             /\ status' = [j \in Ids |-> IF j \in ids THEN "live" ELSE status[j]]
             /\ UNCHANGED <<state, isSidecar, sidecar, unstarted>>

SetName(g) ==
  \/ HasInstanceName(g)
  \/ /\ AddInstanceName(g)
     /\ IF Len(job[g].claims) = 1
        THEN Finish(g) /\ job' = [job EXCEPT ![g] = Idle]
        ELSE /\ job' = [job EXCEPT ![g].claims = Tail(@), ![g].free = FALSE]
             /\ UNCHANGED <<status, state, isSidecar, sidecar, unstarted>>

-----------------------------------------------------------------------------
(* Preloaders *)

\* preloader.New looks its name up among those of the instances, in a goroutine of its own,
NewPreloader(r) ==
  /\ preloading = <<>>
  /\ renames < MaxRenames
  /\ r.name \notin registry
  /\ IF r.name = <<>>
     THEN panicked' = TRUE /\ UNCHANGED preloading
     ELSE preloading' = r.name /\ UNCHANGED panicked
  /\ renames' = renames + 1
  /\ UNCHANGED <<registry, instances, job, preloaders, cluster, raced, renamed, unstarted>>

\* and stores it.  Nothing takes it back, not Cleanup either.
AddPreloader ==
  /\ preloading # <<>>
  /\ registry' = registry \cup {preloading}
  /\ raced' = IF preloading \in registry THEN raced \cup {preloading} ELSE raced
  /\ preloaders' = preloaders \cup {preloading}
  /\ preloading' = <<>>
  /\ UNCHANGED <<instances, job, cluster, panicked, renamed, unstarted, renames>>

-----------------------------------------------------------------------------
(* Start and Stop *)

SetState(i, st) == state' = [j \in Ids |-> IF j \in Family(i) THEN st ELSE state[j]]

NamesOf(ids) == {name[i] : i \in ids}

\* Mutant: the states of the sidecars are not looked at.
StartableAlone(i) == state[i] \in {"Committed", "Stopped"} /\ ~isSidecar[i]

\* verifySidecarsStates is part of it.
Startable(i) ==
  /\ \A j \in Family(i) : state[j] \in {"Committed", "Stopped"}
  /\ ~isSidecar[i]

\* Resources are deployed in state Committed only; a service for whoever is not marked
\* as a sidecar.  A pod of that name, whoever made it, makes Start fail then.
StartAsync(i) ==
  /\ i \in Live /\ Quiet(i)
  /\ Startable(i)
  /\ IF state[i] = "Committed"
     THEN services' = services \cup NamesOf({j \in Family(i) : ~isSidecar[j]})
     ELSE UNCHANGED services
  /\ IF name[i] \in pods
     THEN UNCHANGED <<pods, state>>
     ELSE pods' = pods \cup {name[i]} /\ SetState(i, "Started")
  /\ UNCHANGED <<registry, status, name, isSidecar, sidecar, job, preloads, panicked, history>>

\* Without its pod the instance is not stopped: the service account is missing.
Stop(i) ==
  /\ i \in Live /\ Quiet(i)
  /\ state[i] = "Started"
  /\ name[i] \in pods
  /\ pods' = pods \ {name[i]}
  /\ SetState(i, "Stopped")
  /\ UNCHANGED <<registry, status, name, isSidecar, sidecar, job, preloads, services, panicked, history>>

-----------------------------------------------------------------------------

Call(g) ==
  \/ \E r \in Requests :
       \/ New(g, r)
       \/ \E i \in Ids : Rename(g, i, r) \/ CloneWithName(g, i, r)
  \/ \E i \in Ids : Add(g, i) \/ CloneWithSuffix(g, i)

Next ==
  /\ ~panicked
  /\ \/ \E g \in Goroutines : Call(g) \/ SetName(g)
     \/ \E i \in Ids : StartAsync(i) \/ Stop(i)
     \/ \E r \in Requests : NewPreloader(r)
     \/ AddPreloader

Spec == Init /\ [][Next]_vars

\* Goroutines are alike (for TLC).
GoroutineSymmetry == Permutations(Goroutines)

-----------------------------------------------------------------------------
(* Properties *)

\* A name that SetName has accepted, cut, lower-cased or taken from a clone's suffix, is
\* one that the API client accepts, and asking for it again means the same name.
RegisteredNamesAreValid ==
  \A n \in registry : ValidName(n) /\ SanitizeName(n) = n

\* Two instances have one name, or an instance that of a preloader, or the name of an
\* instance is free for others, only if two goroutines have raced for it: renames, clones
\* and failed calls give no name away that is in use.
NamesAreUnique ==
  \A i \in Live :
    \/ /\ name[i] \in registry \ preloaders
       /\ \A j \in Live \ {i} : name[j] # name[i]
    \/ name[i] \in raced

\* A name is refused only if a preloader was ever given it, which nothing takes back, or
\* an instance has it: the old name of an instance is free again.  Instances that were
\* made by a call that failed later count: their names are lost to the test.
NamesAreReclaimed ==
  registry \subseteq {name[i] : i \in Ids \ Unused} \cup preloaders

\* A pod has its instance, in state Started, unless that was renamed: nobody else
\* declares it stopped, not even a parent whose sidecar, being a clone, has a pod.
PodsHaveOwners ==
  pods \subseteq {name[i] : i \in {j \in Live : state[j] = "Started"}} \/ renamed # {}

\* A started instance has a pod and a service, under the name it has, unless it was
\* renamed after it had been started, shares its name since a race, or is the clone of
\* a stopped one.
StartedMeansDeployed ==
  \A i \in Live \ renamed :
    (state[i] = "Started" /\ name[i] \notin raced /\ \A j \in Live : sidecar[j] # i)
      => name[i] \in pods /\ (i \notin unstarted => name[i] \in services)

-----------------------------------------------------------------------------
(* What a comment of the code says, and the code does not do *)

\* resources.go: "only a non-sidecar instance should deploy a service, all sidecars will
\* use the parent instance's service".
SidecarsUseParentsService ==
  \A i \in Live : sidecar[i] # NoId => name[sidecar[i]] \notin services
=============================================================================
