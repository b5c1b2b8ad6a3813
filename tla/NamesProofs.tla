---------------------------- MODULE NamesProofs ----------------------------
(***************************************************************************)
(* Proofs about modules Names and Sanitize, for any goroutines, any number *)
(* of instances and renames, and names of any length.  All theorems but    *)
(* the last one hold whatever SanitizeName makes of a name.                *)
(***************************************************************************)
EXTENDS Names, FiniteSetTheorems, SequenceTheorems, WellFoundedInduction, TLAPS

-----------------------------------------------------------------------------
(* The inductive invariant *)

States == {"Committed", "Started", "Stopped"}

NamesTypeOK ==
  /\ status \in [Ids -> {"unused", "making", "live", "orphan"}]
  /\ name = [i \in Ids |-> name[i]]
  /\ state \in [Ids -> States]
  /\ isSidecar \in [Ids -> BOOLEAN]
  /\ sidecar \in [Ids -> Ids \cup {NoId}]
  /\ job = [g \in Goroutines |-> job[g]]

\* An instance at hand has its name, and only those are started.  One that is not made yet
\* is no part of a family, and no sidecar.
IdInv ==
  \A i \in Ids :
    /\ status[i] = "unused" => name[i] = <<>>
    /\ status[i] = "live" => name[i] # <<>>
    /\ status[i] # "live" => state[i] = "Committed"
    /\ status[i] \in {"unused", "making"} =>
         /\ sidecar[i] = NoId /\ state[i] = "Committed" /\ ~isSidecar[i]
         /\ \A j \in Ids : sidecar[j] # i

\* A sidecar has one parent, both are at hand, and a sidecar of a sidecar was made by
\* Add: it is marked.
FamilyInv ==
  /\ \A i \in Ids : sidecar[i] # NoId =>
       /\ status[i] = "live" /\ status[sidecar[i]] = "live"
       /\ sidecar[i] # i /\ sidecar[sidecar[i]] # i
       /\ sidecar[sidecar[i]] # NoId => isSidecar[sidecar[sidecar[i]]]
  /\ \A i, j \in Ids : sidecar[i] # NoId /\ sidecar[i] = sidecar[j] => i = j

First(g) == job[g].claims[1]

Second(g) == job[g].claims[2]

\* What a call makes and claims.  A clone with a sidecar claims the name of the sidecar
\* first; the second name has not been looked up then.
Shape(g) ==
  LET j == job[g] IN
  \/ j.op = "new" /\ j.on = NoId /\ j.claims = <<First(g)>> /\ j.fresh = {First(g).inst}
  \/ j.op = "rename" /\ j.on = First(g).inst /\ j.claims = <<First(g)>> /\ j.fresh = {}
  \/ j.op \in {"add", "clone"} /\ j.claims = <<First(g)>> /\ j.fresh = {First(g).inst}
  \/ /\ j.op = "clone" /\ j.claims = <<First(g)>>
     /\ \E s \in Ids \ {First(g).inst} : name[s] # <<>> /\ j.fresh = {First(g).inst, s}
  \/ /\ j.op = "clone" /\ j.claims = <<First(g), Second(g)>> /\ j.free
     /\ Second(g).inst # First(g).inst /\ Second(g).inst \in Ids /\ Second(g).name # <<>>
     /\ j.fresh = {First(g).inst, Second(g).inst}

\* A call works on an instance at hand, which nobody starts or stops meanwhile.
Working(g) ==
  LET j == job[g] IN
  /\ j = [op |-> j.op, on |-> j.on, fresh |-> j.fresh, claims |-> j.claims, free |-> j.free]
  /\ Shape(g)
  /\ First(g).inst \in Ids /\ First(g).name # <<>>
  /\ \A i \in j.fresh : status[i] = "making"
  /\ j.op # "new" => j.on \in Ids /\ status[j.on] = "live"
  /\ j.op \in {"add", "clone"} => state[j.on] \in {"Committed", "Stopped"}
  /\ j.op = "add" => sidecar[j.on] = NoId

JobInv ==
  /\ \A g \in Goroutines : job[g] = Idle \/ Working(g)
  /\ \A g, h \in Goroutines : g # h =>
       /\ job[g].fresh \cap job[h].fresh = {}
       /\ job[g].on = job[h].on => job[g].on = NoId

\* A name that is in use, by an instance or a preloader, is taken and used once, unless two
\* goroutines have raced for it.  A name that is taken is in use.
NameInv ==
  /\ <<>> \notin registry
  /\ \A i \in Ids :
       name[i] # <<>> =>
         \/ name[i] \in registry \ preloaders /\ \A j \in Ids \ {i} : name[j] # name[i]
         \/ name[i] \in raced
  /\ preloaders \subseteq registry \cup raced
  /\ registry \subseteq NamesOf(Ids) \cup preloaders

-----------------------------------------------------------------------------
(* Who has a pod *)

Parentless(i) == \A p \in Ids : sidecar[p] = i => state[p] # "Started"

\* The instances named n that are up by themselves, and those whose parent is up but that
\* were stopped: each of them may be started again beside its parent.
Up(n) ==
  {i \in Ids : name[i] = n /\ state[i] = "Started" /\ ~isSidecar[i] /\ Parentless(i)}

Down(n) ==
  {i \in Ids : name[i] = n /\ state[i] # "Started" /\ ~isSidecar[i] /\ ~Parentless(i)}

\* As long as nobody is renamed after a start, each pod has an instance that is up by
\* itself, and so has each sidecar that was stopped while its parent is up, another one.
Ledger(U, D, pod) == Cardinality(U) >= Cardinality(D) + (IF pod THEN 1 ELSE 0)

Balanced(n) == Ledger(Up(n), Down(n), n \in pods)

BalanceInv ==
  renamed = {} =>
    /\ \A n : Balanced(n)
    /\ \A p \in Ids :
         state[p] = "Started" /\ sidecar[p] # NoId /\ ~isSidecar[sidecar[p]] =>
           state[sidecar[p]] # "Committed"

\* A started instance that is no sidecar has its pod, and once it was started its service.
Deployed(i) ==
  status[i] = "live" /\ i \notin renamed /\ name[i] \notin raced /\ (\A j \in Ids : sidecar[j] # i) =>
    /\ state[i] = "Started" => name[i] \in pods
    /\ state[i] # "Committed" /\ i \notin unstarted => name[i] \in services

DeployInv == \A i \in Ids : Deployed(i)

Safe ==
  /\ NamesTypeOK
  /\ IdInv
  /\ FamilyInv
  /\ JobInv
  /\ NameInv

-----------------------------------------------------------------------------
(* The steps *)

\* What stands for nil is no instance.
LEMMA NoIdOut == NoId \notin Ids
BY DEF NoId, Ids

\* The pick from a set is in the set.
LEMMA PickType ==
  ASSUME NEW S, S # {}
  PROVE  Pick(S) \in S
BY DEF Pick

\* No goroutine is in a call on an instance that is quiet, nor on its family.
LEMMA QuietFacts ==
  ASSUME NEW i \in Live, Quiet(i), NEW g \in Goroutines, job[g].on \in Live
  PROVE  job[g].on # i /\ job[g].on \notin Family(i) /\ i \notin Family(job[g].on)
BY NoIdOut DEF Quiet, Family, Live

\* A call begins.
Begun(g) ==
  /\ job[g] = Idle
  /\ job' = [job EXCEPT ![g] = job'[g]]
  /\ job'[g].fresh \subseteq Unused
  /\ status' = [i \in Ids |-> IF i \in job'[g].fresh THEN "making" ELSE status[i]]
  /\ Working(g)'
  /\ \A h \in Goroutines : job'[g].on = job[h].on => job'[g].on = NoId

\* Begin panics, or takes the fresh instances and the claims.
Taken(g, op, on, fresh, claims) ==
  /\ job[g] = Idle
  /\ job' = [job EXCEPT ![g] = job'[g]]
  /\ job'[g] = [op |-> op, on |-> on, fresh |-> fresh, claims |-> claims, free |-> TRUE]
  /\ status' = [i \in Ids |-> IF i \in fresh THEN "making" ELSE status[i]]
  /\ \A k \in DOMAIN claims : claims[k].name # <<>>

\* A call begins: either it is refused, for an empty name, or it has taken the
\* identities it needs and has all its names yet to claim.
LEMMA BeginStep ==
  ASSUME NamesTypeOK, NEW g \in Goroutines, NEW op, NEW on, NEW fresh, NEW claims,
         Begin(g, op, on, fresh, claims), op # "idle"
  PROVE  /\ UNCHANGED <<registry, name, state, isSidecar, sidecar, preloads, cluster, raced, renamed, unstarted>>
         /\ UNCHANGED <<job, status>> \/ Taken(g, op, on, fresh, claims)
<1>1. UNCHANGED <<registry, name, state, isSidecar, sidecar, preloads, cluster, raced, renamed, unstarted>>
  BY DEF Begin
<1>2. CASE <<>> \in {claims[k].name : k \in DOMAIN claims}
  BY <1>1, <1>2 DEF Begin
<1>3. CASE <<>> \notin {claims[k].name : k \in DOMAIN claims}
  <2>1. /\ job[g] = Idle
        /\ job' = [job EXCEPT ![g] = Job(op, on, fresh, claims)]
        /\ status' = [i \in Ids |-> IF i \in fresh THEN "making" ELSE status[i]]
    BY <1>3 DEF Begin
  <2>2. job'[g] = Job(op, on, fresh, claims)
    BY <2>1 DEF NamesTypeOK
  <2>3. Job(op, on, fresh, claims) =
          [op |-> op, on |-> on, fresh |-> fresh, claims |-> claims, free |-> TRUE]
    BY DEF Job
  <2> QED BY <1>1, <1>3, <2>1, <2>2, <2>3 DEF Taken
<1> QED BY <1>2, <1>3

\* New, SetName, Add and the clones begin on a quiet instance, with unused ids.
LEMMA CallStep ==
  ASSUME Safe, NEW g \in Goroutines, Call(g)
  PROVE  /\ UNCHANGED <<registry, name, state, isSidecar, sidecar, preloads, cluster, raced, renamed, unstarted>>
         /\ UNCHANGED <<job, status>> \/ Begun(g)
<1> USE DEF Safe
<1> DEFINE Goal == /\ UNCHANGED <<registry, name, state, isSidecar, sidecar, preloads, cluster, raced, renamed, unstarted>>
                   /\ UNCHANGED <<job, status>> \/ Begun(g)
<1>1. \A h \in Goroutines : job[h].on \in Live \cup {NoId}
  <2> SUFFICES ASSUME NEW h \in Goroutines PROVE job[h].on \in Live \cup {NoId}
    OBVIOUS
  <2>1. CASE job[h] = Idle
    BY <2>1 DEF Idle, Job
  <2>2. CASE Working(h)
    BY <2>2 DEF Working, Shape, Live
  <2> QED BY <2>1, <2>2 DEF JobInv
<1>2. ASSUME NEW r, New(g, r) PROVE Goal
  <2> DEFINE i == Pick(Unused)
  <2>1. i \in Unused /\ Begin(g, "new", NoId, {i}, <<Claim(i, r.name)>>)
    BY <1>2, PickType DEF New
  <2>2. CASE UNCHANGED <<job, status>>
    BY <2>1, <2>2, BeginStep
  <2>3. CASE ~UNCHANGED <<job, status>>
    <3> DEFINE claims == <<Claim(i, r.name)>>
    <3> HIDE DEF i, claims
    <3>0. /\ UNCHANGED <<registry, name, state, isSidecar, sidecar, preloads, cluster, raced, renamed, unstarted>>
          /\ Taken(g, "new", NoId, {i}, claims)
      BY <2>1, <2>3, BeginStep DEF claims
    <3>1. /\ UNCHANGED <<registry, name, state, isSidecar, sidecar, preloads, cluster, raced, renamed, unstarted>>
          /\ job[g] = Idle /\ job' = [job EXCEPT ![g] = job'[g]]
          /\ job'[g] = [op |-> "new", on |-> NoId, fresh |-> {i}, claims |-> claims, free |-> TRUE]
          /\ status' = [j \in Ids |-> IF j \in {i} THEN "making" ELSE status[j]]
          /\ \A k \in DOMAIN claims : claims[k].name # <<>>
      BY <3>0 DEF Taken
    <3>2. claims = <<claims[1]>> /\ claims[1].inst = i /\ 1 \in DOMAIN claims /\ i \in Ids
      BY <2>1 DEF claims, Claim, Unused
    <3>3. Working(g)'
      BY <3>1, <3>2 DEF Working, Shape, First
    <3> QED BY <2>1, <3>1, <3>3 DEF Begun
  <2> QED BY <2>2, <2>3
<1>3. ASSUME NEW i \in Ids, NEW r, Rename(g, i, r) PROVE Goal
  <2>1. i \in Live /\ Quiet(i) /\ Begin(g, "rename", i, {}, <<Claim(i, r.name)>>)
    BY <1>3 DEF Rename
  <2>2. CASE UNCHANGED <<job, status>>
    BY <2>1, <2>2, BeginStep
  <2>3. CASE ~UNCHANGED <<job, status>>
    <3> DEFINE claims == <<Claim(i, r.name)>>
    <3> HIDE DEF claims
    <3>0. /\ UNCHANGED <<registry, name, state, isSidecar, sidecar, preloads, cluster, raced, renamed, unstarted>>
          /\ Taken(g, "rename", i, {}, claims)
      BY <2>1, <2>3, BeginStep DEF claims
    <3>1. /\ UNCHANGED <<registry, name, state, isSidecar, sidecar, preloads, cluster, raced, renamed, unstarted>>
          /\ job[g] = Idle /\ job' = [job EXCEPT ![g] = job'[g]]
          /\ job'[g] = [op |-> "rename", on |-> i, fresh |-> {}, claims |-> claims, free |-> TRUE]
          /\ status' = [j \in Ids |-> IF j \in {} THEN "making" ELSE status[j]]
          /\ \A k \in DOMAIN claims : claims[k].name # <<>>
      BY <3>0 DEF Taken
    <3>2. claims = <<claims[1]>> /\ claims[1].inst = i /\ 1 \in DOMAIN claims
      BY DEF claims, Claim
    <3>3. Working(g)'
      BY <2>1, <3>1, <3>2 DEF Working, Shape, First, Live
    <3>4. \A h \in Goroutines : job[h].on # i
      BY <1>1, <2>1, QuietFacts, NoIdOut
    <3> QED BY <3>1, <3>3, <3>4 DEF Begun
  <2> QED BY <2>2, <2>3
<1>4. ASSUME NEW i \in Ids, Add(g, i) PROVE Goal
  <2> DEFINE s == Pick(Unused)
             claims == <<Claim(s, SanitizeName(name[i] \o Suffix))>>
  <2> HIDE DEF s, claims
  <2>1. /\ i \in Live /\ Quiet(i) /\ s \in Unused /\ Begin(g, "add", i, {s}, claims)
        /\ state[i] \in {"Committed", "Stopped"} /\ sidecar[i] = NoId
    BY <1>4, PickType DEF Add, s, claims
  <2>2. CASE UNCHANGED <<job, status>>
    BY <2>1, <2>2, BeginStep
  <2>3. CASE ~UNCHANGED <<job, status>>
    <3>0. /\ UNCHANGED <<registry, name, state, isSidecar, sidecar, preloads, cluster, raced, renamed, unstarted>>
          /\ Taken(g, "add", i, {s}, claims)
      BY <2>1, <2>3, BeginStep
    <3>1. /\ UNCHANGED <<registry, name, state, isSidecar, sidecar, preloads, cluster, raced, renamed, unstarted>>
          /\ job[g] = Idle /\ job' = [job EXCEPT ![g] = job'[g]]
          /\ job'[g] = [op |-> "add", on |-> i, fresh |-> {s}, claims |-> claims, free |-> TRUE]
          /\ status' = [j \in Ids |-> IF j \in {s} THEN "making" ELSE status[j]]
          /\ \A k \in DOMAIN claims : claims[k].name # <<>>
      BY <3>0 DEF Taken
    <3>2. claims = <<claims[1]>> /\ claims[1].inst = s /\ 1 \in DOMAIN claims
          /\ s \in Ids /\ s # i /\ status[i] = "live"
      BY <2>1 DEF claims, Claim, Unused, Live
    <3>3. Working(g)'
      BY <2>1, <3>1, <3>2 DEF Working, Shape, First
    <3>4. \A h \in Goroutines : job[h].on # i
      BY <1>1, <2>1, QuietFacts, NoIdOut
    <3> QED BY <2>1, <3>1, <3>3, <3>4 DEF Begun
  <2> QED BY <2>2, <2>3
<1>5. ASSUME NEW i \in Ids, NEW r, CloneWithName(g, i, r) PROVE Goal
  <2> DEFINE c == Pick(Unused)
             s == Pick(Unused \ {c})
  <2>1. /\ i \in Live /\ Quiet(i) /\ c \in Unused /\ c \in Ids
        /\ state[i] \in {"Committed", "Stopped"} /\ status[i] = "live"
        /\ status[c] = "unused"
    BY <1>5, PickType DEF CloneWithName, Cloneable, Live, Unused
  <2>2. \A h \in Goroutines : job[h].on # i
    BY <1>1, <2>1, QuietFacts, NoIdOut
  <2>3. CASE sidecar[i] = NoId
    <3> DEFINE claims == <<Claim(c, r.name)>>
    <3> HIDE DEF c, claims
    <3>1. Begin(g, "clone", i, {c}, claims)
      BY <1>5, <2>3 DEF CloneWithName, c, claims
    <3>2. CASE UNCHANGED <<job, status>>
      BY <3>1, <3>2, BeginStep
    <3>3. CASE ~UNCHANGED <<job, status>>
      <4>0. /\ UNCHANGED <<registry, name, state, isSidecar, sidecar, preloads, cluster, raced, renamed, unstarted>>
            /\ Taken(g, "clone", i, {c}, claims)
        BY <3>1, <3>3, BeginStep
      <4>1. /\ UNCHANGED <<registry, name, state, isSidecar, sidecar, preloads, cluster, raced, renamed, unstarted>>
            /\ job[g] = Idle /\ job' = [job EXCEPT ![g] = job'[g]]
            /\ job'[g] = [op |-> "clone", on |-> i, fresh |-> {c}, claims |-> claims, free |-> TRUE]
            /\ status' = [j \in Ids |-> IF j \in {c} THEN "making" ELSE status[j]]
            /\ \A k \in DOMAIN claims : claims[k].name # <<>>
        BY <4>0 DEF Taken
      <4>2. claims = <<claims[1]>> /\ claims[1].inst = c /\ 1 \in DOMAIN claims
        BY DEF claims, Claim
      <4>3. Working(g)'
        BY <2>1, <4>1, <4>2 DEF Working, Shape, First
      <4> QED BY <2>1, <2>2, <4>1, <4>3 DEF Begun
    <3> QED BY <3>2, <3>3
  <2>4. CASE sidecar[i] # NoId
    <3> DEFINE claims == <<Claim(s, r.sidecar), Claim(c, r.name)>>
    <3>1. Begin(g, "clone", i, {c, s}, claims) /\ Unused # {c}
      BY <1>5, <2>4 DEF CloneWithName
    <3>2. s \in Unused /\ s # c
      BY <2>1, <3>1, PickType
    <3> HIDE DEF c, s, claims
    <3>3. CASE UNCHANGED <<job, status>>
      BY <3>1, <3>3, BeginStep
    <3>4. CASE ~UNCHANGED <<job, status>>
      <4>0. /\ UNCHANGED <<registry, name, state, isSidecar, sidecar, preloads, cluster, raced, renamed, unstarted>>
            /\ Taken(g, "clone", i, {c, s}, claims)
        BY <3>1, <3>4, BeginStep
      <4>1. /\ UNCHANGED <<registry, name, state, isSidecar, sidecar, preloads, cluster, raced, renamed, unstarted>>
            /\ job[g] = Idle /\ job' = [job EXCEPT ![g] = job'[g]]
            /\ job'[g] = [op |-> "clone", on |-> i, fresh |-> {c, s}, claims |-> claims, free |-> TRUE]
            /\ status' = [j \in Ids |-> IF j \in {c, s} THEN "making" ELSE status[j]]
            /\ \A k \in DOMAIN claims : claims[k].name # <<>>
        BY <4>0 DEF Taken
      <4>2. /\ claims = <<claims[1], claims[2]>> /\ claims[1].inst = s /\ claims[2].inst = c
            /\ 1 \in DOMAIN claims /\ 2 \in DOMAIN claims
        BY DEF claims, Claim
      <4>3. s \in Ids /\ status[s] = "unused"
        BY <3>2 DEF Unused
      <4>4. Working(g)'
        BY <2>1, <3>2, <4>1, <4>2, <4>3 DEF Working, Shape, First, Second
      <4> QED BY <2>1, <2>2, <3>2, <4>1, <4>4 DEF Begun
    <3> QED BY <3>3, <3>4
  <2> QED BY <2>3, <2>4
<1> QED BY <1>2, <1>3, <1>4, <1>5 DEF Call, CloneWithSuffix

\* A call goes on as long as what it relies on stays.
LEMMA WorkingKept ==
  ASSUME NEW h \in Goroutines, Working(h), job'[h] = job[h],
         \A i \in job[h].fresh : status'[i] = status[i] /\ name'[i] = name[i],
         job[h].op # "new" => status'[job[h].on] = "live",
         job[h].op \in {"add", "clone"} => state'[job[h].on] = state[job[h].on],
         job[h].op = "add" => sidecar'[job[h].on] = NoId
  PROVE  Working(h)'
<1>1. First(h)' = First(h) /\ Second(h)' = Second(h)
  BY DEF First, Second
<1>2. Shape(h)'
  <2>1. CASE \E t \in Ids \ {First(h).inst} : name[t] # <<>> /\ job[h].fresh = {First(h).inst, t}
    <3>1. PICK t \in Ids \ {First(h).inst} : name[t] # <<>> /\ job[h].fresh = {First(h).inst, t}
      BY <2>1
    <3>2. name'[t] # <<>>
      BY <3>1
    <3>3. \E u \in Ids \ {First(h).inst} : name'[u] # <<>> /\ job[h].fresh = {First(h).inst, u}
      BY <3>1, <3>2
    <3> QED BY <1>1, <3>3 DEF Working, Shape
  <2>2. CASE ~\E t \in Ids \ {First(h).inst} : name[t] # <<>> /\ job[h].fresh = {First(h).inst, t}
    BY <1>1, <2>2 DEF Working, Shape
  <2> QED BY <2>1, <2>2
<1> QED BY <1>1, <1>2 DEF Working

\* The instances that a call is making, and the one it is on.
LEMMA JobFacts ==
  ASSUME Safe, NEW g \in Goroutines
  PROVE  /\ job[g].fresh \subseteq Ids
         /\ \A i \in job[g].fresh : status[i] = "making"
         /\ job[g].on # NoId => job[g].on \in Ids /\ status[job[g].on] = "live"
         /\ job[g].free => Working(g)
         /\ job[g] # Idle => Working(g)
<1>1. Idle.fresh = {} /\ Idle.on = NoId /\ Idle.free = FALSE
  BY DEF Idle, Job
<1>2. CASE job[g] = Idle
  <2>1. job[g].fresh = {} /\ job[g].on = NoId
    BY <1>1, <1>2
  <2>2. ~job[g].free
    BY <1>1, <1>2, Zenon
  <2> QED BY <1>2, <2>1, <2>2
<1>3. CASE Working(g)
  BY <1>3 DEF Working, Shape
<1> QED BY <1>2, <1>3 DEF Safe, JobInv

\* The beginning of a call.
LEMMA SafeCall ==
  ASSUME Safe, NEW g \in Goroutines, Call(g)
  PROVE  Safe'
<1>1. /\ UNCHANGED <<registry, name, state, isSidecar, sidecar, preloaders, raced>>
      /\ UNCHANGED <<job, status>> \/ Begun(g)
  BY CallStep DEF preloads
<1>2. CASE UNCHANGED <<job, status>>
  <2>1. UNCHANGED <<registry, status, name, state, isSidecar, sidecar, job, preloaders, raced>>
    BY <1>1, <1>2
  <2>2. NamesTypeOK' /\ NameInv'
    BY <2>1 DEF Safe, NamesTypeOK, NameInv, NamesOf
  <2>3. IdInv' /\ FamilyInv'
    BY <2>1 DEF Safe, IdInv, FamilyInv
  <2>4. ASSUME NEW h \in Goroutines, Working(h) PROVE Working(h)'
    BY <2>1, <2>4, WorkingKept DEF Working
  <2>5. JobInv'
    BY <2>1, <2>4 DEF Safe, JobInv
  <2> QED BY <2>2, <2>3, <2>5 DEF Safe
<1>3. CASE Begun(g)
  <2> USE DEF Safe
  <2>1. /\ job[g] = Idle /\ Working(g)' /\ job'[g].fresh \subseteq Unused
        /\ \A h \in Goroutines \ {g} : job'[h] = job[h]
        /\ job' = [h \in Goroutines |-> job'[h]]
    BY <1>3 DEF Begun, NamesTypeOK
  <2>2. \A i \in Ids : status'[i] = IF i \in job'[g].fresh THEN "making" ELSE status[i]
    BY <1>3 DEF Begun
  <2>3. \A i \in Ids : /\ status[i] # "unused" => status'[i] = status[i]
                       /\ status'[i] \in {"unused", "making"} => status[i] \in {"unused", "making"}
                       /\ status'[i] # "making" => status'[i] = status[i]
    BY <2>1, <2>2 DEF Unused
  <2>4. NamesTypeOK'
    <3>1. status' \in [Ids -> {"unused", "making", "live", "orphan"}]
      BY <1>3 DEF Begun, NamesTypeOK
    <3> QED BY <1>1, <2>1, <3>1 DEF NamesTypeOK
  <2>5. IdInv'
    BY <1>1, <2>3 DEF IdInv
  <2>6. FamilyInv'
    BY <1>1, <2>3 DEF FamilyInv, NamesTypeOK
  <2>7. NameInv'
    BY <1>1 DEF NameInv, NamesOf
  <2>8. ASSUME NEW h \in Goroutines, h # g PROVE job'[h] = Idle \/ Working(h)'
    <3>1. CASE job[h] = Idle
      BY <2>1, <2>8, <3>1
    <3>2. CASE Working(h)
      <4>1. /\ \A i \in job[h].fresh : status'[i] = status[i] /\ name'[i] = name[i]
            /\ job[h].op # "new" => status'[job[h].on] = "live"
        BY <1>1, <2>3, <3>2, JobFacts DEF Working
      <4> QED BY <1>1, <2>1, <2>8, <3>2, <4>1, WorkingKept DEF Working
    <3> QED BY <3>1, <3>2 DEF JobInv
  <2>9. ASSUME NEW h \in Goroutines, h # g
        PROVE  /\ job'[g].fresh \cap job'[h].fresh = {}
               /\ job'[g].on = job'[h].on => job'[g].on = NoId
    <3>1. job'[h] = job[h]
      BY <2>1, <2>9
    <3>2. \A i \in job[h].fresh : status[i] = "making"
      BY JobFacts
    <3> QED BY <1>3, <2>1, <3>1, <3>2 DEF Begun, Unused
  <2>10. JobInv'
    <3>1. \A h \in Goroutines : job'[h] = Idle \/ Working(h)'
      BY <2>1, <2>8
    <3>2. ASSUME NEW a \in Goroutines, NEW b \in Goroutines, a # b
          PROVE  /\ job'[a].fresh \cap job'[b].fresh = {}
                 /\ job'[a].on = job'[b].on => job'[a].on = NoId
      <4>1. CASE a # g /\ b # g
        BY <2>1, <3>2, <4>1 DEF JobInv
      <4>2. CASE a = g
        BY <2>9, <3>2, <4>2
      <4>3. CASE b = g
        BY <2>9, <3>2, <4>3
      <4> QED BY <4>1, <4>2, <4>3
    <3> QED BY <3>1, <3>2 DEF JobInv
  <2> QED BY <2>4, <2>5, <2>6, <2>7, <2>10
<1> QED BY <1>1, <1>2, <1>3

\* The second name of a call is refused, or found free.
LEMMA SafeLookup ==
  ASSUME Safe, NEW g \in Goroutines, HasInstanceName(g)
  PROVE  Safe'
<1> USE DEF Safe
<1>1. /\ UNCHANGED <<registry, name, state, isSidecar, sidecar, preloaders, raced>>
      /\ job[g] # Idle /\ Working(g)
  BY JobFacts DEF HasInstanceName, history, preloads
<1>2. NameInv'
  BY <1>1 DEF NameInv, NamesOf
<1>3. CASE First(g).name \in registry
  <2>1. /\ job' = [job EXCEPT ![g] = Idle]
        /\ status' = [i \in Ids |->
             IF i \notin job[g].fresh THEN status[i]
             ELSE IF name[i] = <<>> THEN "unused" ELSE "orphan"]
    BY <1>3 DEF HasInstanceName, First
  <2>2. \A i \in job[g].fresh : i \in Ids /\ status[i] = "making"
    BY JobFacts
  <2>3. \A i \in Ids :
          /\ i \notin job[g].fresh => status'[i] = status[i]
          /\ i \in job[g].fresh => status'[i] \in {"unused", "orphan"}
          /\ status'[i] = "unused" => name[i] = <<>>
    BY <2>1 DEF IdInv
  <2>4. NamesTypeOK'
    BY <1>1, <2>1 DEF NamesTypeOK
  <2>5. IdInv'
    BY <1>1, <2>2, <2>3 DEF IdInv
  <2>6. \A i \in Ids : status[i] = "live" => status'[i] = "live"
    BY <2>2, <2>3
  <2>7. FamilyInv'
    BY <1>1, <2>6 DEF FamilyInv, NamesTypeOK
  <2>8. ASSUME NEW h \in Goroutines, h # g
        PROVE  job'[h] = job[h] /\ (job'[h] = Idle \/ Working(h)')
    <3>1. job'[h] = job[h]
      BY <2>1, <2>8 DEF NamesTypeOK
    <3>2. CASE Working(h)
      <4>1. \A i \in job[h].fresh : status'[i] = status[i] /\ name'[i] = name[i]
        BY <1>1, <2>3, <2>8, JobFacts DEF JobInv
      <4>2. job[h].op # "new" => status'[job[h].on] = "live"
        BY <2>6, <3>2 DEF Working
      <4> QED BY <1>1, <3>1, <3>2, <4>1, <4>2, WorkingKept DEF Working
    <3> QED BY <3>1, <3>2 DEF JobInv
  <2>9. job'[g] = Idle /\ Idle.fresh = {} /\ Idle.on = NoId
    BY <2>1 DEF NamesTypeOK, Idle, Job
  <2>10. \A h \in Goroutines : job'[h] = Idle \/ Working(h)'
    BY <2>8, <2>9
  <2>11. ASSUME NEW a \in Goroutines, NEW b \in Goroutines, a # b
         PROVE  /\ job'[a].fresh \cap job'[b].fresh = {}
                /\ job'[a].on = job'[b].on => job'[a].on = NoId
    <3>1. CASE a # g /\ b # g
      BY <2>8, <2>11, <3>1 DEF JobInv
    <3>2. CASE a = g \/ b = g
      BY <2>9, <3>2
    <3> QED BY <3>1, <3>2
  <2> QED BY <1>2, <2>4, <2>5, <2>7, <2>10, <2>11 DEF JobInv
<1>4. CASE First(g).name \notin registry
  <2>1. job' = [job EXCEPT ![g].free = TRUE] /\ UNCHANGED status
    BY <1>4 DEF HasInstanceName, First
  <2>2. /\ job'[g] = [job[g] EXCEPT !.free = TRUE]
        /\ \A h \in Goroutines : h # g => job'[h] = job[h]
    BY <2>1 DEF NamesTypeOK
  <2>3. /\ job'[g].op = job[g].op /\ job'[g].on = job[g].on /\ job'[g].fresh = job[g].fresh
        /\ job'[g].claims = job[g].claims /\ job'[g].free
        /\ job'[g] = [op |-> job'[g].op, on |-> job'[g].on, fresh |-> job'[g].fresh,
                      claims |-> job'[g].claims, free |-> job'[g].free]
    BY <1>1, <2>2 DEF Working
  <2>4. First(g)' = First(g) /\ Second(g)' = Second(g)
    BY <2>3 DEF First, Second
  <2>5. Shape(g)'
    BY <1>1, <2>3, <2>4 DEF Working, Shape
  <2>6. Working(g)'
    BY <1>1, <2>1, <2>3, <2>4, <2>5 DEF Working
  <2>7. ASSUME NEW h \in Goroutines, h # g PROVE job'[h] = Idle \/ Working(h)'
    <3>1. CASE job[h] = Idle
      BY <2>2, <2>7, <3>1
    <3>2. CASE Working(h)
      BY <1>1, <2>1, <2>2, <2>7, <3>2, WorkingKept DEF Working
    <3> QED BY <3>1, <3>2 DEF JobInv
  <2>8. \A h \in Goroutines : job'[h].fresh = job[h].fresh /\ job'[h].on = job[h].on
    BY <2>2, <2>3
  <2>9. JobInv'
    BY <2>6, <2>7, <2>8 DEF JobInv
  <2>10. NamesTypeOK'
    BY <1>1, <2>1 DEF NamesTypeOK
  <2>11. IdInv' /\ FamilyInv'
    BY <1>1, <2>1 DEF IdInv, FamilyInv
  <2> QED BY <1>2, <2>9, <2>10, <2>11
<1> QED BY <1>3, <1>4

\* The calls of the other goroutines go on.
LEMMA OthersGoOn ==
  ASSUME Safe, NEW g \in Goroutines,
         \A h \in Goroutines \ {g} : job'[h] = job[h],
         job'[g] = Idle \/ Working(g)',
         job'[g].fresh \subseteq job[g].fresh,
         job'[g].on \in {job[g].on, NoId},
         \A i \in Ids \ job[g].fresh :
           /\ status'[i] = status[i]
           /\ state'[i] = state[i]
           /\ i # job[g].on => name'[i] = name[i] /\ sidecar'[i] = sidecar[i]
  PROVE  JobInv'
<1> USE DEF Safe
<1>1. ASSUME NEW h \in Goroutines \ {g}, Working(h) PROVE Working(h)'
  <2>1. \A i \in job[h].fresh : i \in Ids \ job[g].fresh /\ i # job[g].on
    BY JobFacts, NoIdOut DEF JobInv
  <2>2. \A i \in job[h].fresh : status'[i] = status[i] /\ name'[i] = name[i]
    BY <2>1
  <2>3. ASSUME job[h].op # "new"
        PROVE  /\ status'[job[h].on] = "live" /\ state'[job[h].on] = state[job[h].on]
               /\ sidecar'[job[h].on] = sidecar[job[h].on]
    <3>1. job[h].on \in Ids /\ status[job[h].on] = "live"
      BY <1>1, <2>3 DEF Working
    <3>2. job[h].on \notin job[g].fresh /\ job[h].on # job[g].on
      BY <3>1, JobFacts, NoIdOut DEF JobInv
    <3> QED BY <3>1, <3>2
  <2>4. /\ job[h].op # "new" => status'[job[h].on] = "live"
        /\ job[h].op \in {"add", "clone"} => state'[job[h].on] = state[job[h].on]
        /\ job[h].op = "add" => sidecar'[job[h].on] = NoId
    BY <1>1, <2>3 DEF Working
  <2> QED BY <1>1, <2>2, <2>4, WorkingKept
<1>2. \A h \in Goroutines : job'[h] = Idle \/ Working(h)'
  BY <1>1 DEF JobInv
<1>3. ASSUME NEW a \in Goroutines, NEW b \in Goroutines, a # b
      PROVE  /\ job'[a].fresh \cap job'[b].fresh = {}
             /\ job'[a].on = job'[b].on => job'[a].on = NoId
  <2>1. /\ job[a].fresh \cap job[b].fresh = {}
        /\ job[a].on = job[b].on => job[a].on = NoId
    BY <1>3 DEF JobInv
  <2>2. /\ job'[a].fresh \subseteq job[a].fresh /\ job'[a].on \in {job[a].on, NoId}
        /\ job'[b].fresh \subseteq job[b].fresh /\ job'[b].on \in {job[b].on, NoId}
    OBVIOUS
  <2> QED BY <2>1, <2>2
<1> QED BY <1>2, <1>3 DEF JobInv

\* AddInstanceName stores a name that was free when it was looked up: if it is taken now,
\* or was given to the instance already, there was a race.
LEMMA NameStored ==
  ASSUME Safe, NEW g \in Goroutines, AddInstanceName(g)
  PROVE  /\ Working(g) /\ First(g).inst \in Ids /\ First(g).name # <<>>
         /\ name' = [name EXCEPT ![First(g).inst] = First(g).name]
         /\ name'[First(g).inst] = First(g).name
         /\ \A j \in Ids \ {First(g).inst} : name'[j] = name[j]
         /\ NameInv'
<1> USE DEF Safe
<1> DEFINE i == First(g).inst
           n == First(g).name
<1>1. Working(g) /\ i \in Ids /\ n # <<>>
  BY JobFacts DEF AddInstanceName, Working
<1>2. /\ registry' = (registry \cup {n}) \ {name[i]}
      /\ raced' = IF n \in registry THEN raced \cup {n} ELSE raced
      /\ name' = [name EXCEPT ![i] = n] /\ preloaders' = preloaders
  BY DEF AddInstanceName, Registered, First, preloads
<1> HIDE DEF i, n
<1>3. name'[i] = n /\ \A j \in Ids \ {i} : name'[j] = name[j]
  BY <1>1, <1>2 DEF NamesTypeOK
<1>4. <<>> \notin registry'
  BY <1>1, <1>2 DEF NameInv
<1>5. \/ n \in registry' \ preloaders' /\ \A j \in Ids \ {i} : name'[j] # n
      \/ n \in raced'
  BY <1>1, <1>2, <1>3 DEF NameInv
<1>6. ASSUME NEW j \in Ids \ {i}, name[j] # <<>>
      PROVE  \/ name[j] \in registry' \ preloaders' /\ \A k \in Ids \ {j} : name'[k] # name[j]
             \/ name[j] \in raced'
  <2>1. CASE name[j] \in raced
    BY <1>2, <2>1
  <2>2. CASE name[j] \notin raced
    <3>1. name[j] \in registry \ preloaders /\ \A k \in Ids \ {j} : name[k] # name[j]
      BY <1>6, <2>2 DEF NameInv
    <3>2. CASE name[j] = n
      BY <1>2, <3>1, <3>2
    <3>3. CASE name[j] # n
      BY <1>1, <1>2, <1>3, <3>1, <3>3
    <3> QED BY <3>2, <3>3
  <2> QED BY <2>1, <2>2
<1>7. registry' \subseteq NamesOf(Ids)' \cup preloaders'
  BY <1>1, <1>2, <1>3 DEF NameInv, NamesOf
<1>9. preloaders' \subseteq registry' \cup raced'
  \* what is taken back is the name of an instance, and a preloader has it after a race only
  BY <1>1, <1>2 DEF NameInv
<1>8. NameInv'
  BY <1>3, <1>4, <1>5, <1>6, <1>7, <1>9 DEF NameInv
<1> QED BY <1>1, <1>2, <1>3, <1>8 DEF i, n

\* The claims of a call: one, or two of which the second is left.
LEMMA ClaimsLeft ==
  ASSUME NEW a, NEW b
  PROVE  Len(<<a>>) = 1 /\ Len(<<a, b>>) = 2 /\ Tail(<<a, b>>) = <<b>> /\ <<b>>[1] = b
OBVIOUS

\* A clone with a sidecar has the first of its two names.
LEMMA SafeFirstName ==
  ASSUME Safe, NEW g \in Goroutines, AddInstanceName(g), Len(job[g].claims) # 1,
         job' = [job EXCEPT ![g].claims = Tail(@), ![g].free = FALSE],
         UNCHANGED <<status, state, isSidecar, sidecar, unstarted>>
  PROVE  Safe'
<1> USE DEF Safe
<1>1. /\ Working(g) /\ First(g).inst \in Ids /\ First(g).name # <<>> /\ NameInv'
      /\ name' = [name EXCEPT ![First(g).inst] = First(g).name]
      /\ name'[First(g).inst] = First(g).name
      /\ \A j \in Ids \ {First(g).inst} : name'[j] = name[j]
  BY NameStored
<1>2. /\ job[g].op = "clone" /\ job[g].claims = <<First(g), Second(g)>>
      /\ Second(g).inst # First(g).inst /\ Second(g).inst \in Ids /\ Second(g).name # <<>>
      /\ job[g].fresh = {First(g).inst, Second(g).inst}
  <2>1. job[g].claims # <<First(g)>>
    BY ClaimsLeft
  <2> QED BY <1>1, <2>1 DEF Working, Shape
<1>3. /\ job'[g] = [job[g] EXCEPT !.claims = Tail(@), !.free = FALSE]
      /\ \A h \in Goroutines \ {g} : job'[h] = job[h]
      /\ job' = [h \in Goroutines |-> job'[h]]
  BY DEF NamesTypeOK
<1>4. /\ job'[g].op = "clone" /\ job'[g].on = job[g].on /\ job'[g].fresh = job[g].fresh
      /\ job'[g].claims = Tail(job[g].claims)
      /\ job'[g] = [op |-> job'[g].op, on |-> job'[g].on, fresh |-> job'[g].fresh,
                    claims |-> job'[g].claims, free |-> job'[g].free]
  <2>1. job[g] = [op |-> job[g].op, on |-> job[g].on, fresh |-> job[g].fresh,
                  claims |-> job[g].claims, free |-> job[g].free]
    BY <1>1 DEF Working
  <2> QED BY <1>2, <1>3, <2>1
<1>5. job'[g].claims = <<Second(g)>> /\ First(g)' = Second(g)
  <2>1. Tail(<<First(g), Second(g)>>) = <<Second(g)>> /\ <<Second(g)>>[1] = Second(g)
    BY ClaimsLeft, Zenon
  <2>2. job'[g].claims = <<Second(g)>>
    BY <1>2, <1>4, <2>1, Zenon
  <2>3. First(g)' = <<Second(g)>>[1]
    BY <2>2, Zenon DEF First
  <2> QED BY <2>1, <2>2, <2>3, Zenon
<1>6. \A i \in job[g].fresh : status[i] = "making"
  BY JobFacts
<1>7. Shape(g)'
  <2>1. \E t \in Ids \ {First(g)'.inst} : name'[t] # <<>> /\ job'[g].fresh = {First(g)'.inst, t}
    <3>1. /\ First(g).inst \in Ids \ {First(g)'.inst} /\ name'[First(g).inst] # <<>>
          /\ job'[g].fresh = {First(g)'.inst, First(g).inst}
      <4>1. First(g)'.inst = Second(g).inst
        BY <1>5, Zenon
      <4> QED BY <1>1, <1>2, <1>4, <4>1
    <3> QED BY <3>1
  <2>2. job'[g].op = "clone" /\ job'[g].claims = <<First(g)'>>
    BY <1>4, <1>5
  <2> QED BY <2>1, <2>2 DEF Shape
<1>8. Working(g)'
  <2>1. First(g)'.inst \in Ids /\ First(g)'.name # <<>>
    BY <1>2, <1>5
  <2>2. \A i \in job'[g].fresh : status'[i] = "making"
    BY <1>4, <1>6
  <2>3. /\ job'[g].on \in Ids /\ status'[job'[g].on] = "live"
        /\ state'[job'[g].on] \in {"Committed", "Stopped"}
    BY <1>1, <1>2, <1>4 DEF Working
  <2> QED BY <1>4, <1>7, <2>1, <2>2, <2>3 DEF Working
<1>9. JobInv'
  <2>1. \A i \in Ids \ job[g].fresh : name'[i] = name[i]
    BY <1>1, <1>2
  <2> QED BY <1>3, <1>4, <1>8, <2>1, OthersGoOn
<1>10. NamesTypeOK'
  BY <1>1, <1>3 DEF NamesTypeOK
<1>11. IdInv'
  BY <1>1, <1>2, <1>6 DEF IdInv
<1>12. FamilyInv'
  BY DEF FamilyInv
<1> QED BY <1>1, <1>9, <1>10, <1>11, <1>12

\* What a call makes is at hand when it has its last name.
LEMMA SafeFinish ==
  ASSUME Safe, NEW g \in Goroutines, AddInstanceName(g), Len(job[g].claims) = 1,
         Finish(g), job' = [job EXCEPT ![g] = Idle]
  PROVE  Safe'
<1> USE DEF Safe
<1> DEFINE i == job[g].on
           c == First(g).inst
           ids == job[g].fresh
<1>1. /\ Working(g) /\ c \in Ids /\ First(g).name # <<>> /\ NameInv'
      /\ name' = [name EXCEPT ![c] = First(g).name]
      /\ name'[c] = First(g).name
      /\ \A j \in Ids \ {c} : name'[j] = name[j]
  BY NameStored
<1>2. /\ ids \subseteq Ids
      /\ \A j \in ids : status[j] = "making" /\ sidecar[j] = NoId /\ \A k \in Ids : sidecar[k] # j
      /\ i # NoId => i \in Ids /\ status[i] = "live" /\ i \notin ids
  BY JobFacts DEF IdInv
<1>3. \/ job[g].op = "new" /\ i = NoId /\ ids = {c}
      \/ job[g].op = "rename" /\ i = c /\ i # NoId /\ ids = {}
      \/ job[g].op \in {"add", "clone"} /\ i # NoId /\ ids = {c}
      \/ /\ job[g].op = "clone" /\ i # NoId
         /\ \E s \in Ids \ {c} : name[s] # <<>> /\ ids = {c, s}
  <2>1. job[g].op # "new" => i # NoId
    BY <1>1, NoIdOut DEF Working
  <2>2. job[g].claims # <<First(g), Second(g)>>
    OBVIOUS
  <2> QED BY <1>1, <2>1, <2>2, NoIdOut DEF Working, Shape
<1>4. /\ job'[g] = Idle /\ Idle.fresh = {} /\ Idle.on = NoId
      /\ \A h \in Goroutines \ {g} : job'[h] = job[h]
      /\ job' = [h \in Goroutines |-> job'[h]]
  BY DEF NamesTypeOK, Idle, Job
<1>5. /\ \A j \in ids : name'[j] # <<>>
      /\ \A j \in Ids \ ids : j # i => name'[j] = name[j]
      /\ \A j \in Ids : name[j] # <<>> => name'[j] # <<>>
      /\ \A j \in Ids \ ids : status[j] # "live" => name'[j] = name[j]
  BY <1>1, <1>2, <1>3
<1>6. name' = [j \in Ids |-> name'[j]]
  BY <1>1 DEF NamesTypeOK
<1> HIDE DEF i, c, ids
<1>7. CASE job[g].op = "add"
  <2>1. /\ isSidecar' = [isSidecar EXCEPT ![c] = TRUE]
        /\ IF isSidecar[i]
           THEN status' = [status EXCEPT ![c] = "orphan"] /\ UNCHANGED sidecar
           ELSE status' = [status EXCEPT ![c] = "live"] /\ sidecar' = [sidecar EXCEPT ![i] = c]
        /\ UNCHANGED state
    BY <1>7 DEF Finish, i, c, First
  <2>2. ids = {c} /\ i \in Ids /\ i # c /\ status[i] = "live"
    BY <1>2, <1>3, <1>7
  <2>3. NamesTypeOK'
    BY <1>1, <1>4, <1>6, <2>1, <2>2 DEF NamesTypeOK
  <2>4. /\ \A j \in Ids : isSidecar[j] => isSidecar'[j]
        /\ isSidecar'[c]
        /\ \A j \in Ids \ {c} : isSidecar'[j] = isSidecar[j] /\ status'[j] = status[j]
        /\ status'[c] \in {"orphan", "live"}
        /\ \A j \in Ids \ {i} : sidecar'[j] = sidecar[j]
        /\ status'[c] = "live" => sidecar'[i] = c
        /\ status'[c] # "live" => sidecar'[i] = sidecar[i]
    BY <1>1, <2>1, <2>2 DEF NamesTypeOK
  <2>5. JobInv'
    BY <1>2, <1>4, <1>5, <2>1, <2>2, <2>4, OthersGoOn DEF ids, i
  <2>6. IdInv'
    BY <1>1, <1>2, <1>5, <2>1, <2>2, <2>4 DEF IdInv
  <2>7. CASE status'[c] # "live"
    <3>1. sidecar' = sidecar
      BY <2>1, <2>7, <1>1 DEF NamesTypeOK
    <3>2. \A j \in Ids : status[j] = "live" => status'[j] = "live"
      BY <1>2, <2>2, <2>4
    <3>3. FamilyInv'
      BY <3>1, <3>2, <2>4 DEF FamilyInv, NamesTypeOK
    <3> QED BY <1>1, <2>3, <2>5, <2>6, <3>3
  <2>8. CASE status'[c] = "live"
    <3>1. sidecar'[i] = c /\ sidecar'[c] = NoId /\ sidecar[c] = NoId /\ status[c] = "making"
          /\ \A k \in Ids : sidecar[k] # c
      BY <1>1, <1>2, <2>2, <2>4, <2>8
    <3>2. \A j \in Ids : status[j] = "live" => status'[j] = "live"
      BY <2>4, <2>8
    <3>3. ASSUME NEW j \in Ids, sidecar'[j] # NoId
          PROVE  /\ status'[j] = "live" /\ status'[sidecar'[j]] = "live"
                 /\ sidecar'[j] # j /\ sidecar'[sidecar'[j]] # j
                 /\ sidecar'[sidecar'[j]] # NoId => isSidecar'[sidecar'[sidecar'[j]]]
      <4>1. CASE j = i
        BY <2>2, <2>8, <3>1, <3>2, <3>3, <4>1, NoIdOut
      <4>2. CASE j # i
        <5>1. /\ sidecar'[j] = sidecar[j] /\ sidecar[j] # NoId /\ j # c /\ sidecar[j] \in Ids
              /\ status[j] = "live" /\ status[sidecar[j]] = "live" /\ sidecar[j] # j
              /\ sidecar[sidecar[j]] # j
              /\ sidecar[sidecar[j]] # NoId => isSidecar[sidecar[sidecar[j]]]
          BY <2>4, <3>1, <3>3, <4>2 DEF FamilyInv, NamesTypeOK
        <5>2. CASE sidecar[j] = i
          BY <1>1, <2>4, <3>1, <3>2, <5>1, <5>2
        <5>3. CASE sidecar[j] # i
          <6>1. sidecar'[sidecar'[j]] = sidecar[sidecar[j]]
            BY <2>4, <5>1, <5>3
          <6>2. sidecar[sidecar[j]] # NoId => sidecar[sidecar[j]] \in Ids
            BY <5>1 DEF NamesTypeOK
          <6> QED BY <2>4, <3>2, <5>1, <6>1, <6>2
        <5> QED BY <5>2, <5>3
      <4> QED BY <4>1, <4>2
    <3>4. ASSUME NEW j \in Ids, NEW k \in Ids, sidecar'[j] # NoId, sidecar'[j] = sidecar'[k]
          PROVE  j = k
      BY <2>4, <3>1, <3>4 DEF FamilyInv
    <3>5. FamilyInv'
      BY <3>3, <3>4 DEF FamilyInv
    <3> QED BY <1>1, <2>3, <2>5, <2>6, <3>5
  <2> QED BY <2>7, <2>8
<1>8. CASE job[g].op = "clone"
  <2>1. /\ status' = [j \in Ids |-> IF j \in ids THEN "live" ELSE status[j]]
        /\ state' = [j \in Ids |-> IF j \in ids THEN state[i] ELSE state[j]]
        /\ sidecar' = [sidecar EXCEPT ![c] = IF ids = {c} THEN NoId ELSE Pick(ids \ {c})]
        /\ UNCHANGED isSidecar
    BY <1>8 DEF Finish, i, c, ids, First
  <2>2. /\ c \in ids /\ i \in Ids /\ status[i] = "live" /\ i \notin ids
        /\ ids = {c} \/ (ids # {c} /\ \E s \in Ids \ {c} : ids = {c, s})
    BY <1>2, <1>3, <1>8
  <2>3. /\ \A j \in Ids \ {c} : sidecar'[j] = sidecar[j]
        /\ sidecar'[c] \in (ids \ {c}) \cup {NoId}
        /\ sidecar' \in [Ids -> Ids \cup {NoId}]
    <3>1. CASE ids = {c}
      BY <1>1, <2>1, <3>1 DEF NamesTypeOK
    <3>2. CASE ids # {c}
      <4>1. Pick(ids \ {c}) \in ids \ {c}
        BY <2>2, <3>2, PickType
      <4> QED BY <1>1, <1>2, <2>1, <3>2, <4>1 DEF NamesTypeOK
    <3> QED BY <3>1, <3>2
  <2>4. /\ \A j \in Ids \ ids : status'[j] = status[j] /\ state'[j] = state[j]
        /\ \A j \in ids : status'[j] = "live"
        /\ \A j \in Ids : status[j] = "live" => status'[j] = "live"
    BY <1>2, <2>1
  <2>5. NamesTypeOK'
    <3>1. state' \in [Ids -> States]
      BY <2>1, <2>2 DEF NamesTypeOK
    <3>2. status' \in [Ids -> {"unused", "making", "live", "orphan"}]
      BY <2>1 DEF NamesTypeOK
    <3> QED BY <1>4, <1>6, <2>1, <2>3, <3>1, <3>2 DEF NamesTypeOK
  <2>6. JobInv'
    BY <1>2, <1>4, <1>5, <2>2, <2>3, <2>4, OthersGoOn DEF ids, i
  <2>7. ASSUME NEW j \in Ids, status'[j] \in {"unused", "making"}
        PROVE  /\ sidecar'[j] = NoId /\ state'[j] = "Committed" /\ ~isSidecar'[j]
               /\ \A k \in Ids : sidecar'[k] # j
    <3>1. j \notin ids /\ j # c /\ status[j] = status'[j]
      BY <2>2, <2>4, <2>7
    <3>2. /\ sidecar[j] = NoId /\ state[j] = "Committed" /\ ~isSidecar[j]
          /\ \A k \in Ids : sidecar[k] # j
      BY <2>7, <3>1 DEF IdInv
    <3> QED BY <2>1, <2>3, <2>4, <3>1, <3>2, NoIdOut
  <2>8. IdInv'
    BY <1>2, <1>5, <2>4, <2>7 DEF IdInv
  <2>9. ASSUME NEW j \in Ids, sidecar'[j] # NoId
        PROVE  /\ status'[j] = "live" /\ status'[sidecar'[j]] = "live"
               /\ sidecar'[j] # j /\ sidecar'[sidecar'[j]] # j
               /\ sidecar'[sidecar'[j]] # NoId => isSidecar'[sidecar'[sidecar'[j]]]
    <3>1. CASE j = c
      <4>1. sidecar'[c] \in ids \ {c} /\ c \in Ids
        BY <1>1, <2>3, <2>9, <3>1
      <4>2. sidecar'[sidecar'[c]] = NoId
        BY <1>2, <2>3, <4>1
      <4> QED BY <1>1, <2>2, <2>4, <3>1, <4>1, <4>2, NoIdOut
    <3>2. CASE j # c
      <4>1. sidecar'[j] = sidecar[j] /\ sidecar[j] \in Ids /\ sidecar[j] # c
        BY <1>1, <1>2, <2>2, <2>3, <2>9, <3>2 DEF NamesTypeOK
      <4>2. sidecar'[sidecar'[j]] = sidecar[sidecar[j]]
        BY <2>3, <4>1
      <4> QED BY <2>1, <2>4, <2>9, <4>1, <4>2 DEF FamilyInv
    <3> QED BY <3>1, <3>2
  <2>10. ASSUME NEW j \in Ids, NEW k \in Ids, sidecar'[j] # NoId, sidecar'[j] = sidecar'[k]
         PROVE  j = k
    BY <1>2, <2>3, <2>10 DEF FamilyInv
  <2>11. FamilyInv'
    BY <2>9, <2>10 DEF FamilyInv
  <2> QED BY <1>1, <2>5, <2>6, <2>8, <2>11
<1>9. CASE job[g].op \notin {"add", "clone"}
  <2>1. /\ status' = [j \in Ids |-> IF j \in ids THEN "live" ELSE status[j]]
        /\ UNCHANGED <<state, isSidecar, sidecar>>
    BY <1>9 DEF Finish, ids
  <2>2. /\ \A j \in Ids \ ids : status'[j] = status[j]
        /\ \A j \in ids : status'[j] = "live"
        /\ \A j \in Ids : status[j] = "live" => status'[j] = "live"
    BY <1>2, <2>1
  <2>3. NamesTypeOK'
    BY <1>4, <1>6, <2>1 DEF NamesTypeOK
  <2>4. JobInv'
    BY <1>2, <1>4, <1>5, <2>1, <2>2, OthersGoOn DEF ids, i
  <2>5. IdInv'
    BY <1>2, <1>5, <2>1, <2>2 DEF IdInv
  <2>6. FamilyInv'
    BY <2>1, <2>2 DEF FamilyInv, NamesTypeOK
  <2> QED BY <1>1, <2>3, <2>4, <2>5, <2>6
<1> QED BY <1>7, <1>8, <1>9

\* Start and Stop change the states of a family that no call is on.
LEMMA SafeState ==
  ASSUME Safe, NEW i \in Ids, NEW st \in States, i \in Live, Quiet(i),
         SetState(i, st) \/ UNCHANGED state,
         UNCHANGED <<registry, status, name, isSidecar, sidecar, job, preloaders, raced>>
  PROVE  Safe'
<1> USE DEF Safe
<1>1. \A j \in Ids : j \notin Family(i) => state'[j] = state[j]
  BY DEF SetState
<1>2. \A j \in Family(i) : j \in Ids /\ status[j] = "live"
  BY DEF Family, FamilyInv, Live, NamesTypeOK
<1>3. NamesTypeOK'
  <2>1. state' \in [Ids -> States]
    BY DEF SetState, NamesTypeOK
  <2> QED BY <2>1 DEF NamesTypeOK
<1>4. IdInv'
  BY <1>1, <1>2 DEF IdInv
<1>5. FamilyInv' /\ NameInv'
  BY DEF FamilyInv, NameInv, NamesOf
<1>6. ASSUME NEW h \in Goroutines, Working(h) PROVE Working(h)'
  <2>1. job[h].op # "new" => job[h].on \in Ids /\ job[h].on \in Live
    BY <1>6 DEF Working, Live
  <2>2. job[h].op # "new" => state'[job[h].on] = state[job[h].on]
    BY <1>1, <2>1, QuietFacts
  <2> QED BY <1>6, <2>2, WorkingKept DEF Working
<1>7. JobInv'
  BY <1>6 DEF JobInv
<1> QED BY <1>3, <1>4, <1>5, <1>7

\* A step that concerns no instance.
LEMMA SafeOthers ==
  ASSUME Safe, NameInv', UNCHANGED <<status, name, state, isSidecar, sidecar, job>>
  PROVE  Safe'
<1>1. NamesTypeOK'
  BY DEF Safe, NamesTypeOK
<1>2. IdInv' /\ FamilyInv'
  BY DEF Safe, IdInv, FamilyInv
<1>3. ASSUME NEW h \in Goroutines, Working(h) PROVE Working(h)'
  BY <1>3, WorkingKept DEF Working
<1>4. JobInv'
  BY <1>3 DEF Safe, JobInv
<1> QED BY <1>1, <1>2, <1>4 DEF Safe

\* preloader.New stores a name that was free when it was looked up, and takes nothing back.
LEMMA PreloaderStep ==
  ASSUME Safe, \/ \E r \in Requests : NewPreloader(r)
               \/ AddPreloader
  PROVE  /\ UNCHANGED <<instances, job, cluster, renamed, unstarted>>
         /\ raced \subseteq raced'
         /\ NameInv'
<1>1. ASSUME NEW r \in Requests, NewPreloader(r)
      PROVE  /\ UNCHANGED <<instances, job, cluster, renamed, unstarted>>
             /\ raced \subseteq raced'
             /\ NameInv'
  <2>1. UNCHANGED <<registry, instances, job, preloaders, cluster, raced, renamed, unstarted>>
    BY <1>1 DEF NewPreloader
  <2> QED BY <2>1 DEF Safe, NameInv, NamesOf, instances
<1>2. ASSUME AddPreloader
      PROVE  /\ UNCHANGED <<instances, job, cluster, renamed, unstarted>>
             /\ raced \subseteq raced'
             /\ NameInv'
  <2>1. /\ preloading # <<>> /\ registry' = registry \cup {preloading}
        /\ raced' = IF preloading \in registry THEN raced \cup {preloading} ELSE raced
        /\ preloaders' = preloaders \cup {preloading}
        /\ UNCHANGED <<instances, job, cluster, renamed, unstarted>>
    BY <1>2 DEF AddPreloader
  <2>2. UNCHANGED name
    BY <2>1 DEF instances
  <2>3. ASSUME NEW i \in Ids, name[i] # <<>>
        PROVE  \/ name[i] \in registry' \ preloaders' /\ \A j \in Ids \ {i} : name'[j] # name[i]
               \/ name[i] \in raced'
    <3>1. CASE name[i] \in raced
      BY <2>1, <3>1
    <3>2. CASE name[i] \notin raced
      <4>1. name[i] \in registry \ preloaders /\ \A j \in Ids \ {i} : name[j] # name[i]
        BY <2>3, <3>2 DEF Safe, NameInv
      <4> QED BY <2>1, <2>2, <4>1
    <3> QED BY <3>1, <3>2
  <2>4. /\ <<>> \notin registry' /\ preloaders' \subseteq registry' \cup raced'
        /\ registry' \subseteq NamesOf(Ids)' \cup preloaders'
    BY <2>1, <2>2 DEF Safe, NameInv, NamesOf
  <2> QED BY <2>1, <2>2, <2>3, <2>4 DEF NameInv
<1> QED BY <1>1, <1>2

\* At first no instance exists and no name is registered.
LEMMA SafeInit == Init => Safe
<1> SUFFICES ASSUME Init PROVE Safe
  OBVIOUS
<1> USE DEF Init
<1>1. NamesTypeOK
  BY DEF NamesTypeOK, States
<1>2. IdInv /\ FamilyInv
  BY NoIdOut DEF IdInv, FamilyInv
<1>3. JobInv
  BY DEF JobInv, Idle, Job
<1>4. NameInv
  BY DEF NameInv
<1> QED BY <1>1, <1>2, <1>3, <1>4 DEF Safe

\* Every step of every goroutine keeps the invariant.
LEMMA SafeStep == Safe /\ [Next]_vars => Safe'
<1> SUFFICES ASSUME Safe, [Next]_vars PROVE Safe'
  OBVIOUS
<1>1. ASSUME NEW g \in Goroutines, Call(g) PROVE Safe'
  BY <1>1, SafeCall
<1>2. ASSUME NEW g \in Goroutines, SetName(g) PROVE Safe'
  BY <1>2, SafeLookup, SafeFirstName, SafeFinish DEF SetName
<1>3. ASSUME NEW i \in Ids, StartAsync(i) PROVE Safe'
  <2>1. /\ i \in Live /\ Quiet(i) /\ (SetState(i, "Started") \/ UNCHANGED state)
        /\ UNCHANGED <<registry, status, name, isSidecar, sidecar, job, preloaders, raced>>
    BY <1>3 DEF StartAsync, history, preloads
  <2> QED BY <2>1, SafeState DEF States
<1>4. ASSUME NEW i \in Ids, Stop(i) PROVE Safe'
  <2>1. /\ i \in Live /\ Quiet(i) /\ SetState(i, "Stopped")
        /\ UNCHANGED <<registry, status, name, isSidecar, sidecar, job, preloaders, raced>>
    BY <1>4 DEF Stop, history, preloads
  <2> QED BY <2>1, SafeState DEF States
<1>5. ASSUME UNCHANGED vars PROVE Safe'
  <2>1. UNCHANGED <<registry, status, name, state, isSidecar, sidecar, job, preloaders, raced>>
    BY <1>5 DEF vars, instances, history, preloads
  <2>2. NameInv'
    BY <2>1 DEF Safe, NameInv, NamesOf
  <2> QED BY <2>1, <2>2, SafeOthers
<1>6. ASSUME \/ \E r \in Requests : NewPreloader(r)
             \/ AddPreloader
      PROVE  Safe'
  BY <1>6, PreloaderStep, SafeOthers DEF instances
<1> QED BY <1>1, <1>2, <1>3, <1>4, <1>5, <1>6 DEF Next

\* The invariant holds in every behaviour.
LEMMA SafeHolds == Spec => []Safe
BY SafeInit, SafeStep, PTL DEF Spec

\* No rename, clone or failed call gives away a name that is in use: two instances at hand
\* share one, or one shares it with a preloader, or the name of one is free for others, only
\* after a race between the lookup and the store of SetName or preloader.New.  The invariant has to speak of the ids in the making as well,
\* since a clone's sidecar has its name before it is at hand.
THEOREM NoNameIsGivenAway == Spec => []NamesAreUnique
<1>1. Safe => NamesAreUnique
  BY DEF Safe, IdInv, NameInv, NamesAreUnique, Live
<1> QED BY <1>1, SafeHolds, PTL

\* SetName gives the old name back: a name that is refused is the name of an instance, that
\* the test may have lost when a call failed, or was given to a preloader, which keeps it.
THEOREM OldNamesAreFree == Spec => []NamesAreReclaimed
<1>1. Safe => NamesAreReclaimed
  BY DEF Safe, IdInv, NameInv, NamesOf, NamesAreReclaimed, Unused
<1> QED BY <1>1, SafeHolds, PTL

-----------------------------------------------------------------------------
(* Pods and services *)

LEMMA IdsAreFinite ==
  ASSUME NEW S \in SUBSET Ids
  PROVE  IsFiniteSet(S) /\ Cardinality(S) \in Nat
<1>1. MaxInstances \in Int
  BY NamesAssumption
<1>2. IsFiniteSet(Ids)
  BY <1>1, FS_Interval DEF Ids
<1> QED BY <1>2, FS_Subset, FS_CardinalityType

\* A start that makes a pod adds an instance that is up, or takes one away that is down.
LEMMA Credit ==
  ASSUME NEW U \in SUBSET Ids, NEW D \in SUBSET Ids, NEW i \in Ids, Ledger(U, D, FALSE)
  PROVE  /\ i \notin U => Ledger(U \cup {i}, D, TRUE)
         /\ i \in D => Ledger(U, D \ {i}, TRUE)
<1>1. /\ IsFiniteSet(U) /\ Cardinality(U) \in Nat /\ IsFiniteSet(D) /\ Cardinality(D) \in Nat
      /\ Cardinality(U) >= Cardinality(D)
  BY IdsAreFinite DEF Ledger
<1>2. i \notin U => Cardinality(U \cup {i}) = Cardinality(U) + 1
  BY <1>1, FS_AddElement
<1>3. i \in D => Cardinality(D \ {i}) = Cardinality(D) - 1
  BY <1>1, FS_RemoveElement
<1> QED BY <1>1, <1>2, <1>3 DEF Ledger

\* A stop that takes a pod away costs one instance that is up, or adds one that is down.
LEMMA Debit ==
  ASSUME NEW U \in SUBSET Ids, NEW D \in SUBSET Ids, NEW E \in SUBSET D, NEW i \in Ids,
         NEW pod \in BOOLEAN, Ledger(U, D, pod)
  PROVE  /\ Ledger(U, E, pod)
         /\ pod => Ledger(U, E, FALSE) /\ Ledger(U \ {i}, E, FALSE) /\ Ledger(U, E \cup {i}, FALSE)
<1>1. /\ IsFiniteSet(U) /\ Cardinality(U) \in Nat /\ IsFiniteSet(D) /\ Cardinality(D) \in Nat
      /\ IsFiniteSet(E) /\ Cardinality(E) \in Nat
  BY IdsAreFinite
<1>2. Cardinality(E) <= Cardinality(D)
  BY <1>1, FS_Subset
<1>3. /\ Cardinality(U \ {i}) \in {Cardinality(U), Cardinality(U) - 1}
      /\ Cardinality(E \cup {i}) \in {Cardinality(E), Cardinality(E) + 1}
  BY <1>1, FS_AddElement, FS_RemoveElement
<1>4. CASE pod = TRUE
  <2>1. Cardinality(U) >= Cardinality(D) + 1
    BY <1>4 DEF Ledger
  <2> QED BY <1>1, <1>2, <1>3, <1>4, <2>1 DEF Ledger
<1>5. CASE pod = FALSE
  <2>1. Cardinality(U) >= Cardinality(D)
    BY <1>1, <1>5 DEF Ledger
  <2> QED BY <1>1, <1>2, <1>5, <2>1 DEF Ledger
<1> QED BY <1>4, <1>5

\* What storing a name, and the end of the call, does to the instances: it touches what the
\* call has made, renames one, and gives a fresh sidecar to one that is not up.
Stored(g) ==
  /\ UNCHANGED <<pods, services>>
  /\ raced \subseteq raced' /\ renamed \subseteq renamed' /\ unstarted \subseteq unstarted'
  /\ \A j \in Ids \ job[g].fresh :
       /\ state'[j] = state[j] /\ isSidecar'[j] = isSidecar[j] /\ status'[j] = status[j]
       /\ name'[j] = name[j] \/ j \in renamed' \/ state[j] = "Committed"
  /\ \A j \in job[g].fresh :
       /\ j \in Ids /\ status[j] = "making"
       /\ state'[j] = "Committed" \/ (state'[j] = "Stopped" /\ j \in unstarted')
  /\ \A p \in Ids :
       \/ sidecar'[p] = sidecar[p]
       \/ sidecar[p] = NoId /\ state'[p] # "Started" /\ sidecar'[p] \in job[g].fresh

\* AddInstanceName of a name that was looked up, and what the call does with it.
LEMMA StoreStep ==
  ASSUME Safe, NEW g \in Goroutines, SetName(g), ~HasInstanceName(g)
  PROVE  Stored(g)
<1> USE DEF Safe
<1> DEFINE i == job[g].on
           c == First(g).inst
           ids == job[g].fresh
<1>1. /\ Working(g) /\ c \in Ids
      /\ \A j \in Ids \ {c} : name'[j] = name[j]
  BY NameStored DEF SetName
<1>2. /\ UNCHANGED <<pods, services>>
      /\ raced \subseteq raced' /\ renamed \subseteq renamed'
      /\ job[g].op = "rename" /\ state[c] # "Committed" => c \in renamed'
  BY DEF SetName, AddInstanceName, First, cluster
<1>3. /\ ids \subseteq Ids
      /\ \A j \in ids : status[j] = "making" /\ sidecar[j] = NoId /\ state[j] = "Committed"
  BY JobFacts DEF IdInv
<1>4. c \in ids \/ job[g].op = "rename"
  BY <1>1 DEF Working, Shape
<1>5. \A j \in Ids \ ids : name'[j] = name[j] \/ j \in renamed' \/ state[j] = "Committed"
  BY <1>1, <1>2, <1>4
<1>6. \/ UNCHANGED <<status, state, isSidecar, sidecar, unstarted>>
      \/ Finish(g)
  BY DEF SetName
<1>7. job[g].op \in {"add", "clone"} =>
        i \in Ids /\ state[i] \in {"Committed", "Stopped"} /\ i \notin ids
  BY <1>1, <1>3 DEF Working
<1>8. job[g].op = "add" => sidecar[i] = NoId
  BY <1>1 DEF Working
<1> HIDE DEF i, c, ids
<1>9. CASE UNCHANGED <<status, state, isSidecar, sidecar, unstarted>>
  BY <1>2, <1>3, <1>5, <1>9 DEF Stored, ids
<1>10. CASE Finish(g) /\ job[g].op = "add"
  <2>1. /\ isSidecar' = [isSidecar EXCEPT ![c] = TRUE]
        /\ \/ status' = [status EXCEPT ![c] = "orphan"] /\ UNCHANGED sidecar
           \/ status' = [status EXCEPT ![c] = "live"] /\ sidecar' = [sidecar EXCEPT ![i] = c]
        /\ UNCHANGED <<state, unstarted>>
    BY <1>10 DEF Finish, i, c, First
  <2>2. c \in ids
    BY <1>4, <1>10
  <2>3. \A j \in Ids \ ids : isSidecar'[j] = isSidecar[j] /\ status'[j] = status[j]
    BY <2>1, <2>2 DEF NamesTypeOK
  <2>4. \A p \in Ids :
          \/ sidecar'[p] = sidecar[p]
          \/ sidecar[p] = NoId /\ state'[p] # "Started" /\ sidecar'[p] \in ids
    BY <1>7, <1>8, <1>10, <2>1, <2>2 DEF NamesTypeOK
  <2> QED BY <1>2, <1>3, <1>5, <2>1, <2>3, <2>4 DEF Stored, ids
<1>11. CASE Finish(g) /\ job[g].op = "clone"
  <2>1. /\ status' = [j \in Ids |-> IF j \in ids THEN "live" ELSE status[j]]
        /\ state' = [j \in Ids |-> IF j \in ids THEN state[i] ELSE state[j]]
        /\ sidecar' = [sidecar EXCEPT ![c] = IF ids = {c} THEN NoId ELSE Pick(ids \ {c})]
        /\ unstarted' = IF state[i] = "Stopped" THEN unstarted \cup ids ELSE unstarted
        /\ UNCHANGED isSidecar
    BY <1>11 DEF Finish, i, c, ids, First
  <2>2. c \in ids /\ sidecar[c] = NoId
    BY <1>3, <1>4, <1>11
  <2>3. state'[c] # "Started"
    BY <1>1, <1>7, <1>11, <2>1, <2>2
  <2>4. sidecar'[c] \in ids \cup {NoId}
    <3>1. ids # {c} => Pick(ids \ {c}) \in ids
      BY <2>2, PickType
    <3> QED BY <1>1, <2>1, <3>1 DEF NamesTypeOK
  <2>5. \A p \in Ids :
          \/ sidecar'[p] = sidecar[p]
          \/ sidecar[p] = NoId /\ state'[p] # "Started" /\ sidecar'[p] \in ids
    BY <2>1, <2>2, <2>3, <2>4 DEF NamesTypeOK
  <2>6. \A j \in ids : state'[j] = "Committed" \/ (state'[j] = "Stopped" /\ j \in unstarted')
    BY <1>3, <1>7, <1>11, <2>1
  <2> QED BY <1>2, <1>3, <1>5, <2>1, <2>5, <2>6 DEF Stored, ids
<1>12. CASE Finish(g) /\ job[g].op \notin {"add", "clone"}
  <2>1. /\ status' = [j \in Ids |-> IF j \in ids THEN "live" ELSE status[j]]
        /\ UNCHANGED <<state, isSidecar, sidecar, unstarted>>
    BY <1>12 DEF Finish, ids
  <2> QED BY <1>2, <1>3, <1>5, <2>1 DEF Stored, ids
<1> QED BY <1>6, <1>9, <1>10, <1>11, <1>12

\* The names and states of the instances do not change.
LEMMA BalanceSame ==
  ASSUME BalanceInv, UNCHANGED <<name, state, isSidecar, sidecar, pods, renamed>>
  PROVE  BalanceInv'
<1>1. ASSUME NEW n PROVE Balanced(n)' <=> Balanced(n)
  BY DEF Balanced, Ledger, Up, Down, Parentless
<1> QED BY <1>1 DEF BalanceInv

\* Storing a name leaves alone who is up and who is down: a fresh instance is neither, nor
\* is one that is renamed before its start.
LEMMA BalanceStore ==
  ASSUME Safe, BalanceInv, NEW g \in Goroutines, Stored(g)
  PROVE  BalanceInv'
<1> USE DEF Safe
<1> DEFINE fresh == job[g].fresh
<1> SUFFICES ASSUME renamed' = {}
             PROVE  /\ \A n : Balanced(n)'
                    /\ \A p \in Ids :
                         state'[p] = "Started" /\ sidecar'[p] # NoId /\ ~isSidecar'[sidecar'[p]] =>
                           state'[sidecar'[p]] # "Committed"
  BY DEF BalanceInv
<1>1. /\ UNCHANGED pods
      /\ \A j \in Ids \ fresh :
           /\ state'[j] = state[j] /\ isSidecar'[j] = isSidecar[j]
           /\ name'[j] = name[j] \/ state[j] = "Committed"
      /\ \A j \in fresh : j \in Ids /\ status[j] = "making" /\ state'[j] # "Started"
      /\ \A p \in Ids :
           \/ sidecar'[p] = sidecar[p]
           \/ sidecar[p] = NoId /\ state'[p] # "Started" /\ sidecar'[p] \in fresh
  BY DEF Stored
<1>2. /\ \A n : Balanced(n)
      /\ \A p \in Ids :
           state[p] = "Started" /\ sidecar[p] # NoId /\ ~isSidecar[sidecar[p]] =>
             state[sidecar[p]] # "Committed"
  BY DEF Stored, BalanceInv
<1>3. \A j \in fresh : /\ state[j] = "Committed" /\ sidecar[j] = NoId
                       /\ \A p \in Ids : sidecar[p] # j
  BY <1>1 DEF IdInv
<1> HIDE DEF fresh
<1>4. \A j \in fresh : Parentless(j) /\ Parentless(j)'
  BY <1>1, <1>3 DEF Parentless
<1>5. ASSUME NEW j \in Ids \ fresh PROVE Parentless(j)' <=> Parentless(j)
  <2>1. ASSUME NEW p \in Ids
        PROVE  (sidecar'[p] = j /\ state'[p] = "Started") <=> (sidecar[p] = j /\ state[p] = "Started")
    BY <1>1, <1>3, NoIdOut
  <2> QED BY <2>1 DEF Parentless
<1>6. ASSUME NEW j \in Ids \ fresh, state[j] = "Committed" PROVE isSidecar[j] \/ Parentless(j)
  BY <1>2, <1>6, NoIdOut DEF Parentless
<1>7. ASSUME NEW n PROVE Up(n)' = Up(n) /\ Down(n)' = Down(n)
  <2>1. ASSUME NEW j \in fresh
        PROVE  j \notin Up(n)' /\ j \notin Up(n) /\ j \notin Down(n)' /\ j \notin Down(n)
    BY <1>1, <1>3, <1>4 DEF Up, Down
  <2>2. ASSUME NEW j \in Ids \ fresh
        PROVE  (j \in Up(n)' <=> j \in Up(n)) /\ (j \in Down(n)' <=> j \in Down(n))
    <3>1. CASE name'[j] = name[j]
      BY <1>1, <1>5, <3>1 DEF Up, Down
    <3>2. CASE state[j] = "Committed"
      BY <1>1, <1>5, <1>6, <3>2 DEF Up, Down
    <3> QED BY <1>1, <3>1, <3>2
  <2> QED BY <2>1, <2>2 DEF Up, Down
<1>8. ASSUME NEW n PROVE Balanced(n)'
  BY <1>1, <1>2, <1>7 DEF Balanced
<1>9. ASSUME NEW p \in Ids, state'[p] = "Started", sidecar'[p] # NoId, ~isSidecar'[sidecar'[p]]
      PROVE  state'[sidecar'[p]] # "Committed"
  <2>1. sidecar'[p] = sidecar[p] /\ p \notin fresh /\ state[p] = "Started"
    BY <1>1, <1>9
  <2>2. sidecar[p] \in Ids \ fresh
    BY <1>3, <1>9, <2>1 DEF NamesTypeOK
  <2> QED BY <1>1, <1>2, <1>9, <2>1, <2>2
<1> QED BY <1>8, <1>9

\* When the states of i and its sidecar change, the others are up and down as before: the
\* sidecar of the sidecar is marked.
LEMMA OthersStay ==
  ASSUME Safe, NEW i \in Ids, NEW st \in States, i \in Live, SetState(i, st),
         UNCHANGED <<name, isSidecar, sidecar>>
  PROVE  /\ \A j \in Ids : state'[j] = IF j \in Family(i) THEN st ELSE state[j]
         /\ Parentless(i)' <=> Parentless(i)
         /\ \A n, j : j \notin Family(i) =>
              (j \in Up(n)' <=> j \in Up(n)) /\ (j \in Down(n)' <=> j \in Down(n))
<1> USE DEF Safe
<1>1. \A j \in Ids : state'[j] = IF j \in Family(i) THEN st ELSE state[j]
  BY DEF SetState
<1>2. \A p \in Ids : sidecar[p] = i => p \notin Family(i)
  BY NoIdOut DEF Family, FamilyInv
<1>3. Parentless(i)' <=> Parentless(i)
  BY <1>1, <1>2 DEF Parentless
<1>4. ASSUME NEW j \in Ids, j \notin Family(i), ~isSidecar[j]
      PROVE  Parentless(j)' <=> Parentless(j)
  <2>1. \A p \in Ids : sidecar[p] = j => p \notin Family(i)
    BY <1>4, NoIdOut DEF Family, FamilyInv
  <2> QED BY <1>1, <2>1 DEF Parentless
<1>5. ASSUME NEW n, NEW j \in Ids, j \notin Family(i)
      PROVE  (j \in Up(n)' <=> j \in Up(n)) /\ (j \in Down(n)' <=> j \in Down(n))
  <2>1. CASE isSidecar[j] = TRUE
    BY <2>1 DEF Up, Down
  <2>2. CASE isSidecar[j] = FALSE
    <3>1. state'[j] = state[j] /\ (Parentless(j)' <=> Parentless(j))
      BY <1>1, <1>4, <1>5, <2>2
    <3> QED BY <3>1 DEF Up, Down
  <2> QED BY <2>1, <2>2 DEF NamesTypeOK
<1>6. \A n, j : j \notin Ids => j \notin Up(n)' /\ j \notin Up(n) /\ j \notin Down(n)' /\ j \notin Down(n)
  BY DEF Up, Down
<1> QED BY <1>1, <1>3, <1>5, <1>6

\* StartAsync of an instance whose name is its own creates one pod and starts one
\* instance; its sidecars are started with it.
LEMMA BalanceStart ==
  ASSUME Safe, BalanceInv, NEW i \in Ids, StartAsync(i)
  PROVE  BalanceInv'
<1> USE DEF Safe
<1>1. /\ i \in Live /\ Startable(i)
      /\ UNCHANGED <<name, isSidecar, sidecar, renamed>>
      /\ \/ UNCHANGED <<pods, state>>
         \/ name[i] \notin pods /\ pods' = pods \cup {name[i]} /\ SetState(i, "Started")
  BY DEF StartAsync, history
<1>2. CASE UNCHANGED <<pods, state>>
  BY <1>1, <1>2, BalanceSame
<1>3. CASE name[i] \notin pods /\ pods' = pods \cup {name[i]} /\ SetState(i, "Started")
  <2> SUFFICES ASSUME renamed' = {}
               PROVE  /\ \A n : Balanced(n)'
                      /\ \A p \in Ids :
                           state'[p] = "Started" /\ sidecar'[p] # NoId /\ ~isSidecar'[sidecar'[p]] =>
                             state'[sidecar'[p]] # "Committed"
    BY DEF BalanceInv
  <2>1. /\ \A n : Balanced(n)
        /\ \A p \in Ids :
             state[p] = "Started" /\ sidecar[p] # NoId /\ ~isSidecar[sidecar[p]] =>
               state[sidecar[p]] # "Committed"
    BY <1>1 DEF BalanceInv
  <2>2. "Started" \in States
    BY DEF States
  <2>3. /\ \A j \in Ids : state'[j] = IF j \in Family(i) THEN "Started" ELSE state[j]
        /\ Parentless(i)' <=> Parentless(i)
        /\ \A n, j : j \notin Family(i) =>
             (j \in Up(n)' <=> j \in Up(n)) /\ (j \in Down(n)' <=> j \in Down(n))
    BY <1>1, <1>3, <2>2, OthersStay
  <2>4. /\ ~isSidecar[i] /\ i \in Family(i)
        /\ \A j \in Family(i) : j \in Ids /\ state[j] # "Started"
    BY <1>1, NoIdOut DEF Startable, Family, NamesTypeOK
  <2>5. ASSUME NEW n, NEW j \in Family(i), j # i
        PROVE  j \notin Up(n) /\ j \notin Down(n) /\ j \notin Up(n)' /\ j \notin Down(n)'
    <3>1. j = sidecar[i] /\ j # NoId
      BY <2>5 DEF Family
    <3>2. Parentless(j)
      BY <2>4, <3>1 DEF Parentless, FamilyInv
    <3>3. ~Parentless(j)'
      BY <1>1, <2>3, <2>4, <3>1 DEF Parentless
    <3>4. state[j] # "Started" /\ state'[j] = "Started"
      BY <2>3, <2>4
    <3> QED BY <3>2, <3>3, <3>4 DEF Up, Down
  <2>6. ASSUME NEW n
        PROVE  /\ i \notin Up(n) /\ i \notin Down(n)'
               /\ i \in Up(n)' <=> (n = name[i] /\ Parentless(i))
               /\ i \in Down(n) <=> (n = name[i] /\ ~Parentless(i))
    <3>1. state[i] # "Started" /\ state'[i] = "Started" /\ name'[i] = name[i] /\ ~isSidecar'[i]
      BY <1>1, <2>3, <2>4
    <3> QED BY <2>3, <2>4, <3>1 DEF Up, Down
  <2>7. ASSUME NEW n PROVE Balanced(n)'
    <3>0. ASSUME NEW j, j # i
          PROVE  (j \in Up(n)' <=> j \in Up(n)) /\ (j \in Down(n)' <=> j \in Down(n))
      BY <2>3, <2>5, <3>0
    <3>1. Up(n) \in SUBSET Ids /\ Down(n) \in SUBSET Ids
      BY DEF Up, Down
    <3>2. CASE n # name[i]
      <4>1. Up(n)' = Up(n) /\ Down(n)' = Down(n)
        BY <2>3, <2>5, <2>6, <3>2
      <4>2. n \in pods' <=> n \in pods
        BY <1>3, <3>2
      <4> QED BY <2>1, <4>1, <4>2 DEF Balanced, Ledger
    <3>3. CASE n = name[i]
      <4>1. Ledger(Up(n), Down(n), FALSE) /\ n \in pods'
        BY <1>3, <2>1, <3>3 DEF Balanced, Ledger
      <4>2. CASE Parentless(i)
        <5>1. Up(n)' = Up(n) \cup {i} /\ Down(n)' = Down(n)
          <6>1. i \in Up(n)' /\ i \notin Down(n) /\ i \notin Down(n)'
            BY <2>6, <3>3, <4>2
          <6> QED BY <3>0, <6>1
        <5>2. Ledger(Up(n) \cup {i}, Down(n), TRUE)
          BY <2>6, <3>1, <4>1, Credit
        <5> QED BY <4>1, <5>1, <5>2 DEF Balanced, Ledger
      <4>3. CASE ~Parentless(i)
        <5>1. Up(n)' = Up(n) /\ Down(n)' = Down(n) \ {i}
          BY <2>6, <3>0, <3>3, <4>3
        <5>2. i \in Down(n)
          BY <2>6, <3>3, <4>3
        <5>3. Ledger(Up(n), Down(n) \ {i}, TRUE)
          BY <3>1, <4>1, <5>2, Credit
        <5> QED BY <4>1, <5>1, <5>3 DEF Balanced, Ledger
      <4> QED BY <4>2, <4>3
    <3> QED BY <3>2, <3>3
  <2>8. ASSUME NEW p \in Ids, state'[p] = "Started", sidecar'[p] # NoId, ~isSidecar'[sidecar'[p]]
        PROVE  state'[sidecar'[p]] # "Committed"
    <3>1. sidecar'[p] = sidecar[p] /\ sidecar[p] \in Ids /\ ~isSidecar[sidecar[p]]
      BY <1>1, <2>8 DEF NamesTypeOK
    <3>2. CASE sidecar[p] \in Family(i)
      BY <2>3, <3>1, <3>2
    <3>3. CASE sidecar[p] \notin Family(i)
      <4>1. p \notin Family(i)
        BY <2>4, <2>8, <3>1, <3>3, NoIdOut DEF Family, FamilyInv
      <4> QED BY <2>1, <2>3, <2>8, <3>1, <3>3, <4>1
    <3> QED BY <3>2, <3>3
  <2> QED BY <2>7, <2>8
<1> QED BY <1>1, <1>2, <1>3

\* Stop takes the pod away from the name, and the state from the instance and its sidecars.
LEMMA BalanceStop ==
  ASSUME Safe, BalanceInv, NEW i \in Ids, Stop(i)
  PROVE  BalanceInv'
<1> USE DEF Safe
<1>1. /\ i \in Live /\ state[i] = "Started" /\ name[i] \in pods
      /\ pods' = pods \ {name[i]} /\ SetState(i, "Stopped")
      /\ UNCHANGED <<name, isSidecar, sidecar, renamed>>
  BY DEF Stop, history
<1> SUFFICES ASSUME renamed' = {}
             PROVE  /\ \A n : Balanced(n)'
                    /\ \A p \in Ids :
                         state'[p] = "Started" /\ sidecar'[p] # NoId /\ ~isSidecar'[sidecar'[p]] =>
                           state'[sidecar'[p]] # "Committed"
  BY DEF BalanceInv
<1>2. /\ \A n : Balanced(n)
      /\ \A p \in Ids :
           state[p] = "Started" /\ sidecar[p] # NoId /\ ~isSidecar[sidecar[p]] =>
             state[sidecar[p]] # "Committed"
  BY <1>1 DEF BalanceInv
<1>3. "Stopped" \in States
  BY DEF States
<1>4. /\ \A j \in Ids : state'[j] = IF j \in Family(i) THEN "Stopped" ELSE state[j]
      /\ Parentless(i)' <=> Parentless(i)
      /\ \A n, j : j \notin Family(i) =>
           (j \in Up(n)' <=> j \in Up(n)) /\ (j \in Down(n)' <=> j \in Down(n))
  BY <1>1, <1>3, OthersStay
<1>5. i \in Family(i) /\ \A j \in Family(i) : j \in Ids
  BY NoIdOut DEF Family, NamesTypeOK
<1>6. ASSUME NEW n, NEW j \in Family(i), j # i
      PROVE  j \notin Up(n) /\ j \notin Up(n)' /\ j \notin Down(n)'
  <2>1. j = sidecar[i] /\ j # NoId
    BY <1>6 DEF Family
  <2>2. ~Parentless(j)
    BY <1>1, <2>1 DEF Parentless
  <2>3. Parentless(j)'
    BY <1>1, <1>4, <1>5, <2>1 DEF Parentless, FamilyInv
  <2>4. state'[j] = "Stopped"
    BY <1>4, <1>5
  <2> QED BY <2>2, <2>3, <2>4 DEF Up, Down
<1>7. ASSUME NEW n
      PROVE  /\ i \notin Up(n)' /\ i \notin Down(n)
             /\ i \in Up(n) => n = name[i] /\ Parentless(i)
             /\ i \in Down(n)' => n = name[i] /\ ~Parentless(i)
  <2>1. state'[i] = "Stopped" /\ name'[i] = name[i]
    BY <1>1, <1>4, <1>5
  <2> QED BY <1>1, <1>4, <2>1 DEF Up, Down
<1>8. ASSUME NEW n PROVE Balanced(n)'
  <2> DEFINE D == Down(n) \cap Down(n)'
  <2>1. Up(n) \in SUBSET Ids /\ Down(n) \in SUBSET Ids /\ D \in SUBSET Down(n)
    BY DEF Up, Down
  <2>2. (n \in pods) \in BOOLEAN /\ Ledger(Up(n), Down(n), n \in pods)
    BY <1>2 DEF Balanced
  <2>3. CASE n # name[i]
    <3>1. Up(n)' = Up(n) /\ Down(n)' = D
      BY <1>4, <1>6, <1>7, <2>3
    <3> HIDE DEF D
    <3>2. Ledger(Up(n), D, n \in pods)
      <4>1. CASE n \in pods
        <5>1. Ledger(Up(n), Down(n), TRUE)
          BY <2>2, <4>1 DEF Ledger
        <5>2. Ledger(Up(n), D, TRUE)
          BY <2>1, <5>1, Debit
        <5> QED BY <4>1, <5>2 DEF Ledger
      <4>2. CASE n \notin pods
        <5>1. Ledger(Up(n), Down(n), FALSE)
          BY <2>2, <4>2 DEF Ledger
        <5>2. Ledger(Up(n), D, FALSE)
          BY <2>1, <5>1, Debit
        <5> QED BY <4>2, <5>2 DEF Ledger
      <4> QED BY <4>1, <4>2
    <3>3. n \in pods' <=> n \in pods
      BY <1>1, <2>3
    <3> QED BY <3>1, <3>2, <3>3 DEF Balanced, Ledger
  <2>4. CASE n = name[i]
    <3>1. n \in pods /\ n \notin pods' /\ Ledger(Up(n), Down(n), TRUE)
      BY <1>1, <2>2, <2>4 DEF Ledger
    <3>2. CASE Parentless(i)
      <4>1. Up(n)' \in {Up(n), Up(n) \ {i}} /\ Down(n)' = D
        BY <1>4, <1>6, <1>7, <3>2
      <4> HIDE DEF D
      <4>2. Ledger(Up(n), D, FALSE) /\ Ledger(Up(n) \ {i}, D, FALSE)
        BY <2>1, <3>1, Debit
      <4> QED BY <3>1, <4>1, <4>2 DEF Balanced, Ledger
    <3>3. CASE ~Parentless(i)
      <4>1. Up(n)' = Up(n) /\ Down(n)' \in {D, D \cup {i}}
        BY <1>4, <1>6, <1>7, <3>3
      <4> HIDE DEF D
      <4>2. Ledger(Up(n), D, FALSE) /\ Ledger(Up(n), D \cup {i}, FALSE)
        BY <2>1, <3>1, Debit
      <4> QED BY <3>1, <4>1, <4>2 DEF Balanced, Ledger
    <3> QED BY <3>2, <3>3
  <2> QED BY <2>3, <2>4
<1>9. ASSUME NEW p \in Ids, state'[p] = "Started", sidecar'[p] # NoId, ~isSidecar'[sidecar'[p]]
      PROVE  state'[sidecar'[p]] # "Committed"
  <2>1. /\ sidecar'[p] = sidecar[p] /\ sidecar[p] \in Ids /\ ~isSidecar[sidecar[p]]
        /\ state[p] = "Started"
    BY <1>1, <1>4, <1>9 DEF NamesTypeOK
  <2> QED BY <1>2, <1>4, <1>9, <2>1
<1> QED BY <1>8, <1>9

\* At first nothing is started and there are no pods.
LEMMA BalanceInit == Init => BalanceInv
<1> SUFFICES ASSUME Init PROVE BalanceInv
  OBVIOUS
<1>1. ASSUME NEW n PROVE Balanced(n)
  <2>1. Up(n) = {} /\ Down(n) = {} /\ n \notin pods
    BY NoIdOut DEF Init, Up, Down, Parentless
  <2>2. Cardinality({}) = 0
    BY FS_EmptySet
  <2> QED BY <2>1, <2>2 DEF Balanced, Ledger
<1>2. \A p \in Ids : state[p] # "Started"
  BY DEF Init
<1> QED BY <1>1, <1>2 DEF BalanceInv

\* Every step of every goroutine keeps the balance of pods and started instances.
LEMMA BalanceStep == Safe /\ BalanceInv /\ [Next]_vars => BalanceInv'
<1> SUFFICES ASSUME Safe, BalanceInv, [Next]_vars PROVE BalanceInv'
  OBVIOUS
<1>1. ASSUME NEW g \in Goroutines, Call(g) PROVE BalanceInv'
  <2>1. UNCHANGED <<name, state, isSidecar, sidecar, cluster, renamed>>
    BY <1>1, CallStep
  <2> QED BY <2>1, BalanceSame DEF cluster
<1>2. ASSUME NEW g \in Goroutines, SetName(g) PROVE BalanceInv'
  <2>1. CASE HasInstanceName(g)
    BY <2>1, BalanceSame DEF HasInstanceName, cluster, history
  <2>2. CASE ~HasInstanceName(g)
    BY <1>2, <2>2, StoreStep, BalanceStore
  <2> QED BY <2>1, <2>2
<1>3. ASSUME UNCHANGED vars PROVE BalanceInv'
  BY <1>3, BalanceSame DEF vars, instances, cluster, history
<1>4. ASSUME \/ \E r \in Requests : NewPreloader(r)
             \/ AddPreloader
      PROVE  BalanceInv'
  BY <1>4, PreloaderStep, BalanceSame DEF instances, cluster
<1> QED BY <1>1, <1>2, <1>3, <1>4, BalanceStart, BalanceStop DEF Next

\* As long as no instance is renamed after it was started, a pod is that of an instance in
\* state Started, although a parent declares its sidecars stopped with itself and the
\* sidecar of a clone, which is not marked, can be started and stopped on its own.  The
\* claim is not inductive: a name may have several instances that are up after a race, and
\* only their number, weighed against the sidecars that may still be started beside their
\* parents, survives a Stop.
THEOREM PodsAreOwned == Spec => []PodsHaveOwners
<1>1. Safe /\ BalanceInv => PodsHaveOwners
  <2> SUFFICES ASSUME Safe, BalanceInv, renamed = {}, NEW n \in pods
               PROVE  n \in {name[i] : i \in {j \in Live : state[j] = "Started"}}
    BY DEF PodsHaveOwners
  <2>1. Up(n) \in SUBSET Ids /\ Down(n) \in SUBSET Ids
    BY DEF Up, Down
  <2>2. /\ Cardinality(Up(n)) \in Nat /\ Cardinality(Down(n)) \in Nat
        /\ Cardinality(Up(n)) >= Cardinality(Down(n)) + 1
    BY <2>1, IdsAreFinite DEF BalanceInv, Balanced, Ledger
  <2>3. Cardinality(Up(n)) # 0
    BY <2>2
  <2>4. Up(n) # {}
    BY <2>3, FS_EmptySet
  <2>5. PICK i \in Ids : name[i] = n /\ state[i] = "Started"
    BY <2>4 DEF Up
  <2>6. i \in Live
    BY <2>5 DEF Safe, IdInv, Live
  <2> QED BY <2>5, <2>6
<1>2. Spec => []BalanceInv
  BY BalanceInit, BalanceStep, SafeHolds, PTL DEF Spec
<1> QED BY <1>1, <1>2, SafeHolds, PTL

-----------------------------------------------------------------------------
(* What is deployed *)

\* The instance was deployed before the step, and still is.
LEMMA DeployedKept ==
  ASSUME NEW i \in Ids, Deployed(i),
         status'[i] = "live" => status[i] = "live",
         i \in renamed => i \in renamed', raced \subseteq raced', i \in unstarted => i \in unstarted',
         name'[i] = name[i], state'[i] = state[i],
         \A j \in Ids : sidecar[j] = i => sidecar'[j] = i,
         name[i] \in pods => name[i] \in pods',
         name[i] \in services => name[i] \in services'
  PROVE  Deployed(i)'
BY DEF Deployed

\* A call that begins deploys nothing and renames nobody.
LEMMA DeployCall ==
  ASSUME Safe, DeployInv, NEW g \in Goroutines, Call(g)
  PROVE  DeployInv'
<1>1. /\ UNCHANGED <<name, state, isSidecar, sidecar, pods, services, raced, renamed, unstarted>>
      /\ UNCHANGED <<job, status>> \/ Begun(g)
  BY CallStep DEF cluster
<1>2. \A i \in Ids : status'[i] = "live" => status[i] = "live"
  BY <1>1 DEF Begun
<1> SUFFICES ASSUME NEW i \in Ids PROVE Deployed(i)'
  BY DEF DeployInv
<1> QED BY <1>1, <1>2, DeployedKept DEF DeployInv

\* The lookup of a name, which may end the call.
LEMMA DeployLookup ==
  ASSUME Safe, DeployInv, NEW g \in Goroutines, HasInstanceName(g)
  PROVE  DeployInv'
<1>1. /\ UNCHANGED <<name, state, isSidecar, sidecar, pods, services, raced, renamed, unstarted>>
      /\ \A i \in Ids : status'[i] = "live" => status[i] = "live"
  BY DEF HasInstanceName, cluster, history
<1> SUFFICES ASSUME NEW i \in Ids PROVE Deployed(i)'
  BY DEF DeployInv
<1> QED BY <1>1, DeployedKept DEF DeployInv

\* The store of a name: a new instance is not started, a clone is as its original,
\* and a started instance that is renamed is a late rename.
LEMMA DeployStore ==
  ASSUME Safe, DeployInv, NEW g \in Goroutines, Stored(g)
  PROVE  DeployInv'
<1> SUFFICES ASSUME NEW i \in Ids PROVE Deployed(i)'
  BY DEF DeployInv
<1>1. CASE i \in job[g].fresh
  BY <1>1 DEF Stored, Deployed
<1>2. CASE i \notin job[g].fresh /\ (i \in renamed' \/ state[i] = "Committed")
  BY <1>2 DEF Stored, Deployed
<1>3. CASE i \notin job[g].fresh /\ name'[i] = name[i]
  <2>1. \A j \in Ids : sidecar[j] = i => sidecar'[j] = i
    BY NoIdOut DEF Stored
  <2> QED BY <1>3, <2>1, DeployedKept DEF Stored, DeployInv
<1> QED BY <1>1, <1>2, <1>3 DEF Stored

\* StartAsync deploys the service, in state Committed, and the pod.
LEMMA DeployStart ==
  ASSUME Safe, DeployInv, NEW i \in Ids, StartAsync(i)
  PROVE  DeployInv'
<1>1. /\ i \in Live /\ Startable(i) /\ services \subseteq services' /\ pods \subseteq pods'
      /\ state[i] = "Committed" => NamesOf({j \in Family(i) : ~isSidecar[j]}) \subseteq services'
      /\ UNCHANGED <<status, name, isSidecar, sidecar, raced, renamed, unstarted>>
      /\ UNCHANGED state \/ (name[i] \in pods' /\ SetState(i, "Started"))
  BY DEF StartAsync, history
<1>2. i \in Family(i) /\ ~isSidecar[i]
  BY <1>1, NoIdOut DEF Startable, Family
<1>3. state[i] = "Committed" => name[i] \in services'
  BY <1>1, <1>2 DEF NamesOf
<1> SUFFICES ASSUME NEW j \in Ids PROVE Deployed(j)'
  BY DEF DeployInv
<1>4. CASE state'[j] = state[j]
  BY <1>1, <1>4, DeployedKept DEF DeployInv
<1>5. CASE state'[j] # state[j]
  <2>1. name[i] \in pods' /\ j \in Family(i)
    BY <1>1, <1>5 DEF SetState
  <2>2. CASE j = i
    <3>1. CASE state[i] = "Committed"
      BY <1>1, <1>3, <2>1, <2>2, <3>1 DEF Deployed
    <3>2. CASE state[i] # "Committed"
      BY <1>1, <2>1, <2>2, <3>2 DEF Deployed, DeployInv
    <3> QED BY <3>1, <3>2
  <2>3. CASE j # i
    <3>1. sidecar'[i] = j
      BY <1>1, <2>1, <2>3 DEF Family
    <3> QED BY <3>1 DEF Deployed
  <2> QED BY <2>2, <2>3
<1> QED BY <1>4, <1>5

\* Stop takes away the pod of the instance it stops, and of nobody else.
LEMMA DeployStop ==
  ASSUME Safe, DeployInv, NEW i \in Ids, Stop(i)
  PROVE  DeployInv'
<1>1. /\ i \in Live /\ state[i] = "Started" /\ pods' = pods \ {name[i]} /\ SetState(i, "Stopped")
      /\ UNCHANGED <<status, name, isSidecar, sidecar, services, raced, renamed, unstarted>>
  BY DEF Stop, history
<1>2. i \in Family(i)
  BY NoIdOut DEF Family
<1> SUFFICES ASSUME NEW j \in Ids PROVE Deployed(j)'
  BY DEF DeployInv
<1>3. CASE j = i
  <2>1. state'[i] = "Stopped"
    BY <1>1, <1>2 DEF SetState
  <2> QED BY <1>1, <1>3, <2>1 DEF Deployed, DeployInv
<1>4. CASE j # i /\ j \in Family(i)
  <2>1. sidecar'[i] = j
    BY <1>1, <1>4 DEF Family
  <2> QED BY <2>1 DEF Deployed
<1>5. CASE j # i /\ j \notin Family(i)
  <2>1. state'[j] = state[j]
    BY <1>1, <1>5 DEF SetState
  <2>2. CASE name[j] # name[i]
    BY <1>1, <2>1, <2>2, DeployedKept DEF DeployInv
  <2>3. CASE name[j] = name[i]
    \* only a race gives two instances one name
    <3>1. name[i] # <<>>
      BY <1>1 DEF Safe, IdInv, Live
    <3>2. name[j] \in raced
      BY <1>5, <2>3, <3>1 DEF Safe, NameInv
    <3> QED BY <1>1, <3>2 DEF Deployed
  <2> QED BY <2>2, <2>3
<1> QED BY <1>3, <1>4, <1>5

\* Every step of every goroutine keeps what started instances have deployed.
LEMMA DeployStep == Safe /\ DeployInv /\ [Next]_vars => DeployInv'
<1> SUFFICES ASSUME Safe, DeployInv, [Next]_vars PROVE DeployInv'
  OBVIOUS
<1>1. ASSUME NEW g \in Goroutines, SetName(g) PROVE DeployInv'
  <2>1. CASE HasInstanceName(g)
    BY <2>1, DeployLookup
  <2>2. CASE ~HasInstanceName(g)
    BY <1>1, <2>2, StoreStep, DeployStore
  <2> QED BY <2>1, <2>2
<1>2. ASSUME UNCHANGED vars PROVE DeployInv'
  <2>1. UNCHANGED <<status, name, state, sidecar, pods, services, raced, renamed, unstarted>>
    BY <1>2 DEF vars, instances, cluster, history
  <2> QED BY <2>1 DEF DeployInv, Deployed
<1>3. ASSUME \/ \E r \in Requests : NewPreloader(r)
             \/ AddPreloader
      PROVE  DeployInv'
  <2>1. /\ UNCHANGED <<status, name, state, sidecar, pods, services, renamed, unstarted>>
        /\ raced \subseteq raced'
    BY <1>3, PreloaderStep DEF instances, cluster
  <2> QED BY <2>1 DEF DeployInv, Deployed
<1> QED BY <1>1, <1>2, <1>3, DeployCall, DeployStart, DeployStop DEF Next

\* An instance in state Started has the pod and the service that Start and Stop find by its
\* name.  What is excepted is what breaks it in the code: a rename after the start, a name
\* that a race gave to two, and the service that the clone of a stopped instance never gets.
THEOREM StartedIsDeployed == Spec => []StartedMeansDeployed
<1>1. Init => DeployInv
  BY DEF Init, DeployInv, Deployed
<1>2. Spec => []DeployInv
  BY <1>1, DeployStep, SafeHolds, PTL DEF Spec
<1>3. Safe /\ DeployInv => StartedMeansDeployed
  <2> SUFFICES ASSUME Safe, DeployInv, NEW i \in Live \ renamed, state[i] = "Started",
                      name[i] \notin raced, \A j \in Live : sidecar[j] # i
               PROVE  name[i] \in pods /\ (i \notin unstarted => name[i] \in services)
    BY DEF StartedMeansDeployed
  <2>1. i \in Ids /\ status[i] = "live"
    BY DEF Live
  <2>2. \A j \in Ids : sidecar[j] # i
    BY <2>1, NoIdOut DEF Safe, FamilyInv, Live
  <2>3. Deployed(i)
    BY <2>1 DEF DeployInv
  <2> QED BY <2>1, <2>2, <2>3 DEF Deployed
<1> QED BY <1>2, <1>3, SafeHolds, PTL

-----------------------------------------------------------------------------
(* Induction, and the greatest and the least of a set *)

\* The order of the natural numbers, which is well-founded.
Less == {ss \in Nat \X Nat : ss[1] < ss[2]}

\* A set of natural numbers has a least element.
LEMMA LeastElement ==
  ASSUME NEW S, S \subseteq Nat, S # {}
  PROVE  \E m \in S : \A n \in S : m <= n
<1>1. IsWellFoundedOn(Less, Nat)
  BY NatLessThanWellFounded DEF OpToRel, Less
<1>2. PICK m \in S : \A n \in S : <<n, m>> \notin Less
  BY <1>1, WFMin
<1>3. ASSUME NEW n \in S PROVE m <= n
  <2>1. <<n, m>> \notin Less
    BY <1>2
  <2> QED BY <2>1 DEF Less
<1> QED BY <1>3

\* Induction, of a set: that of the numbers a fact holds for.
LEMMA InductionOn ==
  ASSUME NEW S, 0 \in S, \A n \in Nat : n \in S => n + 1 \in S
  PROVE  Nat \subseteq S
<1> DEFINE T == Nat \ S
<1> SUFFICES ASSUME T # {} PROVE FALSE
  OBVIOUS
<1>1. PICK m \in T : \A n \in T : m <= n
  BY LeastElement
<1>2. m # 0 /\ m - 1 \in Nat /\ m - 1 \notin T
  BY <1>1
<1>3. (m - 1) + 1 \in S
  BY <1>2
<1> QED BY <1>3

\* A bounded set of natural numbers has a greatest element.
LEMMA GreatestElement ==
  ASSUME NEW S, NEW b \in Nat, S \subseteq 0..b, S # {}
  PROVE  \E m \in S : \A n \in S : m >= n
<1> DEFINE T == {k \in Nat : \A n \in S : n <= k}
<1>1. b \in T
  OBVIOUS
<1>2. PICK k \in T : \A l \in T : k <= l
  <2> HIDE DEF T
  <2>1. T \subseteq Nat /\ T # {}
    BY <1>1 DEF T
  <2> QED BY <2>1, LeastElement
<1>3. k \in S
  <2> SUFFICES ASSUME k \notin S PROVE FALSE
    OBVIOUS
  <2>1. \A n \in S : n < k
    BY <1>2
  <2>2. PICK n \in S : TRUE
    OBVIOUS
  <2>3. k > 0 /\ k - 1 \in Nat
    BY <2>1, <2>2
  <2>4. \A l \in S : l <= k - 1
    BY <2>1
  <2>5. k - 1 \in T
    BY <2>3, <2>4
  <2> QED BY <1>2, <2>5
<1> QED BY <1>2, <1>3

\* The greatest of a bounded set of numbers.
LEMMA MaxFacts ==
  ASSUME NEW S, NEW b \in Nat, S \subseteq 0..b, S # {}
  PROVE  Max(S) \in S /\ \A n \in S : Max(S) >= n
BY GreatestElement DEF Max

\* The least of a set of numbers.
LEMMA MinFacts ==
  ASSUME NEW S, S \subseteq Nat, S # {}
  PROVE  Min(S) \in S /\ \A n \in S : Min(S) <= n
BY LeastElement DEF Min

\* The scan of ReplaceAllString reaches the end.
LEMMA ScanExists ==
  ASSUME NEW s, NEW n \in Nat
  PROVE  \E f : f = [k \in 0..n |-> Replaced(f, s, k)]
<1> DEFINE S == {m \in Nat : \E f : f = [k \in 0..m |-> Replaced(f, s, k)]}
<1>1. 0 \in S
  <2> DEFINE f == [k \in 0..0 |-> <<>>]
  <2>1. f = [k \in 0..0 |-> Replaced(f, s, k)]
    BY DEF Replaced
  <2> QED BY <2>1
<1>2. ASSUME NEW m \in Nat, m \in S PROVE m + 1 \in S
  <2>1. PICK f : f = [k \in 0..m |-> Replaced(f, s, k)]
    BY <1>2
  <2> DEFINE g == [k \in 0..(m + 1) |-> IF k <= m THEN f[k] ELSE Replaced(f, s, k)]
  <2>2. ASSUME NEW k \in 0..(m + 1) PROVE g[k] = Replaced(g, s, k)
    <3>1. k # 0 => g[k - 1] = f[k - 1]
      OBVIOUS
    <3>2. g[k] = Replaced(f, s, k)
      BY <2>1
    <3> HIDE DEF g
    <3>3. Replaced(g, s, k) = Replaced(f, s, k)
      <4>1. CASE k = 0
        BY <4>1 DEF Replaced
      <4>2. CASE k # 0
        BY <3>1, <4>2 DEF Replaced
      <4> QED BY <4>1, <4>2
    <3> QED BY <3>2, <3>3
  <2>3. g = [k \in 0..(m + 1) |-> Replaced(g, s, k)]
    BY <2>2
  <2> HIDE DEF g
  <2> QED BY <2>3
<1> HIDE DEF S
<1>3. Nat \subseteq S
  BY <1>1, <1>2, InductionOn
<1> QED BY <1>3 DEF S

\* ReplaceInvalid is the end of such a scan.
LEMMA ReplaceFacts ==
  ASSUME NEW s
  PROVE  Len(s) \in Nat => \E f : f = [k \in 0..Len(s) |-> Replaced(f, s, k)] /\ ReplaceInvalid(s) = f[Len(s)]
<1> DEFINE f == CHOOSE f : f = [k \in 0..Len(s) |-> Replaced(f, s, k)]
<1>1. ReplaceInvalid(s) = f[Len(s)]
  BY DEF ReplaceInvalid
<1> HAVE Len(s) \in Nat
<1>2. f = [k \in 0..Len(s) |-> Replaced(f, s, k)]
  BY ScanExists
<1> QED BY <1>1, <1>2

-----------------------------------------------------------------------------
(* What SanitizeName returns *)

\* The characters that names may have, and what ToLower leaves.
Plain == {"a", "-"}

Lower == {"a", "-", "_"}

\* strings.ToLower leaves no upper-case letter, and a text without one alone.
LEMMA LowerFacts ==
  ASSUME NEW s \in Seq(Characters)
  PROVE  /\ ToLower(s) \in Seq(Lower)
         /\ s \in Seq(Plain) => ToLower(s) = s
<1>1. /\ Len(s) \in Nat /\ DOMAIN s = 1..Len(s)
      /\ s \in [1..Len(s) -> Characters]
  BY LenProperties
<1>2. ToLower(s) \in [1..Len(s) -> Lower]
  BY <1>1 DEF ToLower, Characters, Lower
<1>3. ToLower(s) \in Seq(Lower)
  BY <1>1, <1>2
<1>4. ASSUME s \in Seq(Plain) PROVE ToLower(s) = s
  <2>1. s \in [1..Len(s) -> Plain]
    BY <1>4, LenProperties
  <2>2. \A k \in 1..Len(s) : s[k] # "A"
    BY <2>1 DEF Plain
  <2>3. ToLower(s) = [k \in 1..Len(s) |-> s[k]]
    BY <1>1, <2>2 DEF ToLower
  <2> QED BY <2>1, <2>3
<1> QED BY <1>3, <1>4

\* What the scan puts out is a letter, a digit or a hyphen.
LEMMA ReplaceStep ==
  ASSUME NEW s, NEW f, NEW k \in Nat, s[k + 1] \in Lower, f[k] \in Seq(Plain)
  PROVE  Replaced(f, s, k + 1) \in Seq(Plain)
<1>1. \A c \in Plain : Append(f[k], c) \in Seq(Plain)
  BY AppendProperties
<1>2. (k + 1) - 1 = k /\ k + 1 # 0
  OBVIOUS
<1> QED BY <1>1, <1>2 DEF Replaced, Plain, Lower

\* After ReplaceAllString there are letters, digits and hyphens only.
LEMMA ReplaceType ==
  ASSUME NEW s \in Seq(Lower)
  PROVE  ReplaceInvalid(s) \in Seq(Plain)
<1>1. Len(s) \in Nat /\ \A k \in 1..Len(s) : s[k] \in Lower
  BY LenProperties, ElementOfSeq
<1>2. PICK f : f = [k \in 0..Len(s) |-> Replaced(f, s, k)] /\ ReplaceInvalid(s) = f[Len(s)]
  BY <1>1, ReplaceFacts
<1> DEFINE S == {k \in Nat : k <= Len(s) => f[k] \in Seq(Plain)}
<1>3. 0 \in S
  <2>1. f[0] = Replaced(f, s, 0)
    BY <1>1, <1>2
  <2>2. f[0] = <<>>
    BY <2>1 DEF Replaced
  <2> QED BY <2>2, EmptySeq
<1>4. ASSUME NEW k \in Nat, k \in S PROVE k + 1 \in S
  <2> SUFFICES ASSUME k + 1 <= Len(s) PROVE f[k + 1] \in Seq(Plain)
    OBVIOUS
  <2>1. f[k] \in Seq(Plain) /\ s[k + 1] \in Lower
    BY <1>1, <1>4
  <2>2. f[k + 1] = Replaced(f, s, k + 1)
    BY <1>1, <1>2
  <2> QED BY <2>1, <2>2, ReplaceStep
<1> HIDE DEF S
<1>5. Nat \subseteq S
  BY <1>3, <1>4, InductionOn
<1> QED BY <1>1, <1>2, <1>5 DEF S

\* ReplaceAllString leaves a text that has no other characters alone.
LEMMA ReplaceNothing ==
  ASSUME NEW s \in Seq(Plain)
  PROVE  ReplaceInvalid(s) = s
<1>1. Len(s) \in Nat /\ \A k \in 1..Len(s) : s[k] \in Plain
  BY LenProperties, ElementOfSeq
<1>2. PICK f : f = [k \in 0..Len(s) |-> Replaced(f, s, k)] /\ ReplaceInvalid(s) = f[Len(s)]
  BY <1>1, ReplaceFacts
<1> DEFINE Copy(k) == f[k] \in Seq(Plain) /\ Len(f[k]) = k /\ \A l \in 1..k : f[k][l] = s[l]
           S == {k \in Nat : k <= Len(s) => Copy(k)}
<1>3. 0 \in S
  <2>1. f[0] = Replaced(f, s, 0)
    BY <1>1, <1>2
  <2>2. f[0] = <<>>
    BY <2>1 DEF Replaced
  <2>3. <<>> \in Seq(Plain) /\ Len(<<>>) = 0
    BY EmptySeq
  <2>4. Copy(0)
    BY <2>2, <2>3
  <2> QED BY <2>4
<1>4. ASSUME NEW k \in Nat, k \in S PROVE k + 1 \in S
  <2> SUFFICES ASSUME k + 1 <= Len(s) PROVE Copy(k + 1)
    OBVIOUS
  <2>1. Copy(k) /\ s[k + 1] \in Plain
    BY <1>1, <1>4
  <2>2. f[k + 1] = Replaced(f, s, k + 1)
    BY <1>1, <1>2
  <2>3. (k + 1) - 1 = k /\ k + 1 # 0
    OBVIOUS
  <2>4. f[k + 1] = Append(f[k], s[k + 1])
    BY <2>1, <2>2, <2>3 DEF Replaced, Plain
  <2>5. /\ Append(f[k], s[k + 1]) \in Seq(Plain)
        /\ Len(Append(f[k], s[k + 1])) = k + 1
        /\ \A l \in 1..k : Append(f[k], s[k + 1])[l] = s[l]
        /\ Append(f[k], s[k + 1])[k + 1] = s[k + 1]
    BY <2>1, AppendProperties
  <2> QED BY <2>4, <2>5
<1> HIDE DEF S
<1>5. Nat \subseteq S
  BY <1>3, <1>4, InductionOn
<1>6. Copy(Len(s))
  BY <1>1, <1>5 DEF S
<1> QED BY <1>2, <1>6, SeqEqual

\* strings.TrimRight leaves a prefix that has no hyphen at its end, and all of the text
\* that comes before one that is no hyphen.
LEMMA TrimRightFacts ==
  ASSUME NEW s \in Seq(Plain)
  PROVE  LET t == TrimRight(s)
         IN  /\ t \in Seq(Plain) /\ Len(t) \in 0..Len(s) /\ Len(s) \in Nat
             /\ \A k \in 1..Len(t) : t[k] = s[k]
             /\ Len(t) # 0 => t[Len(t)] # "-"
             /\ \A k \in 1..Len(s) : s[k] # "-" => k <= Len(t)
<1> DEFINE m == Max(Solid(s) \cup {0})
           t == TrimRight(s)
<1>1. /\ Len(s) \in Nat /\ DOMAIN s = 1..Len(s)
      /\ \A k \in 1..Len(s) : s[k] \in Plain
  BY LenProperties, ElementOfSeq
<1>2. Solid(s) \cup {0} \subseteq 0..Len(s)
  BY <1>1 DEF Solid
<1>3. m \in Solid(s) \cup {0} /\ \A k \in Solid(s) \cup {0} : m >= k
  BY <1>1, <1>2, MaxFacts
<1>4. m \in 0..Len(s)
  BY <1>2, <1>3
<1>5. t = SubSeq(s, 1, m)
  BY DEF TrimRight
<1> HIDE DEF m, t
<1>6. /\ t \in Seq(Plain)
      /\ Len(t) = IF 1 <= m THEN m - 1 + 1 ELSE 0
      /\ \A k \in 1..(m - 1 + 1) : t[k] = s[1 + k - 1]
  BY <1>1, <1>4, <1>5, SubSeqProperties
<1>7. Len(t) = m /\ \A k \in 1..m : t[k] = s[k]
  BY <1>4, <1>6
<1>8. m # 0 => s[m] # "-"
  BY <1>3 DEF Solid
<1>9. \A k \in 1..Len(s) : s[k] # "-" => k <= m
  BY <1>1, <1>3, <1>4 DEF Solid
<1> QED BY <1>1, <1>4, <1>6, <1>7, <1>8, <1>9 DEF t

\* Trimming on the left leaves a suffix that has no hyphen at its beginning.
LEMMA TrimLeftFacts ==
  ASSUME NEW s \in Seq(Plain)
  PROVE  LET t == TrimLeft(s)
         IN  /\ t \in Seq(Plain) /\ Len(t) \in 0..Len(s)
             /\ Len(t) # 0 => t[1] # "-" /\ t[Len(t)] = s[Len(s)]
             /\ Len(s) # 0 /\ s[1] # "-" => t = s
<1> DEFINE p == Min(Solid(s) \cup {Len(s) + 1})
           t == TrimLeft(s)
<1>1. /\ Len(s) \in Nat /\ DOMAIN s = 1..Len(s)
      /\ \A k \in 1..Len(s) : s[k] \in Plain
  BY LenProperties, ElementOfSeq
<1>2. Solid(s) \cup {Len(s) + 1} \subseteq 1..(Len(s) + 1)
  BY <1>1 DEF Solid
<1>3. p \in Solid(s) \cup {Len(s) + 1} /\ \A k \in Solid(s) \cup {Len(s) + 1} : p <= k
  <2>1. Solid(s) \cup {Len(s) + 1} \subseteq Nat
    BY <1>2, <1>1
  <2> QED BY <2>1, MinFacts
<1>4. p \in 1..(Len(s) + 1)
  BY <1>2, <1>3
<1>5. t = SubSeq(s, p, Len(s))
  BY DEF TrimLeft
<1> HIDE DEF p, t
<1>6. /\ t \in Seq(Plain)
      /\ Len(t) = IF p <= Len(s) THEN Len(s) - p + 1 ELSE 0
      /\ \A k \in 1..(Len(s) - p + 1) : t[k] = s[p + k - 1]
  <2>1. \A k \in p..Len(s) : s[k] \in Plain
    BY <1>1, <1>4
  <2> QED BY <1>1, <1>4, <1>5, <2>1, SubSeqProperties
<1>7. Len(t) \in 0..Len(s)
  BY <1>1, <1>4, <1>6
<1>8. ASSUME Len(t) # 0 PROVE t[1] # "-" /\ t[Len(t)] = s[Len(s)]
  <2>1. p <= Len(s) /\ Len(t) = Len(s) - p + 1
    BY <1>1, <1>4, <1>6, <1>8
  <2>2. t[1] = s[p + 1 - 1] /\ t[Len(t)] = s[p + Len(t) - 1]
    BY <1>1, <1>4, <1>6, <2>1
  <2>3. p + 1 - 1 = p /\ p + Len(t) - 1 = Len(s)
    BY <1>1, <1>4, <2>1
  <2>4. s[p] # "-"
    BY <1>1, <1>3, <2>1 DEF Solid
  <2> QED BY <2>2, <2>3, <2>4
<1>9. ASSUME Len(s) # 0, s[1] # "-" PROVE t = s
  <2>1. 1 \in Solid(s)
    BY <1>1, <1>9 DEF Solid
  <2>2. p = 1
    BY <1>3, <1>4, <2>1
  <2> QED BY <1>5, <2>2, SubSeqFull
<1> QED BY <1>6, <1>7, <1>8, <1>9 DEF t

\* What the API client accepts.
Good(n) == n \in Seq(Plain) /\ ValidName(n)

\* SanitizeName panics, or its result is one that the API client accepts.
LEMMA SanitizedIsValid ==
  ASSUME NEW s \in Seq(Characters)
  PROVE  SanitizeName(s) = <<>> \/ Good(SanitizeName(s))
<1> USE NameLenAssumption
<1> DEFINE u == TrimRight(ReplaceInvalid(ToLower(s)))
           t == TrimLeft(u)
           c == SubSeq(t, 1, MaxNameLen)
<1>1. u \in Seq(Plain) /\ (Len(u) # 0 => u[Len(u)] # "-") /\ Len(u) \in Nat
  BY LowerFacts, ReplaceType, TrimRightFacts, LenProperties
<1> HIDE DEF u
<1>2. /\ t \in Seq(Plain) /\ Len(t) \in Nat /\ Len(t) <= Len(u)
      /\ Len(t) # 0 => t[1] # "-" /\ t[Len(t)] # "-"
  BY <1>1, TrimLeftFacts
<1>3. SanitizeName(s) = IF Len(t) > MaxNameLen THEN TrimRight(c) ELSE t
  BY DEF SanitizeName, u
<1> HIDE DEF t
<1>4. CASE Len(t) <= MaxNameLen
  <2>1. SanitizeName(s) = t
    BY <1>2, <1>3, <1>4
  <2>2. Len(t) = 0 => t = <<>>
    BY <1>2, EmptySeq
  <2>3. Len(t) # 0 => Good(t)
    BY <1>2, <1>4, LenProperties, ElementOfSeq DEF Good, ValidName, Plain
  <2> QED BY <2>1, <2>2, <2>3
<1>5. CASE Len(t) > MaxNameLen
  <2>1. /\ c \in Seq(Plain) /\ Len(c) = MaxNameLen
        /\ c[1] = t[1]
    <3>1. \A k \in 1..MaxNameLen : t[k] \in Plain
      BY <1>2, <1>5, ElementOfSeq
    <3>2. /\ c \in Seq(Plain) /\ Len(c) = IF 1 <= MaxNameLen THEN MaxNameLen - 1 + 1 ELSE 0
          /\ \A k \in 1..(MaxNameLen - 1 + 1) : c[k] = t[1 + k - 1]
      BY <3>1, SubSeqProperties
    <3> QED BY <3>2
  <2> HIDE DEF c
  <2> DEFINE r == TrimRight(c)
  <2>2. /\ r \in Seq(Plain) /\ Len(r) \in 0..MaxNameLen
        /\ \A k \in 1..Len(r) : r[k] = c[k]
        /\ Len(r) # 0 => r[Len(r)] # "-"
        /\ 1 <= Len(r)
    <3>1. c[1] # "-" /\ 1 \in 1..Len(c)
      BY <1>2, <1>5, <2>1
    <3> QED BY <2>1, <3>1, TrimRightFacts
  <2> HIDE DEF r
  <2>3. Good(r)
    <3>1. r[1] # "-"
      BY <1>2, <1>5, <2>1, <2>2
    <3>2. \A k \in 1..Len(r) : r[k] \in Plain
      BY <2>2, ElementOfSeq
    <3>3. DOMAIN r = 1..Len(r)
      BY <2>2, LenProperties
    <3> QED BY <2>2, <3>1, <3>2, <3>3 DEF Good, ValidName, Plain
  <2> QED BY <1>3, <1>5, <2>3 DEF r
<1> QED BY <1>2, <1>4, <1>5

\* Letters, digits and hyphens are characters.
LEMMA PlainIsText ==
  ASSUME NEW n \in Seq(Plain)
  PROVE  n \in Seq(Characters)
<1>1. Len(n) \in Nat /\ n \in [1..Len(n) -> Plain]
  BY LenProperties
<1>2. Plain \subseteq Characters
  BY DEF Plain, Characters
<1>3. n \in [1..Len(n) -> Characters]
  BY <1>1, <1>2
<1> QED BY <1>1, <1>3

\* A name that the API client accepts stays as it is.
LEMMA ValidStays ==
  ASSUME NEW n, Good(n)
  PROVE  SanitizeName(n) = n
<1> USE NameLenAssumption
<1>1. n \in Seq(Plain) /\ Len(n) \in 1..MaxNameLen /\ n[1] # "-" /\ n[Len(n)] # "-"
  BY DEF Good, ValidName
<1>5. n \in Seq(Characters)
  BY <1>1, PlainIsText
<1>2. ReplaceInvalid(ToLower(n)) = n
  BY <1>1, <1>5, LowerFacts, ReplaceNothing
<1>3. TrimRight(n) = n
  <2>1. TrimRight(n) \in Seq(Plain) /\ Len(TrimRight(n)) = Len(n)
    BY <1>1, TrimRightFacts
  <2>2. \A k \in 1..Len(n) : TrimRight(n)[k] = n[k]
    BY <1>1, <2>1, TrimRightFacts
  <2> QED BY <1>1, <2>1, <2>2, SeqEqual
<1>4. TrimLeft(n) = n
  BY <1>1, TrimLeftFacts
<1> QED BY <1>1, <1>2, <1>3, <1>4 DEF SanitizeName

-----------------------------------------------------------------------------
(* What is registered *)

\* The name of an instance, or none yet.
Acceptable(n) == n = <<>> \/ Good(n)

\* The names a call has yet to claim are what SanitizeName has returned.
Promised(g) ==
  job[g] # Idle =>
    /\ Acceptable(First(g).name)
    /\ Len(job[g].claims) = 2 => Acceptable(Second(g).name)

ValidInv ==
  /\ \A n \in registry : Good(n)
  /\ \A i \in Ids : Acceptable(name[i])
  /\ \A g \in Goroutines : Promised(g)
  /\ Acceptable(preloading)

\* A name with a suffix may contain what it likes: SanitizeName is called on it again.
LEMMA SuffixFacts ==
  ASSUME NEW n, n = <<>> \/ n \in Seq(Characters)
  PROVE  n \o Suffix \in Seq(Characters)
<1>1. Suffix \in Seq(Characters)
  <2>1. "-" \in Characters /\ "a" \in Characters
    BY DEF Characters
  <2>2. \A a, b \in Characters : <<a, b>> \in Seq(Characters)
    OBVIOUS
  <2> QED BY <2>1, <2>2 DEF Suffix
<1>2. n \in Seq(Characters)
  BY EmptySeq
<1> QED BY <1>1, <1>2, ConcatProperties

\* What the registry holds, and the names of instances, are texts.
LEMMA GoodIsPlain ==
  ASSUME NEW n, Acceptable(n)
  PROVE  n \in Seq(Characters)
<1>1. CASE n = <<>>
  BY <1>1, EmptySeq
<1>2. CASE Good(n)
  BY <1>2, PlainIsText DEF Good
<1> QED BY <1>1, <1>2 DEF Acceptable

\* The names that a test can ask for.
LEMMA RequestFacts ==
  ASSUME NEW r \in Requests
  PROVE  Acceptable(r.name) /\ Acceptable(r.sidecar)
<1>1. PICK raw \in RawNames :
        r = [name |-> SanitizeName(raw), sidecar |-> SanitizeName(raw \o Suffix)]
  BY DEF Requests
<1>2. raw \in Seq(Characters)
  <2>1. PICK n \in 1..MaxRawLen : raw \in [1..n -> Characters]
    BY <1>1 DEF RawNames
  <2>2. n \in Nat
    BY <2>1, NamesAssumption
  <2> QED BY <2>1, <2>2
<1>3. raw \o Suffix \in Seq(Characters)
  BY <1>2, SuffixFacts
<1>4. r.name = SanitizeName(raw) /\ r.sidecar = SanitizeName(raw \o Suffix)
  BY <1>1
<1> QED BY <1>2, <1>3, <1>4, SanitizedIsValid DEF Acceptable

\* A call with one name, or two.
LEMMA ValidBegin ==
  ASSUME Safe, ValidInv, NEW g \in Goroutines, NEW op, NEW on, NEW fresh, NEW claims,
         Begin(g, op, on, fresh, claims), op # "idle",
         Acceptable(claims[1].name), Len(claims) = 2 => Acceptable(claims[2].name)
  PROVE  ValidInv'
<1>1. /\ UNCHANGED <<registry, name, preloading>>
      /\ UNCHANGED <<job, status>> \/ Taken(g, op, on, fresh, claims)
  BY BeginStep DEF Safe, preloads
<1>2. ASSUME NEW h \in Goroutines PROVE Promised(h)'
  <2>1. CASE job'[h] = job[h]
    BY <2>1 DEF ValidInv, Promised, First, Second
  <2>2. CASE h = g /\ Taken(g, op, on, fresh, claims)
    <3>1. job'[g].claims = claims
      BY <2>2 DEF Taken
    <3> QED BY <2>2, <3>1 DEF Promised, First, Second
  <2>3. CASE h # g /\ Taken(g, op, on, fresh, claims)
    <3>1. job'[h] = job[h]
      BY <2>3 DEF Taken, Safe, NamesTypeOK
    <3> QED BY <2>1, <3>1
  <2> QED BY <1>1, <2>1, <2>2, <2>3
<1> QED BY <1>1, <1>2 DEF ValidInv

\* The names of a clone, and of the sidecar that is cloned with it.
LEMMA ValidClone ==
  ASSUME Safe, ValidInv, NEW g \in Goroutines, NEW i \in Ids, NEW r,
         Acceptable(r.name), Acceptable(r.sidecar), CloneWithName(g, i, r)
  PROVE  ValidInv'
<1>1. \A a, b : Claim(a, b).name = b
  BY DEF Claim
<1> DEFINE c == Pick(Unused)
           s == Pick(Unused \ {c})
<1>2. \/ Begin(g, "clone", i, {c}, <<Claim(c, r.name)>>)
      \/ Begin(g, "clone", i, {c, s}, <<Claim(s, r.sidecar), Claim(c, r.name)>>)
  BY DEF CloneWithName
<1> HIDE DEF c, s
<1>3. CASE Begin(g, "clone", i, {c}, <<Claim(c, r.name)>>)
  BY <1>1, <1>3, ValidBegin
<1>4. CASE Begin(g, "clone", i, {c, s}, <<Claim(s, r.sidecar), Claim(c, r.name)>>)
  BY <1>1, <1>4, ValidBegin
<1> QED BY <1>2, <1>3, <1>4

\* The names of each call were returned by SanitizeName.
LEMMA ValidCall ==
  ASSUME Safe, ValidInv, NEW g \in Goroutines, Call(g)
  PROVE  ValidInv'
<1>1. \A a, b : Claim(a, b).name = b
  BY DEF Claim
<1>2. ASSUME NEW r \in Requests, New(g, r) PROVE ValidInv'
  BY <1>1, <1>2, ValidBegin, RequestFacts DEF New
<1>3. ASSUME NEW r \in Requests, NEW i \in Ids, Rename(g, i, r) PROVE ValidInv'
  BY <1>1, <1>3, ValidBegin, RequestFacts DEF Rename
<1>4. ASSUME NEW r \in Requests, NEW i \in Ids, CloneWithName(g, i, r) PROVE ValidInv'
  BY <1>4, ValidClone, RequestFacts
<1>5. ASSUME NEW i \in Ids
      PROVE  /\ Acceptable(SanitizeName(name[i] \o Suffix))
             /\ Acceptable(SanitizeName((name[i] \o Suffix) \o Suffix))
  <2>1. name[i] \o Suffix \in Seq(Characters)
    BY GoodIsPlain, SuffixFacts DEF ValidInv
  <2> QED BY <2>1, SuffixFacts, SanitizedIsValid DEF Acceptable
<1>6. ASSUME NEW i \in Ids, Add(g, i) PROVE ValidInv'
  BY <1>1, <1>5, <1>6, ValidBegin DEF Add
<1>7. ASSUME NEW i \in Ids, CloneWithSuffix(g, i) PROVE ValidInv'
  BY <1>5, <1>7, ValidClone DEF CloneWithSuffix
<1> QED BY <1>2, <1>3, <1>4, <1>6, <1>7 DEF Call

\* A lookup, or a step that is none of these calls.
LEMMA ValidKept ==
  ASSUME ValidInv, UNCHANGED <<registry, name, preloading>>,
         \A h \in Goroutines :
           job'[h] = job[h] \/ job'[h] = Idle \/ (job[h] # Idle /\ job'[h].claims = job[h].claims)
  PROVE  ValidInv'
BY DEF ValidInv, Promised, First, Second

\* The lookup of a second name, which may end the call.
LEMMA ValidLookup ==
  ASSUME Safe, ValidInv, NEW g \in Goroutines, HasInstanceName(g)
  PROVE  ValidInv'
<1>1. UNCHANGED <<registry, name, preloading>> /\ job[g] # Idle
  BY DEF HasInstanceName, preloads
<1>2. job' = [job EXCEPT ![g] = Idle] \/ job' = [job EXCEPT ![g].free = TRUE]
  BY DEF HasInstanceName
<1>3. \A h \in Goroutines \ {g} : job'[h] = job[h]
  BY <1>2 DEF Safe, NamesTypeOK
<1>4. job'[g] = Idle \/ job'[g].claims = job[g].claims
  <2>1. CASE job' = [job EXCEPT ![g] = Idle]
    BY <2>1 DEF Safe, NamesTypeOK
  <2>2. CASE job' = [job EXCEPT ![g].free = TRUE]
    <3>1. Working(g)
      BY <1>1, JobFacts
    <3>2. job'[g] = [job[g] EXCEPT !.free = TRUE]
      BY <2>2 DEF Safe, NamesTypeOK
    <3> QED BY <3>1, <3>2 DEF Working
  <2> QED BY <1>2, <2>1, <2>2
<1> QED BY <1>1, <1>3, <1>4, ValidKept

\* The name that is stored is not empty, hence valid.
LEMMA ValidStore ==
  ASSUME Safe, ValidInv, NEW g \in Goroutines, SetName(g), AddInstanceName(g)
  PROVE  ValidInv'
<1>1. /\ Working(g) /\ First(g).inst \in Ids /\ First(g).name # <<>>
      /\ \A j \in Ids \ {First(g).inst} : name'[j] = name[j]
      /\ name'[First(g).inst] = First(g).name
  BY NameStored
<1>2. job[g] # Idle
  BY <1>1 DEF Working, Shape, Idle, Job
<1>3. Good(First(g).name)
  BY <1>1, <1>2 DEF ValidInv, Promised, Acceptable
<1>4. \A n \in registry' : Good(n)
  <2>1. registry' \subseteq registry \cup {First(g).name}
    BY DEF AddInstanceName, Registered, First
  <2> QED BY <1>3, <2>1 DEF ValidInv
<1>5. \A i \in Ids : Acceptable(name'[i])
  BY <1>1, <1>3 DEF ValidInv, Acceptable
<1>6. ASSUME NEW h \in Goroutines PROVE Promised(h)'
  <2>1. CASE job'[h] = job[h]
    BY <2>1 DEF ValidInv, Promised, First, Second
  <2>2. CASE job'[h] = Idle
    BY <2>2 DEF Promised
  <2>3. CASE h # g
    <3>1. job'[h] = job[h]
      BY <1>2, <2>3 DEF SetName, HasInstanceName, Safe, NamesTypeOK
    <3> QED BY <2>1, <3>1
  <2>4. CASE h = g /\ job'[g] # Idle
    <3>1. /\ Len(job[g].claims) # 1
          /\ job' = [job EXCEPT ![g].claims = Tail(@), ![g].free = FALSE]
      BY <2>4 DEF SetName, HasInstanceName, Safe, NamesTypeOK, AddInstanceName
    <3>2. job[g].claims = <<First(g), Second(g)>>
      <4>1. job[g].claims # <<First(g)>>
        BY <3>1, ClaimsLeft
      <4> QED BY <1>1, <4>1 DEF Working, Shape
    <3>3. job'[g].claims = Tail(job[g].claims)
      <4>1. job'[g] = [job[g] EXCEPT !.claims = Tail(@), !.free = FALSE]
        BY <3>1 DEF Safe, NamesTypeOK
      <4> QED BY <1>1, <4>1 DEF Working
    <3>4. job'[g].claims = <<Second(g)>> /\ Len(job'[g].claims) = 1
      BY <3>2, <3>3, ClaimsLeft
    <3>5. First(g)' = Second(g)
      BY <3>4 DEF First
    <3>6. Acceptable(Second(g).name)
      BY <1>2, <3>2, ClaimsLeft DEF ValidInv, Promised
    <3> QED BY <2>4, <3>4, <3>5, <3>6 DEF Promised
  <2> QED BY <2>2, <2>3, <2>4
<1>7. Acceptable(preloading)'
  BY DEF AddInstanceName, preloads, ValidInv
<1> QED BY <1>4, <1>5, <1>6, <1>7 DEF ValidInv

\* preloader.New stores what SanitizeName has returned, and that is not empty.
LEMMA ValidPreloader ==
  ASSUME ValidInv, \/ \E r \in Requests : NewPreloader(r)
                   \/ AddPreloader
  PROVE  ValidInv'
<1>1. ASSUME NEW r \in Requests, NewPreloader(r) PROVE ValidInv'
  <2>1. UNCHANGED <<registry, name, job>> /\ preloading' \in {preloading, r.name}
    BY <1>1 DEF NewPreloader, instances
  <2>2. Acceptable(preloading)'
    BY <2>1, RequestFacts DEF ValidInv
  <2> QED BY <2>1, <2>2 DEF ValidInv, Promised, First, Second
<1>2. CASE AddPreloader
  <2>1. /\ preloading # <<>> /\ registry' = registry \cup {preloading} /\ preloading' = <<>>
        /\ UNCHANGED <<name, job>>
    BY <1>2 DEF AddPreloader, instances
  <2>2. Good(preloading)
    BY <2>1 DEF ValidInv, Acceptable
  <2> QED BY <2>1, <2>2 DEF ValidInv, Promised, First, Second, Acceptable
<1> QED BY <1>1, <1>2

\* At first no name is registered and no call is made.
LEMMA ValidInit == Init => ValidInv
BY DEF Init, ValidInv, Promised, Acceptable

\* Every step of every goroutine keeps the names valid.
LEMMA ValidStep == Safe /\ ValidInv /\ [Next]_vars => ValidInv'
<1> SUFFICES ASSUME Safe, ValidInv, [Next]_vars PROVE ValidInv'
  OBVIOUS
<1>1. ASSUME NEW g \in Goroutines, Call(g) PROVE ValidInv'
  BY <1>1, ValidCall
<1>2. ASSUME NEW g \in Goroutines, SetName(g) PROVE ValidInv'
  BY <1>2, ValidLookup, ValidStore DEF SetName
<1>3. ASSUME NEW i \in Ids, StartAsync(i) \/ Stop(i) PROVE ValidInv'
  BY <1>3, ValidKept DEF StartAsync, Stop, preloads
<1>4. ASSUME UNCHANGED vars PROVE ValidInv'
  BY <1>4, ValidKept DEF vars, instances, preloads
<1> QED BY <1>1, <1>2, <1>3, <1>4, ValidPreloader DEF Next

\* Whatever a test asks for, and however often clones and sidecars add their suffixes, the
\* names in the registry are those that the API client accepts, and asking for one of them
\* again means the same name.
THEOREM NamesAreValid == Spec => []RegisteredNamesAreValid
<1>1. ValidInv => RegisteredNamesAreValid
  BY ValidStays DEF ValidInv, Good, RegisteredNamesAreValid
<1>2. Spec => []ValidInv
  BY ValidInit, ValidStep, SafeHolds, PTL DEF Spec
<1> QED BY <1>1, <1>2, PTL
=============================================================================
