---------------------------- MODULE ImageProofs ----------------------------
(***************************************************************************)
(* Proofs about module Image, for any instances, images, files and bounds. *)
(***************************************************************************)
EXTENDS Image, FiniteSetTheorems, SequenceTheorems, TLAPS

-----------------------------------------------------------------------------
(* The inductive invariant *)

Instructions == Lines \cup Files

GitNames == {DefaultImageName(repo) : repo \in Repos}

FactorySet ==
  [from : Images \cup GitNames, instructions : Seq(Instructions), args : Args, dir : Nat]

Dirs == [files : SUBSET Files, dockerfile : Seq(Instructions) \cup {None}]

Hashes == [from : Images \cup GitNames, instructions : Seq(Instructions), context : Dirs]

ImageNames == GitNames \cup {getImageRegistry(hash) : hash \in Hashes}

Contexts == [instructions : Seq(Instructions) \cup {None}, files : SUBSET Files]

Contents == [from : Images \cup GitNames \cup {None}, context : Contexts, args : Args]

Jobs == [destination : ImageNames, content : Contents, failed : Nat, succeeded : Nat]

Builds ==
  [at : {"idle", "create", "wait", "finish"}, image : ImageNames \cup {None}, job : Nat,
   seen : Jobs \cup {None}]

ImageTypeOK ==
  /\ state \in [Insts -> {"Absent", "None", "Preparing", "Committed", "Stopped"}]
  /\ builderFactory \in [Insts -> Nat]
  /\ imageName \in [Insts -> ImageNames \cup Images \cup {None}]
  /\ imageCache \in [Insts -> SUBSET Hashes]
  /\ factories \in Seq(FactorySet)
  /\ dirs \in Seq(Dirs)
  /\ build \in [Insts -> Builds]
  /\ jobs \in Seq(Jobs)
  /\ gitFailed \in [Insts -> BOOLEAN]

\* An instance that is prepared, or was, has a factory, and one that is being prepared has
\* it for itself.  Each factory has a build directory of its own.
FactoryInv ==
  /\ \A i \in Insts :
       /\ builderFactory[i] \in 0..Len(factories)
       /\ state[i] \in {"Preparing", "Committed", "Stopped"} => builderFactory[i] # 0
       /\ state[i] = "Preparing" => \A j \in Insts \ {i} : builderFactory[j] # builderFactory[i]
  /\ \A f \in DOMAIN factories :
       /\ factories[f].dir \in DOMAIN dirs
       /\ \A g \in DOMAIN factories \ {f} : factories[g].dir # factories[f].dir

\* The name is the hash of what the factory has collected.
Fits(image, f) ==
  image[1] = "built" /\ image[2].from = f.from /\ image[2].instructions = f.instructions

\* What is built under a name that is a hash is what was hashed.
Honest(image, content) ==
  image[1] = "built" =>
    content.from = image[2].from /\ content.context.instructions = image[2].instructions

\* A job pushes what its name says, whenever it ends; what has succeeded or is in a cache
\* was pushed.
RegistryInv ==
  /\ \A n \in DOMAIN registry : Honest(n, registry[n])
  /\ \A k \in DOMAIN jobs :
       /\ Honest(jobs[k].destination, jobs[k].content)
       /\ jobs[k].succeeded # 0 => jobs[k].destination \in DOMAIN registry
  /\ \A i \in Insts : \A h \in imageCache[i] : getImageRegistry(h) \in DOMAIN registry

\* A build is that of an instance that is being prepared, whose factory does not change
\* meanwhile; until the job is created the Dockerfile is in the build directory.
Building(i) ==
  LET b == build[i] IN
  /\ state[i] = "Preparing"
  /\ b.image \in ImageNames
  /\ IsGit(b.image) => b.image = Factory(i).from
  /\ ~IsGit(b.image) => Changed(Factory(i)) /\ Fits(b.image, Factory(i))
  /\ ~IsGit(b.image) /\ b.at = "create" =>
       dirs[Factory(i).dir].dockerfile = Factory(i).instructions
  /\ b.at = "wait" => b.job \in DOMAIN jobs /\ JobOf(i).destination = b.image
  /\ b.at = "finish" => b.seen \in Jobs /\ (b.seen.succeeded # 0 => b.image \in DOMAIN registry)

BuildInv == \A i \in Insts : build[i].at # "idle" => Building(i)

Accepted(i) ==
  state[i] \in {"Committed", "Stopped"} =>
    IF Changed(Factory(i))
    THEN imageName[i] \in DOMAIN registry /\ Fits(imageName[i], Factory(i))
    ELSE imageName[i] = Factory(i).from

CommitInv == \A i \in Insts : Accepted(i)

\* The base image of a factory can be pulled, once SetGitRepo has returned no error.
Sourced(i) ==
  /\ state[i] \in {"Preparing", "Committed", "Stopped"}
  /\ build[i].at # "idle" => ~IsGit(build[i].image)
  => Factory(i).from \in Images \cup DOMAIN registry \/ gitFailed[i]

SourceInv == \A i \in Insts : Sourced(i)

ImageInv ==
  /\ ImageTypeOK
  /\ FactoryInv
  /\ RegistryInv
  /\ BuildInv
  /\ CommitInv
  /\ SourceInv

-----------------------------------------------------------------------------
(* Lemmas about the data *)

\* A sequence with one more element.
LEMMA AppendFacts ==
  ASSUME NEW S, NEW s \in Seq(S), NEW e \in S
  PROVE  /\ Append(s, e) \in Seq(S)
         /\ Len(s) \in Nat /\ Len(Append(s, e)) = Len(s) + 1
         /\ DOMAIN s = 1..Len(s) /\ DOMAIN Append(s, e) = 1..(Len(s) + 1)
         /\ \A k \in 1..Len(s) : Append(s, e)[k] = s[k]
         /\ Append(s, e)[Len(s) + 1] = e
BY AppendProperties, LenProperties

\* A name is that of a repository or a hash.
LEMMA NameFacts ==
  /\ \A n \in ImageNames : n[1] \in {"git", "built"}
  /\ \A repo : IsGit(DefaultImageName(repo))
  /\ \A h : ~IsGit(getImageRegistry(h)) /\ getImageRegistry(h)[1] = "built"
                                       /\ getImageRegistry(h)[2] = h
<1>1. \A repo : DefaultImageName(repo)[1] = "git"
  BY DEF DefaultImageName
<1>2. \A h : getImageRegistry(h)[1] = "built" /\ getImageRegistry(h)[2] = h
  BY DEF getImageRegistry
<1> QED BY <1>1, <1>2 DEF ImageNames, GitNames, IsGit

\* What is pushed is added to the registry, or replaces what has the name.
LEMMA PushFacts ==
  ASSUME NEW k, Push(k)
  PROVE  /\ DOMAIN registry' = DOMAIN registry \cup {jobs[k].destination}
         /\ registry'[jobs[k].destination] = jobs[k].content
         /\ \A n \in DOMAIN registry \ {jobs[k].destination} : registry'[n] = registry[n]
BY DEF Push

\* An instance that is being prepared has a factory, and a build directory.
LEMMA FactoryFacts ==
  ASSUME ImageInv, NEW i \in Insts, state[i] \in {"Preparing", "Committed", "Stopped"}
  PROVE  /\ builderFactory[i] \in DOMAIN factories /\ Factory(i) \in FactorySet
         /\ Factory(i).dir \in DOMAIN dirs
         /\ dirs[Factory(i).dir] \in Dirs
<1>1. Len(factories) \in Nat /\ DOMAIN factories = 1..Len(factories)
  BY LenProperties DEF ImageInv, ImageTypeOK
<1>2. builderFactory[i] \in DOMAIN factories
  BY <1>1 DEF ImageInv, FactoryInv
<1>3. Factory(i) \in FactorySet
  BY <1>2, ElementOfSeq, <1>1 DEF ImageInv, ImageTypeOK, Factory
<1>4. Factory(i).dir \in DOMAIN dirs
  BY <1>2 DEF ImageInv, FactoryInv, Factory
<1>5. dirs[Factory(i).dir] \in Dirs
  BY <1>4, ElementOfSeq, LenProperties DEF ImageInv, ImageTypeOK
<1> QED BY <1>2, <1>3, <1>4, <1>5

\* A build goes on while its factory, its job and what was pushed stay.
LEMMA BuildingKept ==
  ASSUME NEW j \in Insts, Building(j),
         state'[j] = state[j], build'[j] = build[j], Factory(j)' = Factory(j),
         dirs'[Factory(j).dir] = dirs[Factory(j).dir],
         \A k \in DOMAIN jobs : k \in DOMAIN jobs' /\ jobs'[k].destination = jobs[k].destination,
         DOMAIN registry \subseteq DOMAIN registry'
  PROVE  Building(j)'
BY DEF Building, JobOf, Changed

\* A step that leaves the factory of an instance alone, and forgets no pushed image,
\* does not make its image a wrong one.
LEMMA AcceptedKept ==
  ASSUME NEW j \in Insts, Accepted(j),
         state'[j] = state[j], imageName'[j] = imageName[j],
         state[j] \in {"Committed", "Stopped"} => Factory(j)' = Factory(j),
         DOMAIN registry \subseteq DOMAIN registry'
  PROVE  Accepted(j)'
BY DEF Accepted, Changed

\* A base image that can be pulled still can, while the registry forgets no image.
LEMMA SourcedKept ==
  ASSUME NEW j \in Insts, Sourced(j),
         state'[j] = state[j], build'[j] = build[j], gitFailed'[j] = gitFailed[j],
         state[j] \in {"Preparing", "Committed", "Stopped"} => Factory(j)' = Factory(j),
         DOMAIN registry \subseteq DOMAIN registry'
  PROVE  Sourced(j)'
BY DEF Sourced

\* The builds of all instances but one go on, and so do the others' images.
LEMMA OthersKept ==
  ASSUME ImageInv, NEW i \in Insts,
         \A j \in Insts \ {i} :
           /\ state'[j] = state[j] /\ build'[j] = build[j] /\ imageName'[j] = imageName[j]
           /\ gitFailed'[j] = gitFailed[j]
           /\ state[j] \in {"Preparing", "Committed", "Stopped"} => Factory(j)' = Factory(j)
           /\ state[j] = "Preparing" => dirs'[Factory(j).dir] = dirs[Factory(j).dir],
         \A k \in DOMAIN jobs : k \in DOMAIN jobs' /\ jobs'[k].destination = jobs[k].destination,
         DOMAIN registry \subseteq DOMAIN registry',
         build'[i].at # "idle" => Building(i)',
         Accepted(i)', Sourced(i)'
  PROVE  BuildInv' /\ CommitInv' /\ SourceInv'
<1>1. ASSUME NEW j \in Insts, build'[j].at # "idle" PROVE Building(j)'
  <2>1. CASE j # i
    <3>1. Building(j)
      BY <1>1, <2>1 DEF ImageInv, BuildInv
    <3>2. state[j] = "Preparing"
      BY <3>1 DEF Building
    <3> QED BY <2>1, <3>1, <3>2, BuildingKept
  <2> QED BY <1>1, <2>1
<1>2. ASSUME NEW j \in Insts PROVE Accepted(j)'
  <2>1. CASE j # i
    <3>1. Accepted(j)
      BY DEF ImageInv, CommitInv
    <3> QED BY <2>1, <3>1, AcceptedKept
  <2> QED BY <2>1
<1>3. ASSUME NEW j \in Insts PROVE Sourced(j)'
  <2>1. CASE j # i
    <3>1. Sourced(j)
      BY DEF ImageInv, SourceInv
    <3> QED BY <2>1, <3>1, SourcedKept
  <2> QED BY <2>1
<1> QED BY <1>1, <1>2, <1>3 DEF BuildInv, CommitInv, SourceInv

\* A build begins.
LEMMA BuildFacts ==
  ASSUME ImageTypeOK, NEW i \in Insts, NEW image \in ImageNames, Build(i, image)
  PROVE  /\ build' \in [Insts -> Builds] /\ build'[i].at = "create" /\ build'[i].image = image
         /\ \A j \in Insts \ {i} : build'[j] = build[j]
<1> DEFINE b == [at |-> "create", image |-> image, job |-> 0, seen |-> None]
<1>1. build' = [build EXCEPT ![i] = b]
  BY DEF Build
<1>2. b \in Builds /\ b.at = "create" /\ b.image = image
  BY DEF Builds
<1> HIDE DEF b
<1> QED BY <1>1, <1>2 DEF ImageTypeOK

-----------------------------------------------------------------------------
(* Setters *)

\* A new factory is that of one instance, with a new build directory; the others stay.
LEMMA NewFactory ==
  ASSUME ImageInv, NEW i \in Insts, NEW image \in Images \cup GitNames, NEW args \in Args,
         NewBuilderFactory(i, image, args)
  PROVE  /\ state' \in [Insts -> {"Absent", "None", "Preparing", "Committed", "Stopped"}]
         /\ builderFactory' \in [Insts -> Nat]
         /\ factories' \in Seq(FactorySet) /\ dirs' \in Seq(Dirs)
         /\ FactoryInv'
         /\ \A f \in DOMAIN factories : f \in DOMAIN factories' /\ factories'[f] = factories[f]
         /\ state'[i] = "Preparing" /\ Factory(i)'.dir \in DOMAIN dirs'
         /\ Factory(i)'.from = image
         /\ \A j \in Insts \ {i} :
              /\ state'[j] = state[j]
              /\ state[j] \in {"Preparing", "Committed", "Stopped"} =>
                   Factory(j)' = Factory(j) /\ dirs'[Factory(j).dir] = dirs[Factory(j).dir]
<1> USE DEF ImageInv
<1> DEFINE d == [files |-> {}, dockerfile |-> None]
           f == [from |-> image, instructions |-> <<>>, args |-> args, dir |-> Len(dirs')]
<1>1. /\ dirs' = Append(dirs, d) /\ factories' = Append(factories, f)
      /\ builderFactory' = [builderFactory EXCEPT ![i] = Len(factories')]
      /\ state' = [state EXCEPT ![i] = "Preparing"]
  BY DEF NewBuilderFactory, getBuildDir
<1>2. d \in Dirs
  BY DEF Dirs
<1>3. /\ dirs' \in Seq(Dirs) /\ Len(dirs) \in Nat /\ Len(dirs') = Len(dirs) + 1
      /\ DOMAIN dirs = 1..Len(dirs) /\ DOMAIN dirs' = 1..(Len(dirs) + 1)
      /\ \A k \in 1..Len(dirs) : dirs'[k] = dirs[k]
  BY <1>1, <1>2, AppendFacts DEF ImageTypeOK
<1>4. f \in FactorySet
  <2>1. <<>> \in Seq(Instructions)
    BY EmptySeq
  <2> QED BY <1>3, <2>1 DEF FactorySet
<1>5. /\ factories' \in Seq(FactorySet) /\ Len(factories) \in Nat
      /\ Len(factories') = Len(factories) + 1
      /\ DOMAIN factories = 1..Len(factories) /\ DOMAIN factories' = 1..(Len(factories) + 1)
      /\ \A k \in 1..Len(factories) : factories'[k] = factories[k]
      /\ factories'[Len(factories) + 1] = f
  BY <1>1, <1>4, AppendFacts DEF ImageTypeOK
<1> HIDE DEF d
<1>6. /\ builderFactory' \in [Insts -> Nat]
      /\ state' \in [Insts -> {"Absent", "None", "Preparing", "Committed", "Stopped"}]
      /\ builderFactory'[i] = Len(factories) + 1 /\ state'[i] = "Preparing"
      /\ \A j \in Insts \ {i} : builderFactory'[j] = builderFactory[j] /\ state'[j] = state[j]
  BY <1>1, <1>5 DEF ImageTypeOK
<1>7. \A j \in Insts : builderFactory[j] \in 0..Len(factories)
  BY DEF FactoryInv
<1>8. factories'[Len(factories) + 1].dir = Len(dirs) + 1 /\ factories'[Len(factories) + 1].from = image
  BY <1>3, <1>5
<1> HIDE DEF f
<1>9. ASSUME NEW j \in Insts
      PROVE  /\ builderFactory'[j] \in 0..Len(factories')
             /\ state'[j] \in {"Preparing", "Committed", "Stopped"} => builderFactory'[j] # 0
             /\ state'[j] = "Preparing" =>
                  \A k \in Insts \ {j} : builderFactory'[k] # builderFactory'[j]
  <2>1. \A k \in Insts : builderFactory[k] # Len(factories) + 1
    BY <1>5, <1>7
  <2>2. CASE j = i
    BY <1>5, <1>6, <2>1, <2>2
  <2>3. CASE j # i
    <3>1. builderFactory'[j] = builderFactory[j] /\ state'[j] = state[j]
      BY <1>6, <2>3
    <3>2. builderFactory'[j] \in 0..Len(factories')
      BY <1>5, <1>7, <3>1
    <3> QED BY <1>6, <2>1, <3>1, <3>2 DEF FactoryInv
  <2> QED BY <2>2, <2>3
<1>10. \A k \in DOMAIN factories : factories[k].dir \in 1..Len(dirs)
  BY <1>3 DEF FactoryInv
<1>11. ASSUME NEW k \in DOMAIN factories'
       PROVE  /\ factories'[k].dir \in DOMAIN dirs'
              /\ \A g \in DOMAIN factories' \ {k} : factories'[g].dir # factories'[k].dir
  <2>1. \A g \in DOMAIN factories' :
          IF g = Len(factories) + 1 THEN factories'[g].dir = Len(dirs) + 1
          ELSE g \in DOMAIN factories /\ factories'[g].dir = factories[g].dir
    BY <1>5, <1>8
  <2>2. \A g \in DOMAIN factories : factories[g].dir # Len(dirs) + 1
    BY <1>3, <1>10
  <2> QED BY <1>3, <1>5, <1>10, <2>1, <2>2 DEF FactoryInv
<1>12. FactoryInv'
  BY <1>9, <1>11 DEF FactoryInv
<1>13. Factory(i)'.dir \in DOMAIN dirs' /\ Factory(i)'.from = image
  BY <1>3, <1>6, <1>8 DEF Factory
<1>14. ASSUME NEW j \in Insts \ {i}, state[j] \in {"Preparing", "Committed", "Stopped"}
       PROVE  Factory(j)' = Factory(j) /\ dirs'[Factory(j).dir] = dirs[Factory(j).dir]
  <2>1. builderFactory[j] \in DOMAIN factories /\ Factory(j).dir \in DOMAIN dirs
    BY <1>14, FactoryFacts
  <2> QED BY <1>3, <1>5, <1>6, <2>1 DEF Factory
<1> QED BY <1>3, <1>5, <1>6, <1>12, <1>13, <1>14

\* SetImage makes a factory of its own for the instance, which then is Preparing.
LEMMA SetImageKeeps ==
  ASSUME ImageInv, NEW i \in Insts, NEW image \in Images, NEW args \in Args,
         SetImage(i, image, args)
  PROVE  ImageInv'
<1>1. /\ NewBuilderFactory(i, image, args) /\ build[i].at = "idle"
      /\ UNCHANGED <<imageName, imageCache, build, jobs, registry, gitFailed>>
  BY DEF SetImage, Free
<1>2. /\ state' \in [Insts -> {"Absent", "None", "Preparing", "Committed", "Stopped"}]
      /\ builderFactory' \in [Insts -> Nat]
      /\ factories' \in Seq(FactorySet) /\ dirs' \in Seq(Dirs) /\ FactoryInv'
      /\ state'[i] = "Preparing" /\ Factory(i)'.from = image
      /\ \A j \in Insts \ {i} :
           /\ state'[j] = state[j]
           /\ state[j] \in {"Preparing", "Committed", "Stopped"} =>
                Factory(j)' = Factory(j) /\ dirs'[Factory(j).dir] = dirs[Factory(j).dir]
  BY <1>1, NewFactory
<1>3. ImageTypeOK' /\ RegistryInv'
  BY <1>1, <1>2 DEF ImageInv, ImageTypeOK, RegistryInv
<1>4. Accepted(i)' /\ Sourced(i)'
  BY <1>2 DEF Accepted, Sourced
<1>5. BuildInv' /\ CommitInv' /\ SourceInv'
  BY <1>1, <1>2, <1>4, OthersKept
<1> QED BY <1>2, <1>3, <1>5 DEF ImageInv

\* SetGitRepo begins a build that has nothing to do with the factory.
LEMMA SetGitRepoKeeps ==
  ASSUME ImageInv, NEW i \in Insts, NEW repo \in Repos, NEW args \in Args,
         SetGitRepo(i, repo, args)
  PROVE  ImageInv'
<1> DEFINE image == DefaultImageName(repo)
<1>1. /\ NewBuilderFactory(i, image, args)
      /\ imageName' = [imageName EXCEPT ![i] = image]
      /\ Build(i, image)
      /\ UNCHANGED <<imageCache, jobs, registry, gitFailed>>
  BY DEF SetGitRepo, BuildImageFromGitRepo
<1>2. image \in GitNames /\ image \in ImageNames /\ IsGit(image)
  BY NameFacts DEF GitNames, ImageNames
<1> HIDE DEF image
<1>3. /\ state' \in [Insts -> {"Absent", "None", "Preparing", "Committed", "Stopped"}]
      /\ builderFactory' \in [Insts -> Nat]
      /\ factories' \in Seq(FactorySet) /\ dirs' \in Seq(Dirs) /\ FactoryInv'
      /\ state'[i] = "Preparing" /\ Factory(i)'.from = image
      /\ \A j \in Insts \ {i} :
           /\ state'[j] = state[j]
           /\ state[j] \in {"Preparing", "Committed", "Stopped"} =>
                Factory(j)' = Factory(j) /\ dirs'[Factory(j).dir] = dirs[Factory(j).dir]
  BY <1>1, <1>2, NewFactory
<1>5. /\ build' \in [Insts -> Builds] /\ build'[i].at = "create" /\ build'[i].image = image
      /\ \A j \in Insts \ {i} : build'[j] = build[j]
  BY <1>1, <1>2, BuildFacts DEF ImageInv
<1>6. /\ imageName' \in [Insts -> ImageNames \cup Images \cup {None}]
      /\ \A j \in Insts \ {i} : imageName'[j] = imageName[j]
  BY <1>1, <1>2 DEF ImageInv, ImageTypeOK
<1>7. ImageTypeOK' /\ RegistryInv'
  BY <1>1, <1>3, <1>5, <1>6 DEF ImageInv, ImageTypeOK, RegistryInv
<1>8. Accepted(i)' /\ Sourced(i)'
  BY <1>2, <1>3, <1>5 DEF Accepted, Sourced
<1>9. Building(i)'
  BY <1>2, <1>3, <1>5 DEF Building
<1>10. BuildInv' /\ CommitInv' /\ SourceInv'
  BY <1>1, <1>3, <1>5, <1>6, <1>8, <1>9, OthersKept
<1> QED BY <1>3, <1>7, <1>10 DEF ImageInv

\* An instruction is added to the factory of one instance, with no build going on.
LEMMA InstructKeeps ==
  ASSUME ImageInv, NEW i \in Insts, NEW instruction \in Instructions, Instruct(i, instruction),
         \/ UNCHANGED dirs
         \/ \E file \in Files : copyFileToBuildDir(file)
  PROVE  /\ ImageInv'
         /\ \A f \in DOMAIN factories : f # builderFactory[i] => factories'[f] = factories[f]
<1> DEFINE g == builderFactory[i]
<1>1. /\ build[i].at = "idle" /\ state[i] = "Preparing"
      /\ factories' = [factories EXCEPT ![g].instructions = Append(@, instruction)]
      /\ UNCHANGED <<state, builderFactory, imageName, imageCache, build, jobs, registry, gitFailed>>
  BY DEF Instruct, Free
<1>2. g \in DOMAIN factories /\ factories[g] \in FactorySet
  BY <1>1, FactoryFacts DEF Factory
<1>3. factories \in Seq(FactorySet) /\ DOMAIN factories = 1..Len(factories) /\ Len(factories) \in Nat
  BY LenProperties DEF ImageInv, ImageTypeOK
<1>4. Append(factories[g].instructions, instruction) \in Seq(Instructions)
  BY <1>2, AppendFacts DEF FactorySet
<1> HIDE DEF g
<1>5. /\ factories' \in Seq(FactorySet)
      /\ Len(factories') = Len(factories) /\ DOMAIN factories' = DOMAIN factories
      /\ \A f \in DOMAIN factories : f # g => factories'[f] = factories[f]
      /\ \A f \in DOMAIN factories :
           factories'[f].dir = factories[f].dir /\ factories'[f].from = factories[f].from
  <2> DEFINE e == [factories[g] EXCEPT !.instructions = Append(@, instruction)]
  <2>1. e \in FactorySet /\ e.dir = factories[g].dir /\ e.from = factories[g].from
    BY <1>2, <1>4 DEF FactorySet
  <2>2. factories' = [factories EXCEPT ![g] = e]
    BY <1>1, <1>2, <1>3
  <2> HIDE DEF e
  <2> QED BY <1>2, <1>3, <2>1, <2>2, ExceptSeq
<1>6. /\ dirs' \in Seq(Dirs) /\ \A d \in DOMAIN dirs : d \in DOMAIN dirs' /\ dirs'[d] = dirs[d]
  <2>1. CASE UNCHANGED dirs
    BY <2>1 DEF ImageInv, ImageTypeOK
  <2>2. ASSUME NEW file \in Files, copyFileToBuildDir(file)
        PROVE  /\ dirs' \in Seq(Dirs)
               /\ \A d \in DOMAIN dirs : d \in DOMAIN dirs' /\ dirs'[d] = dirs[d]
    <3> DEFINE new == [files |-> {file}, dockerfile |-> None]
    <3>1. dirs' = Append(dirs, new) /\ new \in Dirs
      BY <2>2 DEF copyFileToBuildDir, getBuildDir, Dirs
    <3> HIDE DEF new
    <3>2. /\ dirs' \in Seq(Dirs) /\ Len(dirs) \in Nat
          /\ DOMAIN dirs = 1..Len(dirs) /\ DOMAIN dirs' = 1..(Len(dirs) + 1)
          /\ \A k \in 1..Len(dirs) : dirs'[k] = dirs[k]
      BY <3>1, AppendFacts DEF ImageInv, ImageTypeOK
    <3> QED BY <3>2
  <2> QED BY <2>1, <2>2
<1>7. ImageTypeOK' /\ RegistryInv'
  BY <1>1, <1>5, <1>6 DEF ImageInv, ImageTypeOK, RegistryInv
<1>8. FactoryInv'
  BY <1>1, <1>5, <1>6 DEF ImageInv, FactoryInv
<1>9. ASSUME NEW j \in Insts \ {i}, state[j] \in {"Preparing", "Committed", "Stopped"}
      PROVE  Factory(j)' = Factory(j) /\ dirs'[Factory(j).dir] = dirs[Factory(j).dir]
  <2>1. builderFactory[j] \in DOMAIN factories /\ Factory(j).dir \in DOMAIN dirs
    BY <1>9, FactoryFacts
  <2>2. builderFactory[j] # g
    BY <1>1 DEF ImageInv, FactoryInv, g
  <2> QED BY <1>1, <1>5, <1>6, <2>1, <2>2 DEF Factory
<1>10. Accepted(i)' /\ Sourced(i)'
  <2>1. Sourced(i)
    BY DEF ImageInv, SourceInv
  <2>2. Factory(i)'.from = Factory(i).from
    BY <1>1, <1>2, <1>5 DEF Factory, g
  <2> QED BY <1>1, <2>1, <2>2 DEF Accepted, Sourced
<1>11. BuildInv' /\ CommitInv' /\ SourceInv'
  BY <1>1, <1>9, <1>10, OthersKept
<1> QED BY <1>5, <1>7, <1>8, <1>11 DEF ImageInv, g

-----------------------------------------------------------------------------
(* Commit *)

LEMMA HashFacts ==
  ASSUME ImageInv, NEW i \in Insts, state[i] = "Preparing"
  PROVE  /\ GenerateImageHash(Factory(i)) \in Hashes
         /\ Fits(getImageRegistry(GenerateImageHash(Factory(i))), Factory(i))
<1>1. Factory(i) \in FactorySet /\ dirs[Factory(i).dir] \in Dirs
  BY FactoryFacts
<1>2. GenerateImageHash(Factory(i)) \in Hashes
  BY <1>1 DEF GenerateImageHash, Hashes, FactorySet
<1>3. /\ GenerateImageHash(Factory(i)).from = Factory(i).from
      /\ GenerateImageHash(Factory(i)).instructions = Factory(i).instructions
  BY DEF GenerateImageHash
<1> QED BY <1>2, <1>3, NameFacts DEF Fits

\* An instance gets an image that fits its factory, if that has instructions.
LEMMA CommittedKeeps ==
  ASSUME ImageInv, NEW i \in Insts, state[i] = "Preparing", NEW image \in ImageNames \cup Images,
         Committed(i, image),
         IF Changed(Factory(i)) THEN image \in DOMAIN registry /\ Fits(image, Factory(i))
         ELSE image = Factory(i).from,
         build[i].at # "idle" => ~IsGit(build[i].image),
         build'[i].at = "idle", build' \in [Insts -> Builds],
         \A j \in Insts \ {i} : build'[j] = build[j],
         imageCache' \in [Insts -> SUBSET Hashes],
         \A j \in Insts : \A h \in imageCache'[j] : getImageRegistry(h) \in DOMAIN registry,
         UNCHANGED <<builderFactory, factories, dirs, jobs, registry, gitFailed>>
  PROVE  ImageInv'
<1>1. /\ imageName' \in [Insts -> ImageNames \cup Images \cup {None}] /\ imageName'[i] = image
      /\ state' \in [Insts -> {"Absent", "None", "Preparing", "Committed", "Stopped"}]
      /\ state'[i] = "Committed"
      /\ \A j \in Insts \ {i} : imageName'[j] = imageName[j] /\ state'[j] = state[j]
  BY DEF Committed, ImageInv, ImageTypeOK
<1>2. ImageTypeOK'
  BY <1>1 DEF ImageInv, ImageTypeOK
<1>3. FactoryInv'
  BY <1>1 DEF ImageInv, FactoryInv
<1>4. RegistryInv'
  BY DEF ImageInv, RegistryInv
<1>5. \A j \in Insts : Factory(j)' = Factory(j)
  BY DEF Factory
<1>6. Accepted(i)' /\ Sourced(i)'
  <2>1. Sourced(i)
    BY DEF ImageInv, SourceInv
  <2> QED BY <1>1, <1>5, <2>1 DEF Accepted, Changed, Sourced
<1>7. BuildInv' /\ CommitInv' /\ SourceInv'
  BY <1>1, <1>5, <1>6, OthersKept
<1> QED BY <1>2, <1>3, <1>4, <1>7 DEF ImageInv

\* The two outcomes of Commit that build nothing: no instructions, or a cached image.
LEMMA CommitKeeps ==
  ASSUME ImageInv, NEW i \in Insts, CommitUnchanged(i) \/ CommitCached(i)
  PROVE  ImageInv'
<1>1. /\ state[i] = "Preparing" /\ build[i].at = "idle"
      /\ UNCHANGED <<builderFactory, imageCache, factories, dirs, build, jobs, registry, gitFailed>>
  BY DEF CommitUnchanged, CommitCached, Free
<1>2. /\ build \in [Insts -> Builds] /\ imageCache \in [Insts -> SUBSET Hashes]
      /\ \A j \in Insts : \A h \in imageCache[j] : getImageRegistry(h) \in DOMAIN registry
  BY DEF ImageInv, ImageTypeOK, RegistryInv
<1>3. CASE CommitUnchanged(i)
  <2>1. ~Changed(Factory(i)) /\ Committed(i, Factory(i).from)
    BY <1>3 DEF CommitUnchanged
  <2>2. Factory(i).from \in ImageNames \cup Images
    BY <1>1, FactoryFacts DEF FactorySet, ImageNames
  <2> QED BY <1>1, <1>2, <2>1, <2>2, CommittedKeeps
<1>4. CASE CommitCached(i)
  <2> DEFINE hash == GenerateImageHash(Factory(i))
  <2>1. /\ hash \in imageCache[i] /\ Committed(i, getImageRegistry(hash))
        /\ Changed(Factory(i))
    BY <1>4 DEF CommitCached, checkImageHashInCache
  <2>2. hash \in Hashes /\ Fits(getImageRegistry(hash), Factory(i))
    BY <1>1, HashFacts
  <2> HIDE DEF hash
  <2>3. getImageRegistry(hash) \in ImageNames /\ getImageRegistry(hash) \in DOMAIN registry
    BY <1>2, <2>1, <2>2 DEF ImageNames
  <2> QED BY <1>1, <1>2, <2>1, <2>2, <2>3, CommittedKeeps
<1> QED BY <1>3, <1>4

\* The Dockerfile is written to a directory that no other factory has.
LEMMA PushBuilderImageKeeps ==
  ASSUME ImageInv, NEW i \in Insts, PushBuilderImage(i)
  PROVE  ImageInv'
<1> DEFINE image == getImageRegistry(GenerateImageHash(Factory(i)))
           d == Factory(i).dir
<1>1. /\ state[i] = "Preparing" /\ Build(i, image)
      /\ dirs' = [dirs EXCEPT ![d].dockerfile = Factory(i).instructions]
      /\ UNCHANGED <<state, builderFactory, imageName, imageCache, factories, jobs, registry, gitFailed>>
      /\ build[i].at = "idle" /\ Changed(Factory(i))
  BY DEF PushBuilderImage, Free
<1>2. image \in ImageNames /\ Fits(image, Factory(i)) /\ ~IsGit(image)
  BY <1>1, HashFacts, NameFacts DEF ImageNames
<1> HIDE DEF image
<1>3. /\ build' \in [Insts -> Builds] /\ build'[i].at = "create" /\ build'[i].image = image
      /\ \A j \in Insts \ {i} : build'[j] = build[j]
  BY <1>1, <1>2, BuildFacts DEF ImageInv
<1>4. d \in DOMAIN dirs /\ dirs[d] \in Dirs /\ Factory(i) \in FactorySet
  BY <1>1, FactoryFacts
<1>5. dirs \in Seq(Dirs) /\ DOMAIN dirs = 1..Len(dirs) /\ Len(dirs) \in Nat
  BY LenProperties DEF ImageInv, ImageTypeOK
<1> HIDE DEF d
<1>6. /\ dirs' \in Seq(Dirs) /\ DOMAIN dirs' = DOMAIN dirs
      /\ dirs'[d].dockerfile = Factory(i).instructions
      /\ \A e \in DOMAIN dirs : e # d => dirs'[e] = dirs[e]
  <2> DEFINE n == [dirs[d] EXCEPT !.dockerfile = Factory(i).instructions]
  <2>1. n \in Dirs /\ n.dockerfile = Factory(i).instructions
    BY <1>4 DEF Dirs, FactorySet
  <2>2. dirs' = [dirs EXCEPT ![d] = n]
    BY <1>1, <1>4, <1>5
  <2> HIDE DEF n
  <2> QED BY <1>4, <1>5, <2>1, <2>2, ExceptSeq
<1>7. ImageTypeOK'
  BY <1>1, <1>3, <1>6 DEF ImageInv, ImageTypeOK
<1>8. FactoryInv' /\ RegistryInv'
  BY <1>1, <1>6 DEF ImageInv, FactoryInv, RegistryInv
<1>9. ASSUME NEW j \in Insts \ {i}, state[j] = "Preparing"
      PROVE  dirs'[Factory(j).dir] = dirs[Factory(j).dir]
  <2>1. /\ builderFactory[j] \in DOMAIN factories /\ builderFactory[i] \in DOMAIN factories
        /\ Factory(j).dir \in DOMAIN dirs
    BY <1>1, <1>9, FactoryFacts
  <2>2. builderFactory[j] # builderFactory[i]
    BY <1>9 DEF ImageInv, FactoryInv
  <2>3. Factory(j).dir # d
    BY <2>1, <2>2 DEF ImageInv, FactoryInv, Factory, d
  <2> QED BY <1>6, <2>1, <2>3
<1>10. \A j \in Insts : Factory(j)' = Factory(j)
  BY <1>1 DEF Factory
<1>11. Building(i)'
  BY <1>1, <1>2, <1>3, <1>6, <1>10 DEF Building, Changed, d
<1>12. Accepted(i)' /\ Sourced(i)'
  <2>1. Sourced(i)
    BY DEF ImageInv, SourceInv
  <2> QED BY <1>1, <1>2, <1>3, <1>10, <2>1 DEF Accepted, Sourced
<1>13. BuildInv' /\ CommitInv' /\ SourceInv'
  BY <1>1, <1>3, <1>9, <1>10, <1>11, <1>12, OthersKept
<1> QED BY <1>7, <1>8, <1>13 DEF ImageInv

-----------------------------------------------------------------------------
(* The Kaniko builder *)

\* Only the build of one instance and the jobs change.
LEMMA BuilderKeeps ==
  ASSUME ImageInv, NEW i \in Insts,
         build' \in [Insts -> Builds], \A j \in Insts \ {i} : build'[j] = build[j],
         jobs' \in Seq(Jobs), RegistryInv',
         \A k \in DOMAIN jobs : k \in DOMAIN jobs' /\ jobs'[k].destination = jobs[k].destination,
         build'[i].at # "idle" => Building(i)',
         UNCHANGED <<state, builderFactory, imageName, imageCache, factories, dirs>>,
         DOMAIN registry \subseteq DOMAIN registry',
         gitFailed' \in [Insts -> BOOLEAN], \A j \in Insts \ {i} : gitFailed'[j] = gitFailed[j],
         Sourced(i)'
  PROVE  ImageInv'
<1>1. ImageTypeOK' /\ FactoryInv'
  BY DEF ImageInv, ImageTypeOK, FactoryInv
<1>2. \A j \in Insts : Factory(j)' = Factory(j)
  BY DEF Factory
<1>3. Accepted(i)'
  BY <1>2, AcceptedKept DEF ImageInv, CommitInv
<1>4. BuildInv' /\ CommitInv' /\ SourceInv'
  BY <1>2, <1>3, OthersKept
<1> QED BY <1>1, <1>4 DEF ImageInv

\* The archive of the build directory has the Dockerfile that PushBuilderImage wrote.
LEMMA CreateJobKeeps ==
  ASSUME ImageInv, NEW i \in Insts, CreateJob(i)
  PROVE  ImageInv'
<1> DEFINE job == [destination |-> build[i].image, content |-> Content(i), failed |-> 0, succeeded |-> 0]
<1>1. /\ build[i].at = "create" /\ jobs' = Append(jobs, job)
      /\ build' = [build EXCEPT ![i] = [@ EXCEPT !.at = "wait", !.job = Len(jobs')]]
      /\ UNCHANGED <<state, builderFactory, imageName, imageCache, factories, dirs, registry, gitFailed>>
  BY DEF CreateJob
<1>2. Building(i) /\ build[i] \in Builds
  BY <1>1 DEF ImageInv, BuildInv, ImageTypeOK
<1>3. /\ state[i] = "Preparing" /\ build[i].image \in ImageNames
      /\ IsGit(build[i].image) => build[i].image = Factory(i).from
      /\ ~IsGit(build[i].image) => Changed(Factory(i)) /\ Fits(build[i].image, Factory(i))
      /\ ~IsGit(build[i].image) => dirs[Factory(i).dir].dockerfile = Factory(i).instructions
  BY <1>1, <1>2 DEF Building
<1>4. Factory(i) \in FactorySet /\ dirs[Factory(i).dir] \in Dirs
  BY <1>3, FactoryFacts
<1>5. Context(i) \in Contexts /\ (~IsGit(build[i].image) => Context(i).instructions = Factory(i).instructions)
  <2>1. CASE IsGit(build[i].image)
    <3>1. <<>> \in Seq(Instructions)
      BY EmptySeq
    <3> QED BY <2>1, <3>1 DEF Context, Contexts
  <2>2. CASE ~IsGit(build[i].image)
    BY <1>3, <1>4, <2>2 DEF Context, createTarGz, Contexts, Dirs
  <2> QED BY <2>1, <2>2
<1>6. /\ Content(i) \in Contents
      /\ ~IsGit(build[i].image) => Content(i).from = Factory(i).from
      /\ Content(i).context = Context(i)
  BY <1>4, <1>5 DEF Content, Contents, FactorySet
<1>7. job \in Jobs /\ Honest(job.destination, job.content)
  <2>1. job \in Jobs
    BY <1>3, <1>6 DEF Jobs
  <2>2. Honest(build[i].image, Content(i))
    BY <1>3, <1>5, <1>6 DEF Honest, Fits, IsGit
  <2> QED BY <2>1, <2>2
<1>8. job.destination = build[i].image /\ job.succeeded = 0
  OBVIOUS
<1> HIDE DEF job
<1>9. /\ jobs' \in Seq(Jobs) /\ Len(jobs) \in Nat /\ Len(jobs') = Len(jobs) + 1
      /\ DOMAIN jobs = 1..Len(jobs) /\ DOMAIN jobs' = 1..(Len(jobs) + 1)
      /\ \A k \in 1..Len(jobs) : jobs'[k] = jobs[k]
      /\ jobs'[Len(jobs) + 1] = job
  BY <1>1, <1>7, AppendFacts DEF ImageInv, ImageTypeOK
<1>10. /\ build'[i] = [build[i] EXCEPT !.at = "wait", !.job = Len(jobs')]
       /\ \A j \in Insts \ {i} : build'[j] = build[j]
  BY <1>1 DEF ImageInv, ImageTypeOK
<1>11. /\ build'[i] \in Builds /\ build'[i].at = "wait" /\ build'[i].job = Len(jobs) + 1
       /\ build'[i].image = build[i].image
  <2>1. Len(jobs') \in Nat /\ Len(jobs') = Len(jobs) + 1
    BY <1>9
  <2> DEFINE n == Len(jobs')
  <2>2. build[i] = [at |-> build[i].at, image |-> build[i].image, job |-> build[i].job,
                    seen |-> build[i].seen]
    BY <1>2 DEF Builds
  <2> HIDE DEF n
  <2>3. build'[i] = [at |-> "wait", image |-> build[i].image, job |-> n, seen |-> build[i].seen]
    BY <1>10, <2>2 DEF n
  <2> QED BY <1>2, <2>1, <2>3 DEF Builds, n
<1>12. build' \in [Insts -> Builds]
  BY <1>1, <1>10, <1>11 DEF ImageInv, ImageTypeOK
<1>13. Factory(i)' = Factory(i)
  BY <1>1 DEF Factory
<1>14. Building(i)'
  <2>1. build'[i].job \in DOMAIN jobs' /\ JobOf(i)'.destination = build'[i].image
    BY <1>8, <1>9, <1>11 DEF JobOf
  <2> QED BY <1>1, <1>3, <1>11, <1>13, <2>1 DEF Building, Changed
<1>15. RegistryInv'
  <2>1. ASSUME NEW k \in DOMAIN jobs'
        PROVE  /\ Honest(jobs'[k].destination, jobs'[k].content)
               /\ jobs'[k].succeeded # 0 => jobs'[k].destination \in DOMAIN registry
    <3>1. CASE k = Len(jobs) + 1
      BY <1>7, <1>8, <1>9, <3>1
    <3>2. CASE k # Len(jobs) + 1
      BY <1>9, <3>2 DEF ImageInv, RegistryInv
    <3> QED BY <3>1, <3>2
  <2> QED BY <1>1, <2>1 DEF ImageInv, RegistryInv
<1>16. \A k \in DOMAIN jobs : k \in DOMAIN jobs' /\ jobs'[k].destination = jobs[k].destination
  BY <1>9
<1>17. Sourced(i)' /\ gitFailed \in [Insts -> BOOLEAN]
  BY <1>1, <1>11, <1>13 DEF ImageInv, ImageTypeOK, SourceInv, Sourced
<1> QED BY <1>1, <1>9, <1>10, <1>12, <1>14, <1>15, <1>16, <1>17, BuilderKeeps

\* What the watch has seen stays true of the registry.
LEMMA WaitKeeps ==
  ASSUME ImageInv, NEW i \in Insts, waitForJobCompletion(i)
  PROVE  ImageInv'
<1>1. /\ build[i].at = "wait"
      /\ build' = [build EXCEPT ![i] = [@ EXCEPT !.at = "finish", !.seen = JobOf(i)]]
      /\ UNCHANGED <<state, builderFactory, imageName, imageCache, factories, dirs, jobs, registry, gitFailed>>
  BY DEF waitForJobCompletion
<1>2. Building(i) /\ build[i] \in Builds
  BY <1>1 DEF ImageInv, BuildInv, ImageTypeOK
<1>3. build[i].job \in DOMAIN jobs /\ JobOf(i).destination = build[i].image
  BY <1>1, <1>2 DEF Building
<1>4. JobOf(i) \in Jobs
  BY <1>3, ElementOfSeq, LenProperties DEF ImageInv, ImageTypeOK, JobOf
<1>5. JobOf(i).succeeded # 0 => build[i].image \in DOMAIN registry
  BY <1>3 DEF ImageInv, RegistryInv, JobOf
<1>6. /\ build'[i] = [build[i] EXCEPT !.at = "finish", !.seen = JobOf(i)]
      /\ \A j \in Insts \ {i} : build'[j] = build[j]
  BY <1>1 DEF ImageInv, ImageTypeOK
<1>7. /\ build'[i] \in Builds /\ build'[i].at = "finish" /\ build'[i].seen = JobOf(i)
      /\ build'[i].image = build[i].image
  BY <1>2, <1>4, <1>6 DEF Builds
<1>8. build' \in [Insts -> Builds]
  BY <1>1, <1>6, <1>7 DEF ImageInv, ImageTypeOK
<1>9. Factory(i)' = Factory(i)
  BY <1>1 DEF Factory
<1>10. Building(i)'
  BY <1>1, <1>2, <1>4, <1>5, <1>7, <1>9 DEF Building
<1>11. RegistryInv' /\ jobs' \in Seq(Jobs)
  BY <1>1 DEF ImageInv, RegistryInv, ImageTypeOK
<1>12. Sourced(i)' /\ gitFailed \in [Insts -> BOOLEAN]
  BY <1>1, <1>7, <1>9 DEF ImageInv, ImageTypeOK, SourceInv, Sourced
<1> QED BY <1>1, <1>6, <1>8, <1>10, <1>11, <1>12, BuilderKeeps

\* An instance that does not build.
LEMMA IdleFacts == Idle \in Builds /\ Idle.at = "idle"
BY DEF Idle, Builds

\* The end of a build.  A git image that was not pushed leaves an error behind.
LEMMA BuildEnds ==
  ASSUME ImageInv, NEW i \in Insts, NEW error \in BOOLEAN,
         build[i].at # "idle", build' = [build EXCEPT ![i] = Idle], GitFails(i, error),
         IsGit(build[i].image) => error \/ build[i].image \in DOMAIN registry,
         UNCHANGED <<state, factories, builderFactory, registry>>
  PROVE  /\ gitFailed' \in [Insts -> BOOLEAN]
         /\ \A j \in Insts \ {i} : gitFailed'[j] = gitFailed[j]
         /\ Sourced(i)'
<1>1. /\ gitFailed' \in [Insts -> BOOLEAN]
      /\ \A j \in Insts \ {i} : gitFailed'[j] = gitFailed[j]
      /\ gitFailed[i] => gitFailed'[i]
      /\ IsGit(build[i].image) /\ error => gitFailed'[i]
  BY DEF GitFails, ImageInv, ImageTypeOK
<1>2. Building(i) /\ Sourced(i)
  BY DEF ImageInv, BuildInv, SourceInv
<1>3. Factory(i)' = Factory(i)
  BY DEF Factory
<1>4. Factory(i).from \in Images \cup DOMAIN registry \/ gitFailed'[i]
  BY <1>1, <1>2 DEF Building, Sourced
<1> QED BY <1>1, <1>3, <1>4 DEF Sourced

\* Commit accepts what has succeeded, and puts its hash into the cache.
LEMMA ReturnKeeps ==
  ASSUME ImageInv, NEW i \in Insts, Return(i)
  PROVE  ImageInv'
<1>1. /\ build[i].at = "finish" /\ build' = [build EXCEPT ![i] = Idle]
      /\ GitFails(i, build[i].seen.succeeded = 0)
      /\ UNCHANGED <<builderFactory, factories, dirs, jobs, registry>>
  BY DEF Return
<1>2. /\ build' \in [Insts -> Builds] /\ build'[i].at = "idle"
      /\ \A j \in Insts \ {i} : build'[j] = build[j]
  BY <1>1, IdleFacts DEF ImageInv, ImageTypeOK
<1>3. CASE UNCHANGED <<state, imageName, imageCache>>
  <2>1. RegistryInv' /\ jobs' \in Seq(Jobs)
    BY <1>1, <1>3 DEF ImageInv, RegistryInv, ImageTypeOK
  <2>2. IsGit(build[i].image) => build[i].seen.succeeded = 0 \/ build[i].image \in DOMAIN registry
    BY <1>1 DEF ImageInv, BuildInv, Building
  <2>3. /\ gitFailed' \in [Insts -> BOOLEAN] /\ Sourced(i)'
        /\ \A j \in Insts \ {i} : gitFailed'[j] = gitFailed[j]
    BY <1>1, <1>3, <2>2, BuildEnds
  <2> QED BY <1>1, <1>2, <1>3, <2>1, <2>3, BuilderKeeps
<1>4. CASE ~UNCHANGED <<state, imageName, imageCache>>
  <2> DEFINE image == build[i].image
  <2>1. /\ ~IsGit(image) /\ build[i].seen.succeeded # 0
        /\ updateImageCacheWithHash(i, image[2]) /\ Committed(i, image)
    BY <1>4 DEF Return
  <2>2. Building(i)
    BY <1>1 DEF ImageInv, BuildInv
  <2>3. /\ state[i] = "Preparing" /\ image \in ImageNames /\ Fits(image, Factory(i))
        /\ image \in DOMAIN registry /\ Changed(Factory(i)) /\ ~IsGit(build[i].image)
    BY <1>1, <2>1, <2>2 DEF Building
  <2>9. gitFailed' = gitFailed
    BY <1>1, <2>1 DEF GitFails, ImageInv, ImageTypeOK
  <2>4. PICK h \in Hashes : image = getImageRegistry(h)
    BY <2>1, <2>3, NameFacts DEF ImageNames, GitNames
  <2>5. image[2] = h
    BY <2>4, NameFacts
  <2> HIDE DEF image
  <2>6. imageCache' = [imageCache EXCEPT ![i] = @ \cup {h}]
    BY <2>1, <2>5 DEF updateImageCacheWithHash
  <2>7. imageCache' \in [Insts -> SUBSET Hashes]
    BY <2>6 DEF ImageInv, ImageTypeOK
  <2>8. \A j \in Insts : \A k \in imageCache'[j] : getImageRegistry(k) \in DOMAIN registry
    BY <2>3, <2>4, <2>6 DEF ImageInv, ImageTypeOK, RegistryInv
  <2> QED BY <1>1, <1>2, <2>1, <2>3, <2>7, <2>8, <2>9, CommittedKeeps
<1> QED BY <1>3, <1>4

\* A build that fails returns, and leaves the settings, the jobs and the registry alone.
LEMMA BuildErrorKeeps ==
  ASSUME ImageInv, NEW i \in Insts, BuildError(i)
  PROVE  ImageInv'
<1>1. /\ build' = [build EXCEPT ![i] = Idle]
      /\ build[i].at # "idle" /\ GitFails(i, TRUE)
      /\ UNCHANGED <<state, builderFactory, imageName, imageCache, factories, dirs, jobs, registry>>
  BY DEF BuildError
<1>2. /\ build' \in [Insts -> Builds] /\ build'[i].at = "idle"
      /\ \A j \in Insts \ {i} : build'[j] = build[j]
  BY <1>1, IdleFacts DEF ImageInv, ImageTypeOK
<1>3. RegistryInv' /\ jobs' \in Seq(Jobs)
  BY <1>1 DEF ImageInv, RegistryInv, ImageTypeOK
<1>4. /\ gitFailed' \in [Insts -> BOOLEAN] /\ Sourced(i)'
      /\ \A j \in Insts \ {i} : gitFailed'[j] = gitFailed[j]
  BY <1>1, BuildEnds
<1> QED BY <1>1, <1>2, <1>3, <1>4, BuilderKeeps

-----------------------------------------------------------------------------
(* The cluster *)

\* A job that pushes, also one nobody waits for, replaces an image by one that has the
\* same instructions.
LEMMA PodKeeps ==
  ASSUME ImageInv, NEW k \in DOMAIN jobs, PodSucceeds(k) \/ PodFails(k)
  PROVE  ImageInv'
<1>1. /\ UNCHANGED <<state, builderFactory, imageName, imageCache, factories, dirs, build, gitFailed>>
      /\ UNCHANGED registry \/ Push(k)
  BY DEF PodSucceeds, PodFails
<1>2. jobs \in Seq(Jobs) /\ DOMAIN jobs = 1..Len(jobs) /\ Len(jobs) \in Nat /\ jobs[k] \in Jobs
  BY LenProperties, ElementOfSeq DEF ImageInv, ImageTypeOK
<1>3. PICK job \in Jobs :
        /\ jobs' = [jobs EXCEPT ![k] = job]
        /\ job.destination = jobs[k].destination /\ job.content = jobs[k].content
        /\ job.succeeded # jobs[k].succeeded => Push(k)
  <2>1. CASE PodSucceeds(k)
    <3> DEFINE new == [jobs[k] EXCEPT !.succeeded = 1]
    <3>1. jobs' = [jobs EXCEPT ![k] = new] /\ Push(k)
      BY <1>2, <2>1 DEF PodSucceeds
    <3>2. new \in Jobs /\ new.destination = jobs[k].destination /\ new.content = jobs[k].content
      BY <1>2 DEF Jobs
    <3> HIDE DEF new
    <3> QED BY <3>1, <3>2
  <2>2. CASE PodFails(k)
    <3> DEFINE new == [jobs[k] EXCEPT !.failed = @ + 1]
    <3>1. jobs' = [jobs EXCEPT ![k] = new]
      BY <1>2, <2>2 DEF PodFails
    <3>2. /\ new \in Jobs /\ new.destination = jobs[k].destination /\ new.content = jobs[k].content
          /\ new.succeeded = jobs[k].succeeded
      BY <1>2 DEF Jobs
    <3> HIDE DEF new
    <3> QED BY <3>1, <3>2
  <2> QED BY <2>1, <2>2
<1>4. /\ jobs' \in Seq(Jobs) /\ DOMAIN jobs' = DOMAIN jobs /\ jobs'[k] = job
      /\ \A l \in DOMAIN jobs : l # k => jobs'[l] = jobs[l]
  BY <1>2, <1>3, ExceptSeq
<1>5. /\ DOMAIN registry \subseteq DOMAIN registry'
      /\ Push(k) => jobs[k].destination \in DOMAIN registry'
      /\ \A n \in DOMAIN registry' : Honest(n, registry'[n])
  <2>1. CASE UNCHANGED registry /\ ~Push(k)
    BY <2>1 DEF ImageInv, RegistryInv
  <2>2. CASE Push(k)
    <3>1. Honest(jobs[k].destination, jobs[k].content)
      BY DEF ImageInv, RegistryInv
    <3>2. /\ DOMAIN registry' = DOMAIN registry \cup {jobs[k].destination}
          /\ registry'[jobs[k].destination] = jobs[k].content
          /\ \A n \in DOMAIN registry \ {jobs[k].destination} : registry'[n] = registry[n]
      BY <2>2, PushFacts
    <3>3. ASSUME NEW n \in DOMAIN registry' PROVE Honest(n, registry'[n])
      <4>1. CASE n = jobs[k].destination
        BY <3>1, <3>2, <4>1
      <4>2. CASE n # jobs[k].destination
        BY <3>2, <4>2 DEF ImageInv, RegistryInv
      <4> QED BY <4>1, <4>2
    <3> QED BY <3>2, <3>3
  <2> QED BY <1>1, <2>1, <2>2
<1>6. RegistryInv'
  <2>1. ASSUME NEW l \in DOMAIN jobs'
        PROVE  /\ Honest(jobs'[l].destination, jobs'[l].content)
               /\ jobs'[l].succeeded # 0 => jobs'[l].destination \in DOMAIN registry'
    <3>1. CASE l = k
      BY <1>3, <1>4, <1>5, <3>1 DEF ImageInv, RegistryInv
    <3>2. CASE l # k
      BY <1>4, <1>5, <3>2 DEF ImageInv, RegistryInv
    <3> QED BY <3>1, <3>2
  <2>2. \A i \in Insts : \A h \in imageCache'[i] : getImageRegistry(h) \in DOMAIN registry'
    BY <1>1, <1>5 DEF ImageInv, RegistryInv
  <2> QED BY <1>5, <2>1, <2>2 DEF RegistryInv
<1>7. \A l \in DOMAIN jobs : l \in DOMAIN jobs' /\ jobs'[l].destination = jobs[l].destination
  BY <1>3, <1>4
<1>8. ImageTypeOK' /\ FactoryInv'
  BY <1>1, <1>4 DEF ImageInv, ImageTypeOK, FactoryInv
<1>9. \A j \in Insts : Factory(j)' = Factory(j)
  BY <1>1 DEF Factory
<1>10. BuildInv'
  <2> SUFFICES ASSUME NEW j \in Insts, build'[j].at # "idle" PROVE Building(j)'
    BY DEF BuildInv
  <2>1. Building(j)
    BY <1>1 DEF ImageInv, BuildInv
  <2> QED BY <1>1, <1>5, <1>7, <1>9, <2>1, BuildingKept
<1>11. CommitInv'
  BY <1>1, <1>5, <1>9, AcceptedKept DEF ImageInv, CommitInv
<1>12. SourceInv'
  BY <1>1, <1>5, <1>9, SourcedKept DEF ImageInv, SourceInv
<1> QED BY <1>6, <1>8, <1>10, <1>11, <1>12 DEF ImageInv

-----------------------------------------------------------------------------
(* Instances *)

LEMMA StartAndStopKeeps ==
  ASSUME ImageInv, NEW i \in Insts, StartAndStop(i)
  PROVE  ImageInv'
<1>1. /\ build[i].at = "idle" /\ state[i] = "Committed" /\ state' = [state EXCEPT ![i] = "Stopped"]
      /\ UNCHANGED <<builderFactory, imageName, imageCache, factories, dirs, build, jobs, registry, gitFailed>>
  BY DEF StartAndStop, Free
<1>2. state'[i] = "Stopped" /\ \A j \in Insts \ {i} : state'[j] = state[j]
  BY <1>1 DEF ImageInv, ImageTypeOK
<1>3. ImageTypeOK' /\ RegistryInv'
  BY <1>1 DEF ImageInv, ImageTypeOK, RegistryInv
<1>4. FactoryInv'
  BY <1>1, <1>2 DEF ImageInv, FactoryInv
<1>5. \A j \in Insts : Factory(j)' = Factory(j)
  BY <1>1 DEF Factory
<1>6. Accepted(i)' /\ Sourced(i)'
  BY <1>1, <1>5 DEF ImageInv, CommitInv, Accepted, Changed, SourceInv, Sourced
<1>7. BuildInv' /\ CommitInv' /\ SourceInv'
  BY <1>1, <1>2, <1>5, <1>6, OthersKept
<1> QED BY <1>3, <1>4, <1>7 DEF ImageInv

\* A clone shares its factory with an instance that is not being prepared, and is not
\* being prepared itself.
LEMMA CloneKeeps ==
  ASSUME ImageInv, NEW i \in Insts, NEW j \in Insts, CloneWithName(i, j)
  PROVE  ImageInv'
<1>1. /\ state[i] \in {"Committed", "Stopped"} /\ state[j] = "Absent"
      /\ state' = [state EXCEPT ![j] = state[i]]
      /\ builderFactory' = [builderFactory EXCEPT ![j] = builderFactory[i]]
      /\ imageName' = [imageName EXCEPT ![j] = imageName[i]]
      /\ imageCache' = [imageCache EXCEPT ![j] = imageCache[i]]
      /\ gitFailed' = [gitFailed EXCEPT ![j] = gitFailed[i]]
      /\ build[i].at = "idle"
      /\ UNCHANGED <<factories, dirs, build, jobs, registry>>
  BY DEF CloneWithName, Clone, Free
<1>2. /\ state'[j] = state[i] /\ builderFactory'[j] = builderFactory[i]
      /\ imageName'[j] = imageName[i] /\ imageCache'[j] = imageCache[i]
      /\ gitFailed'[j] = gitFailed[i]
      /\ \A k \in Insts \ {j} :
           /\ state'[k] = state[k] /\ builderFactory'[k] = builderFactory[k]
           /\ imageName'[k] = imageName[k] /\ imageCache'[k] = imageCache[k]
           /\ gitFailed'[k] = gitFailed[k]
  BY <1>1 DEF ImageInv, ImageTypeOK
<1>3. ImageTypeOK'
  BY <1>1 DEF ImageInv, ImageTypeOK
<1>4. RegistryInv'
  BY <1>1, <1>2 DEF ImageInv, RegistryInv
<1>5. FactoryInv'
  BY <1>1, <1>2 DEF ImageInv, FactoryInv
<1>6. \A k \in Insts \ {j} : Factory(k)' = Factory(k)
  BY <1>1, <1>2 DEF Factory
<1>7. build'[j].at = "idle"
  BY <1>1 DEF ImageInv, BuildInv, Building
<1>8. Accepted(j)' /\ Sourced(j)'
  <2>1. Factory(j)' = Factory(i)
    BY <1>1, <1>2 DEF Factory
  <2>2. Accepted(i) /\ Sourced(i)
    BY DEF ImageInv, CommitInv, SourceInv
  <2> QED BY <1>1, <1>2, <1>7, <2>1, <2>2 DEF Accepted, Changed, Sourced
<1>9. BuildInv' /\ CommitInv' /\ SourceInv'
  BY <1>1, <1>2, <1>6, <1>7, <1>8, OthersKept
<1> QED BY <1>3, <1>4, <1>5, <1>9 DEF ImageInv

-----------------------------------------------------------------------------
(* The theorems *)

LEMMA ImageInit == Init => ImageInv
<1> SUFFICES ASSUME Init PROVE ImageInv
  OBVIOUS
<1> USE DEF Init
<1>1. factories \in Seq(FactorySet) /\ dirs \in Seq(Dirs) /\ jobs \in Seq(Jobs)
  BY EmptySeq
<1>2. Len(factories) = 0 /\ DOMAIN factories = {} /\ DOMAIN jobs = {} /\ DOMAIN registry = {}
  BY EmptySeq, LenProperties
<1>3. ImageTypeOK
  BY <1>1, IdleFacts DEF ImageTypeOK
<1>4. FactoryInv /\ RegistryInv
  BY <1>2 DEF FactoryInv, RegistryInv
<1>5. BuildInv /\ CommitInv /\ SourceInv
  BY IdleFacts DEF BuildInv, CommitInv, Accepted, SourceInv, Sourced
<1> QED BY <1>3, <1>4, <1>5 DEF ImageInv

\* Every operation, every step of a build and every step of a job keeps the invariant.
LEMMA ImageStep == ImageInv /\ [Next]_vars => ImageInv'
<1> SUFFICES ASSUME ImageInv, [Next]_vars PROVE ImageInv'
  OBVIOUS
<1>1. ASSUME NEW i \in Insts, NEW line \in Lines, AddLine(i, line) PROVE ImageInv'
  BY <1>1, InstructKeeps DEF AddLine, Instructions
<1>2. ASSUME NEW i \in Insts, NEW file \in Files, AddFile(i, file) PROVE ImageInv'
  BY <1>2, InstructKeeps DEF AddFile, Instructions
<1>3. ASSUME UNCHANGED vars PROVE ImageInv'
  <2>1. UNCHANGED <<state, builderFactory, imageName, imageCache, factories, dirs, build, jobs, registry, gitFailed>>
    BY <1>3 DEF vars
  <2>2. ImageTypeOK' /\ FactoryInv' /\ RegistryInv'
    BY <2>1 DEF ImageInv, ImageTypeOK, FactoryInv, RegistryInv
  <2>3. \A i \in Insts : Factory(i)' = Factory(i)
    BY <2>1 DEF Factory
  <2>4. BuildInv'
    BY <2>1, <2>3, BuildingKept DEF ImageInv, BuildInv
  <2>5. CommitInv'
    BY <2>1, <2>3, AcceptedKept DEF ImageInv, CommitInv
  <2>6. SourceInv'
    BY <2>1, <2>3, SourcedKept DEF ImageInv, SourceInv
  <2> QED BY <2>2, <2>4, <2>5, <2>6 DEF ImageInv
<1> QED
  BY <1>1, <1>2, <1>3, SetImageKeeps, SetGitRepoKeeps, CommitKeeps, PushBuilderImageKeeps,
     CreateJobKeeps, WaitKeeps, ReturnKeeps, BuildErrorKeeps, StartAndStopKeeps, CloneKeeps,
     PodKeeps DEF Next

\* The invariant holds in every behaviour.
LEMMA ImageInvHolds == Spec => []ImageInv
BY ImageInit, ImageStep, PTL DEF Spec

\* An instance that Commit has accepted runs an image that was pushed and that was made
\* from the base image and the instructions of its own factory: jobs that outlive their
\* builder, retries and copies of the cache can replace it only by one that fits as well.
\* What makes it true is that an image is named after what it is made of, and that a
\* factory with a build under way belongs to one instance, which is waiting.  Without
\* instructions it runs the image it was given, which was pushed if it is that of a git
\* repository and SetGitRepo has returned no error.
THEOREM CommittedImagesFit == Spec => []ImageMatches
<1>1. ImageInv => ImageMatches
  <2> SUFFICES ASSUME ImageInv, NEW i \in Insts, state[i] \in {"Committed", "Stopped"}
               PROVE  IF Changed(Factory(i))
                      THEN /\ imageName[i] \in DOMAIN registry
                           /\ registry[imageName[i]].from = Factory(i).from
                           /\ registry[imageName[i]].context.instructions = Factory(i).instructions
                      ELSE /\ imageName[i] = Factory(i).from
                           /\ imageName[i] \in Images \cup DOMAIN registry \/ gitFailed[i]
    BY DEF ImageMatches
  <2>1. Accepted(i) /\ Sourced(i)
    BY DEF ImageInv, CommitInv, SourceInv
  <2>2. CASE Changed(Factory(i))
    <3>1. imageName[i] \in DOMAIN registry /\ Fits(imageName[i], Factory(i))
      BY <2>1, <2>2 DEF Accepted
    <3>2. Honest(imageName[i], registry[imageName[i]])
      BY <3>1 DEF ImageInv, RegistryInv
    <3> QED BY <2>2, <3>1, <3>2 DEF Honest, Fits
  <2>3. CASE ~Changed(Factory(i))
    <3>1. imageName[i] = Factory(i).from
      BY <2>1, <2>3 DEF Accepted
    <3>2. build[i].at = "idle"
      BY DEF ImageInv, BuildInv, Building
    <3> QED BY <2>1, <2>3, <3>1, <3>2 DEF Sourced
  <2> QED BY <2>2, <2>3
<1> QED BY <1>1, ImageInvHolds, PTL

\* A factory that clones share is never changed, although it is not copied: an instruction
\* is added in state 'Preparing' only, and nobody clones an instance in that state.
THEOREM SharedFactoriesAreNotChanged == Spec => SharedFactoriesAreFrozen
<1> DEFINE Frozen ==
      \A f \in DOMAIN factories :
        factories'[f] # factories[f] => Cardinality({i \in Insts : builderFactory[i] = f}) = 1
<1>1. ASSUME ImageInv, Next PROVE Frozen
  <2>1. ASSUME NEW i \in Insts, NEW instruction \in Instructions, Instruct(i, instruction),
               UNCHANGED dirs \/ \E file \in Files : copyFileToBuildDir(file)
        PROVE  Frozen
    <3>1. \A f \in DOMAIN factories : f # builderFactory[i] => factories'[f] = factories[f]
      BY <1>1, <2>1, InstructKeeps
    <3>2. {j \in Insts : builderFactory[j] = builderFactory[i]} = {i}
      BY <1>1, <2>1 DEF Instruct, ImageInv, FactoryInv
    <3>3. Cardinality({i}) = 1
      BY FS_Singleton
    <3> QED BY <3>1, <3>2, <3>3
  <2>2. ASSUME NEW i \in Insts, NEW image \in Images \cup GitNames, NEW args \in Args,
               NewBuilderFactory(i, image, args)
        PROVE  Frozen
    BY <1>1, <2>2, NewFactory
  <2>3. CASE UNCHANGED factories
    BY <2>3
  <2>4. ASSUME NEW i \in Insts, NEW args \in Args,
               \/ \E image \in Images : SetImage(i, image, args)
               \/ \E repo \in Repos : SetGitRepo(i, repo, args)
        PROVE  Frozen
    BY <2>2, <2>4 DEF SetImage, SetGitRepo, GitNames
  <2>5. ASSUME NEW i \in Insts,
               \/ \E line \in Lines : AddLine(i, line)
               \/ \E file \in Files : AddFile(i, file)
        PROVE  Frozen
    BY <2>1, <2>5 DEF AddLine, AddFile, Instructions
  <2>6. ASSUME NEW i \in Insts,
               \/ CommitUnchanged(i) \/ CommitCached(i) \/ PushBuilderImage(i)
               \/ CreateJob(i) \/ waitForJobCompletion(i) \/ Return(i) \/ BuildError(i)
               \/ StartAndStop(i) \/ \E j \in Insts : CloneWithName(i, j)
        PROVE  UNCHANGED factories
    BY <2>6 DEF CommitUnchanged, CommitCached, PushBuilderImage, CreateJob, waitForJobCompletion,
                Return, BuildError, StartAndStop, CloneWithName, Clone
  <2>7. ASSUME NEW k \in DOMAIN jobs, PodSucceeds(k) \/ PodFails(k) PROVE UNCHANGED factories
    BY <2>7 DEF PodSucceeds, PodFails
  <2> QED BY <1>1, <2>3, <2>4, <2>5, <2>6, <2>7 DEF Next
<1>2. ImageInv /\ [Next]_vars =>
        [\A f \in DOMAIN factories :
           factories'[f] # factories[f] => Cardinality({i \in Insts : builderFactory[i] = f}) = 1]_vars
  BY <1>1
<1> QED BY <1>2, ImageInvHolds, PTL DEF Spec, SharedFactoriesAreFrozen
=============================================================================
