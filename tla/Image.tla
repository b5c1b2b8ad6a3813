------------------------------- MODULE Image -------------------------------
(***************************************************************************)
(* The image of an instance: the builder factory that collects Dockerfile  *)
(* instructions (pkg/container), Commit with its hash and its cache        *)
(* (pkg/instance/build.go), and the Kaniko job that builds the image in    *)
(* the cluster and pushes it to a registry (pkg/builder/kaniko).           *)
(*                                                                         *)
(* Every instance is used by a goroutine of its own.  Its builds run in    *)
(* the cluster beside those of the others, and may go on after the builder *)
(* has stopped to wait for them.                                           *)
(***************************************************************************)
EXTENDS Naturals, Sequences, FiniteSets, SequencesExt

CONSTANTS
  Insts,         \* instances
  Images,        \* images of other registries
  Repos,         \* git repositories, as BuildContext normalises their addresses
  Lines,         \* lines of a Dockerfile: commands, users, variables
  Files,         \* files on the machine of the test; as a line, their ADD instruction
  Args,          \* lists of build arguments
  BackoffLimit,  \* DefaultBackoffLimit of a job
  MaxInstr,      \* bound: instructions of a factory
  MaxDirs,       \* bound: temporary directories
  MaxJobs,       \* bound: jobs
  None           \* no factory, no job, no file

ASSUME ImageBounds ==
  /\ BackoffLimit \in Nat
  /\ MaxInstr \in Nat /\ MaxDirs \in Nat /\ MaxJobs \in Nat
  /\ None \notin Images \cup Repos \cup Lines \cup Files \cup Args
  /\ Lines \cap Files = {}

VARIABLES
  state,           \* state of an instance; "Absent" before it is made
  builderFactory,  \* index of its factory, which clones share
  imageName,       \* image its pods run
  imageCache,      \* hashes of the images it has built, which are named after them
  factories,       \* builder factories, in the order they were made
  dirs,            \* temporary directories: their files and their Dockerfile
  build,           \* the build an instance waits for
  jobs,            \* Kaniko jobs in the cluster
  registry,        \* what was pushed, by name
  gitFailed        \* history: its SetGitRepo has returned an error

vars == <<state, builderFactory, imageName, imageCache, factories, dirs, build, jobs, registry,
          gitFailed>>

Idle == [at |-> "idle", image |-> None, job |-> 0, seen |-> None]

\* instance.New
Init ==
  /\ state \in [Insts -> {"Absent", "None"}]
  /\ builderFactory = [i \in Insts |-> 0]
  /\ imageName = [i \in Insts |-> None]
  /\ imageCache = [i \in Insts |-> {}]
  /\ factories = <<>> /\ dirs = <<>>
  /\ build = [i \in Insts |-> Idle]
  /\ jobs = <<>> /\ registry = <<>>
  /\ gitFailed = [i \in Insts |-> FALSE]

-----------------------------------------------------------------------------
\* Names, contents and hashes

\* DefaultImageName: named after the build context.
DefaultImageName(repo) == <<"git", repo>>

\* getImageRegistry: named after the hash.
getImageRegistry(hash) == <<"built", hash>>

Added(instructions) == ToSet(instructions) \cap Files

Factory(i) == factories[builderFactory[i]]

Changed(f) == f.instructions # <<>>

\* Mutant: only the base image is hashed.
HashOfBase(f) == [from |-> f.from, instructions |-> <<>>, context |-> dirs[f.dir]]

\* GenerateImageHash: the instructions and all files of the build context, the
\* Dockerfile of an earlier attempt among them.  Build arguments have no part in it.
GenerateImageHash(f) ==
  [from |-> f.from, instructions |-> f.instructions, context |-> dirs[f.dir]]

-----------------------------------------------------------------------------
\* Setters

Free(i) == build[i].at = "idle"

\* getBuildDir: buildDir is never set, so that every call makes a directory.
getBuildDir(files) ==
  /\ Len(dirs) < MaxDirs
  /\ dirs' = Append(dirs, [files |-> files, dockerfile |-> None])

NewBuilderFactory(i, image, args) ==
  /\ getBuildDir({})
  /\ factories' = Append(factories,
       [from |-> image, instructions |-> <<>>, args |-> args, dir |-> Len(dirs')])
  /\ builderFactory' = [builderFactory EXCEPT ![i] = Len(factories')]
  /\ state' = [state EXCEPT ![i] = "Preparing"]

SetImage(i, image, args) ==
  /\ Free(i) /\ state[i] \in {"None", "Preparing", "Stopped"}
  /\ NewBuilderFactory(i, image, args)
  /\ UNCHANGED <<imageName, imageCache, build, jobs, registry, gitFailed>>

\* Started builds and jobs, within the bound.
MayBuild == Len(jobs) + Cardinality({i \in Insts : build[i].at = "create"}) < MaxJobs

\* The call of the builder: the caller waits.
Build(i, image) ==
  /\ MayBuild
  /\ build' = [build EXCEPT ![i] = [at |-> "create", image |-> image, job |-> 0, seen |-> None]]

BuildImageFromGitRepo(i, repo) == Build(i, DefaultImageName(repo))

\* The instance is 'Preparing' before the build has begun.
SetGitRepo(i, repo, args) ==
  /\ Free(i) /\ state[i] = "None"
  /\ NewBuilderFactory(i, DefaultImageName(repo), args)
  /\ imageName' = [imageName EXCEPT ![i] = DefaultImageName(repo)]
  /\ BuildImageFromGitRepo(i, repo)
  /\ UNCHANGED <<imageCache, jobs, registry, gitFailed>>

Instruct(i, instruction) ==
  /\ Free(i) /\ state[i] = "Preparing"
  /\ Len(Factory(i).instructions) < MaxInstr
  /\ factories' = [factories EXCEPT ![builderFactory[i]].instructions = Append(@, instruction)]
  /\ UNCHANGED <<state, builderFactory, imageName, imageCache, build, jobs, registry, gitFailed>>

\* ExecuteCommand, SetUser and SetEnvironmentVariable add a RUN, USER or ENV line.
AddLine(i, line) == Instruct(i, line) /\ UNCHANGED dirs

\* In other states variables and files go to the pod, not to the image: see Instance.
copyFileToBuildDir(file) == getBuildDir({file})
AddFile(i, file) == copyFileToBuildDir(file) /\ Instruct(i, file)

-----------------------------------------------------------------------------
\* Commit

checkImageHashInCache(i, hash) == hash \in imageCache[i]

Committed(i, name) ==
  /\ imageName' = [imageName EXCEPT ![i] = name]
  /\ state' = [state EXCEPT ![i] = "Committed"]

CommitUnchanged(i) ==
  /\ Free(i) /\ state[i] = "Preparing" /\ ~Changed(Factory(i))
  /\ Committed(i, Factory(i).from)
  /\ UNCHANGED <<builderFactory, imageCache, factories, dirs, build, jobs, registry, gitFailed>>

CommitCached(i) ==
  /\ Free(i) /\ state[i] = "Preparing" /\ Changed(Factory(i))
  /\ checkImageHashInCache(i, GenerateImageHash(Factory(i)))
  /\ Committed(i, getImageRegistry(GenerateImageHash(Factory(i))))
  /\ UNCHANGED <<builderFactory, imageCache, factories, dirs, build, jobs, registry, gitFailed>>

\* PushBuilderImage writes the Dockerfile and calls the builder.
PushBuilderImage(i) ==
  /\ Free(i) /\ state[i] = "Preparing" /\ Changed(Factory(i))
  /\ ~checkImageHashInCache(i, GenerateImageHash(Factory(i)))
  /\ dirs' = [dirs EXCEPT ![Factory(i).dir].dockerfile = Factory(i).instructions]
  /\ Build(i, getImageRegistry(GenerateImageHash(Factory(i))))
  /\ UNCHANGED <<state, builderFactory, imageName, imageCache, factories, jobs, registry, gitFailed>>

-----------------------------------------------------------------------------
\* Kaniko.Build

\* The archive of a build directory, with which later changes of it do not interfere.
createTarGz(dir) == [instructions |-> dirs[dir].dockerfile, files |-> dirs[dir].files]

IsGit(image) == image[1] = "git"

\* mountDir: the context of a job is an archive, or else a repository.
Context(i) ==
  IF IsGit(build[i].image) THEN [instructions |-> <<>>, files |-> {}]
  ELSE createTarGz(Factory(i).dir)

\* prepareArgs
Content(i) ==
  [from |-> IF IsGit(build[i].image) THEN None ELSE Factory(i).from,
   context |-> Context(i), args |-> Factory(i).args]

\* prepareJob, and the creation of the job.
CreateJob(i) ==
  /\ build[i].at = "create"
  /\ jobs' = Append(jobs, [destination |-> build[i].image, content |-> Content(i),
                           failed |-> 0, succeeded |-> 0])
  /\ build' = [build EXCEPT ![i] = [@ EXCEPT !.at = "wait", !.job = Len(jobs')]]
  /\ UNCHANGED <<state, builderFactory, imageName, imageCache, factories, dirs, registry, gitFailed>>

JobOf(i) == jobs[build[i].job]

\* Mutant: the watch ends at a success only.
SucceededOnly(i) ==
  /\ build[i].at = "wait" /\ JobOf(i).succeeded > 0
  /\ build' = [build EXCEPT ![i] = [@ EXCEPT !.at = "finish", !.seen = JobOf(i)]]
  /\ UNCHANGED <<state, builderFactory, imageName, imageCache, factories, dirs, jobs, registry, gitFailed>>

\* The watch ends at the first pod that succeeded or failed.
waitForJobCompletion(i) ==
  /\ build[i].at = "wait"
  /\ JobOf(i).succeeded > 0 \/ JobOf(i).failed > 0
  /\ build' = [build EXCEPT ![i] = [@ EXCEPT !.at = "finish", !.seen = JobOf(i)]]
  /\ UNCHANGED <<state, builderFactory, imageName, imageCache, factories, dirs, jobs, registry, gitFailed>>

updateImageCacheWithHash(i, hash) ==
  imageCache' = [imageCache EXCEPT ![i] = @ \cup {hash}]

\* SetGitRepo returns an error.  What it has set, the image and the state, stays.
GitFails(i, error) ==
  gitFailed' = [gitFailed EXCEPT ![i] = @ \/ (IsGit(build[i].image) /\ error)]

\* Build returns to Commit, which updates the cache, or to SetGitRepo.
Return(i) ==
  /\ build[i].at = "finish"
  /\ build' = [build EXCEPT ![i] = Idle]
  /\ IF IsGit(build[i].image) \/ build[i].seen.succeeded = 0
     THEN UNCHANGED <<state, imageName, imageCache>>
     ELSE /\ updateImageCacheWithHash(i, build[i].image[2])
          /\ Committed(i, build[i].image)
  /\ GitFails(i, build[i].seen.succeeded = 0)
  /\ UNCHANGED <<builderFactory, factories, dirs, jobs, registry>>

\* Anything else that ends a build: the upload, the creation, the watch, the list of
\* pods or the logs fail, or the context is cancelled.
BuildError(i) ==
  /\ build[i].at # "idle"
  /\ build' = [build EXCEPT ![i] = Idle]
  /\ GitFails(i, TRUE)
  /\ UNCHANGED <<state, builderFactory, imageName, imageCache, factories, dirs, jobs, registry>>

-----------------------------------------------------------------------------
\* The cluster

Active(k) == jobs[k].succeeded = 0 /\ jobs[k].failed <= BackoffLimit

Buildable(c) ==
  /\ c.from \in Images \cup {None} \cup DOMAIN registry
  /\ Added(c.context.instructions) \subseteq c.context.files

Push(k) ==
  registry' = [n \in DOMAIN registry \cup {jobs[k].destination} |->
                 IF n = jobs[k].destination THEN jobs[k].content ELSE registry[n]]

PodSucceeds(k) ==
  /\ Active(k) /\ Buildable(jobs[k].content)
  /\ Push(k)
  /\ jobs' = [jobs EXCEPT ![k].succeeded = 1]
  /\ UNCHANGED <<state, builderFactory, imageName, imageCache, factories, dirs, build, gitFailed>>

\* A pod that fails may have pushed its image before.
PodFails(k) ==
  /\ Active(k)
  /\ UNCHANGED registry \/ (Buildable(jobs[k].content) /\ Push(k))
  /\ jobs' = [jobs EXCEPT ![k].failed = @ + 1]
  /\ UNCHANGED <<state, builderFactory, imageName, imageCache, factories, dirs, build, gitFailed>>

-----------------------------------------------------------------------------
\* Instances

\* Start and Stop, as far as the image goes: an instance that is 'Stopped' may be
\* given another image.
StartAndStop(i) ==
  /\ Free(i) /\ state[i] = "Committed"
  /\ state' = [state EXCEPT ![i] = "Stopped"]
  /\ UNCHANGED <<builderFactory, imageName, imageCache, factories, dirs, build, jobs, registry, gitFailed>>

Clone(i, j) ==
  /\ state[j] = "Absent"
  /\ state' = [state EXCEPT ![j] = state[i]]
  /\ builderFactory' = [builderFactory EXCEPT ![j] = builderFactory[i]]
  /\ imageName' = [imageName EXCEPT ![j] = imageName[i]]
  /\ imageCache' = [imageCache EXCEPT ![j] = imageCache[i]]
  /\ gitFailed' = [gitFailed EXCEPT ![j] = gitFailed[i]]
  /\ UNCHANGED <<factories, dirs, build, jobs, registry>>

\* Mutant: an instance can be cloned while it is being prepared.
CloneEarly(i, j) ==
  /\ Free(i) /\ state[i] \in {"Preparing", "Committed", "Stopped"}
  /\ Clone(i, j)

\* A clone has a copy of the cache and shares the factory.
CloneWithName(i, j) ==
  /\ Free(i) /\ state[i] \in {"Committed", "Stopped"}
  /\ Clone(i, j)

Next ==
  \/ \E i \in Insts, args \in Args :
       \/ \E image \in Images : SetImage(i, image, args)
       \/ \E repo \in Repos : SetGitRepo(i, repo, args)
  \/ \E i \in Insts :
       \/ \E line \in Lines : AddLine(i, line)
       \/ \E file \in Files : AddFile(i, file)
       \/ CommitUnchanged(i) \/ CommitCached(i) \/ PushBuilderImage(i)
       \/ CreateJob(i) \/ waitForJobCompletion(i) \/ Return(i) \/ BuildError(i)
       \/ StartAndStop(i)
       \/ \E j \in Insts : CloneWithName(i, j)
  \/ \E k \in DOMAIN jobs : PodSucceeds(k) \/ PodFails(k)

\* A goroutine that builds goes on, and a pod of an active job ends.
Fairness ==
  /\ \A i \in Insts : WF_vars(CreateJob(i) \/ waitForJobCompletion(i) \/ Return(i))
  /\ \A k \in 1..MaxJobs : WF_vars(k \in DOMAIN jobs /\ (PodSucceeds(k) \/ PodFails(k)))

Spec == Init /\ [][Next]_vars /\ Fairness

-----------------------------------------------------------------------------

\* An instance that Commit has accepted runs an image that was pushed and that was
\* made from the instructions of its own factory: wherever the hash, the cache, the
\* copy of it in a clone, and jobs that outlive their builder are concerned.  Build
\* arguments are left out, as GenerateImageHash leaves them out.  Without instructions it
\* runs the image it was given.  One of a git repository was pushed as well, unless
\* SetGitRepo has returned an error: the instance is 'Preparing' all the same, and Commit
\* does not ask.  (build.go: "SetGitRepo builds the image from the given git repo, pushes
\* it to the registry under the given name and sets the image of the instance".)
ImageMatches ==
  \A i \in Insts :
    state[i] \in {"Committed", "Stopped"} =>
      IF Changed(Factory(i))
      THEN /\ imageName[i] \in DOMAIN registry
           /\ registry[imageName[i]].from = Factory(i).from
           /\ registry[imageName[i]].context.instructions = Factory(i).instructions
      ELSE /\ imageName[i] = Factory(i).from
           /\ imageName[i] \in Images \cup DOMAIN registry \/ gitFailed[i]

\* build.clone shares the factory ("This does not create a deep copy"): instructions
\* are nevertheless only ever added to a factory that one instance has.
SharedFactoriesAreFrozen ==
  [][\A f \in DOMAIN factories :
       factories'[f] # factories[f] => Cardinality({i \in Insts : builderFactory[i] = f}) = 1]_vars

\* Commit and SetGitRepo return, also when all pods of their job fail.
CommitReturns == \A i \in Insts : build[i].at # "idle" ~> build[i].at = "idle"

\* docs/knuu-new.md: "Adding file before commit will add it to the builder.
\* Therefore the image will be rebuilt with the new file."  For that, the file an ADD
\* instruction names has to be in the build context.
AddedFilesInContext ==
  \A i \in Insts :
    state[i] = "Preparing" =>
      Added(Factory(i).instructions) \subseteq dirs[Factory(i).dir].files
=============================================================================
