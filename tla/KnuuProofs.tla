----------------------------- MODULE KnuuProofs -----------------------------
(***************************************************************************)
(* Proofs about module Knuu, for any number of runs and of failing calls.  *)
(***************************************************************************)
EXTENDS Knuu, TLAPS

\* The steps of New once it has started the timeout handler.
Guarded == {"account", "clusterRole", "clusterRoleBinding", "deployment", "up"}

KnuuTypeOK ==
  /\ pc \in {"namespace", "handler", "exited"} \cup Guarded
  /\ ns \in {"absent", "active", "terminating"}
  /\ objs \subseteq Handlers \cup {"traefik-account", "traefik", "work"}
  /\ clusterObjs \subseteq {"ClusterRole", "ClusterRoleBinding"}
  /\ script \in [Handlers -> {"off", "sleep", "delete", "namespace"}]

\* A handler whose pod runs is one of the objects of the namespace, and a namespace
\* that is gone has neither.
PodInv ==
  /\ \A h \in Handlers : script[h] # "off" => h \in objs
  /\ ns = "absent" => objs = {}

SomeHandler == \E h \in Handlers : script[h] # "off"

\* A program that has come past the timeout handler works in a namespace that is
\* guarded: only the program itself can make the namespace active again.
GuardInv == pc \in Guarded /\ ns = "active" => SomeHandler

KnuuInv == KnuuTypeOK /\ PodInv /\ GuardInv /\ WorkIsGuarded

-----------------------------------------------------------------------------

\* At first there is neither a namespace nor a handler.
LEMMA KnuuInit == Init => KnuuInv
BY DEF Init, KnuuInv, KnuuTypeOK, PodInv, GuardInv, Guarded, WorkIsGuarded, Handlers

\* What the cluster looks like after a step of New, and the step that follows it.
LEMMA NewStepInv ==
  ASSUME KnuuInv, NewStep
  PROVE  /\ ns' \in {"absent", "active", "terminating"}
         /\ objs' \subseteq Handlers \cup {"traefik-account", "traefik", "work"}
         /\ clusterObjs \subseteq clusterObjs'
         /\ clusterObjs' \subseteq {"ClusterRole", "ClusterRoleBinding"}
         /\ script' \in [Handlers -> {"off", "sleep", "delete", "namespace"}]
         /\ PodInv'
         /\ WorkIsGuarded'
         /\ ns = "active" => ns' = "active"
         /\ pc = "handler" => SomeHandler'
         /\ pc # "handler" => UNCHANGED script
         /\ pc # "namespace" => UNCHANGED ns
<1> USE DEF KnuuInv, KnuuTypeOK, PodInv, GuardInv, Guarded, WorkIsGuarded, SomeHandler
<1>1. CASE CreateNamespace
  BY <1>1 DEF CreateNamespace
<1>2. CASE HandleTimeout
  BY <1>2 DEF HandleTimeout, StartHandler, Create, Handlers
<1>3. CASE CreateServiceAccount
  BY <1>3 DEF CreateServiceAccount, Create
<1>4. CASE CreateClusterRole
  BY <1>4 DEF CreateClusterRole, CreateClusterScoped
<1>5. CASE CreateClusterRoleBinding
  BY <1>5 DEF CreateClusterRoleBinding, CreateClusterScoped
<1>6. CASE Deploy
  BY <1>6 DEF Deploy, Create
<1> QED BY <1>1, <1>2, <1>3, <1>4, <1>5, <1>6 DEF NewStep

\* The program: New, signals, CleanUp, crashes and reruns.
LEMMA ProgramInv == KnuuInv /\ Program => KnuuInv'
<1> SUFFICES ASSUME KnuuInv, Program PROVE KnuuInv'
  OBVIOUS
<1> USE DEF KnuuInv
<1>1. CASE NewOk
  <2>1. /\ NewStep /\ pc' = Following
        /\ pc \notin {"up", "exited"}
    BY <1>1 DEF NewOk, NewStep, CreateNamespace, HandleTimeout, CreateServiceAccount,
       CreateClusterRole, CreateClusterRoleBinding, Deploy
  <2>2. KnuuTypeOK'
    BY <2>1, NewStepInv DEF KnuuTypeOK, Following, Guarded
  <2>3. GuardInv'
    BY <2>1, NewStepInv DEF KnuuTypeOK, Following, Guarded, GuardInv, SomeHandler
  <2> QED BY <2>1, <2>2, <2>3, NewStepInv
<1>2. CASE NewRefused
  BY <1>2 DEF NewRefused, Exit, cluster, KnuuTypeOK, PodInv, GuardInv, Guarded, WorkIsGuarded, SomeHandler
<1>3. CASE NewFault
  <2>1. pc' = "exited"
    BY <1>3 DEF NewFault, Exit
  <2>2. CASE UNCHANGED cluster
    BY <2>1, <2>2 DEF cluster, KnuuTypeOK, PodInv, GuardInv, Guarded, WorkIsGuarded, SomeHandler
  <2>3. CASE NewStep
    <3>1. KnuuTypeOK'
      BY <2>1, <2>3, NewStepInv DEF KnuuTypeOK, Guarded
    <3>2. GuardInv'
      BY <2>1, <2>3, NewStepInv DEF KnuuTypeOK, GuardInv, Guarded
    <3> QED BY <3>1, <3>2, <2>3, NewStepInv
  <2>4. CASE HalfStartHandler("timeout-handler")
    BY <2>1, <2>4 DEF HalfStartHandler, Create, KnuuTypeOK, PodInv, GuardInv, Guarded,
       WorkIsGuarded, SomeHandler, Handlers
  <2> QED BY <1>3, <2>2, <2>3, <2>4 DEF NewFault
<1>4. CASE HandleStopSignal \/ Signal
  BY <1>4 DEF HandleStopSignal, Signal, cluster, KnuuTypeOK, PodInv, GuardInv, Guarded,
     WorkIsGuarded, SomeHandler
<1>5. CASE Work
  BY <1>5 DEF Work, Create, program, KnuuTypeOK, PodInv, GuardInv, Guarded, WorkIsGuarded, SomeHandler, Handlers
<1>6. CASE CleanUp
  BY <1>6 DEF CleanUp, DeleteNamespace, program, KnuuTypeOK, PodInv, GuardInv, Guarded,
     WorkIsGuarded, SomeHandler
<1>7. CASE SignalHandled \/ SignalRefused \/ SignalFault
  <2>1. pc' = "exited"
    BY <1>7 DEF SignalHandled, SignalRefused, SignalFault, Exit
  <2>2. CASE UNCHANGED cluster
    BY <2>1, <2>2 DEF cluster, KnuuTypeOK, PodInv, GuardInv, Guarded, WorkIsGuarded, SomeHandler
  <2>3. CASE StartHandler("timeout-handler-stop") \/ HalfStartHandler("timeout-handler-stop")
    BY <2>1, <2>3 DEF StartHandler, HalfStartHandler, Create, KnuuTypeOK, PodInv, GuardInv,
       Guarded, WorkIsGuarded, SomeHandler, Handlers
  <2> QED BY <1>7, <2>2, <2>3 DEF SignalHandled, SignalRefused, SignalFault
<1>8. CASE Crash \/ Rerun
  BY <1>8 DEF Crash, Rerun, Exit, cluster, KnuuTypeOK, PodInv, GuardInv, Guarded,
     WorkIsGuarded, SomeHandler
<1> QED BY <1>1, <1>2, <1>3, <1>4, <1>5, <1>6, <1>7, <1>8 DEF Program, New

\* A command of a handler's script, done or failed.
LEMMA ScriptInv ==
  ASSUME KnuuInv, NEW h \in Handlers, Pod(h) \/ ScriptFault(h)
  PROVE  KnuuInv'
<1> USE DEF KnuuInv
<1>1. CASE Sleep(h) \/ ScriptFault(h)
  <2>1. PICK c \in {"delete", "sleep"} : script' = [script EXCEPT ![h] = c]
    BY <1>1 DEF Sleep, ScriptFault, Again
  <2>2. script[h] # "off" /\ UNCHANGED <<pc, ns, objs, clusterObjs>>
    BY <1>1 DEF Sleep, ScriptFault, program
  <2>3. script'[h] # "off" /\ \A g \in Handlers : script'[g] # "off" => script[g] # "off"
    BY <2>1, <2>2 DEF KnuuTypeOK
  <2>4. KnuuTypeOK'
    BY <2>1, <2>2 DEF KnuuTypeOK
  <2> QED BY <2>2, <2>3, <2>4 DEF PodInv, GuardInv, WorkIsGuarded, SomeHandler
<1>2. CASE DeleteLabelled(h)
  <2>1. Handlers \cap objs' = Handlers \cap objs /\ h \in objs' /\ script'[h] = "namespace"
    BY <1>2 DEF DeleteLabelled, Excluded, KnuuTypeOK, PodInv
  <2> QED BY <1>2, <2>1 DEF DeleteLabelled, Excluded, program, KnuuTypeOK, PodInv, GuardInv,
     Guarded, WorkIsGuarded, SomeHandler
<1>3. CASE DeleteOwnNamespace(h)
  BY <1>3 DEF DeleteOwnNamespace, DeleteNamespace, program, KnuuTypeOK, PodInv, GuardInv,
     Guarded, WorkIsGuarded, SomeHandler
<1> QED BY <1>1, <1>2, <1>3 DEF Pod

\* Every step of New, of the test, of a handler's script and of the cluster keeps the
\* invariant, and so does a crash.
LEMMA KnuuStep == KnuuInv /\ [Next]_vars => KnuuInv'
<1> SUFFICES ASSUME KnuuInv, [Next]_vars PROVE KnuuInv'
  OBVIOUS
<1>1. CASE NamespaceGone
  BY <1>1 DEF NamespaceGone, program, KnuuInv, KnuuTypeOK, PodInv, GuardInv, Guarded,
     WorkIsGuarded, SomeHandler
<1>2. CASE UNCHANGED vars
  BY <1>2 DEF vars, program, cluster, KnuuInv, KnuuTypeOK, PodInv, GuardInv, Guarded,
     WorkIsGuarded, SomeHandler
<1> QED BY <1>1, <1>2, ProgramInv, ScriptInv DEF Next

\* The invariant holds over any number of runs with one scope.
LEMMA KnuuInvHolds == Spec => []KnuuInv
BY KnuuInit, KnuuStep, PTL DEF Spec

\* New starts the timeout handler before anything else, and the handlers' scripts
\* spare the handlers until the namespace goes: in every reachable state, what is in an
\* active namespace is guarded by a handler that runs, whatever crashes, is signalled,
\* fails or is run again.
THEOREM NamespaceIsGuarded == Spec => []WorkIsGuarded
<1>1. KnuuInv => WorkIsGuarded
  BY DEF KnuuInv
<1> QED BY <1>1, KnuuInvHolds, PTL
=============================================================================
