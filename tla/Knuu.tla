-------------------------------- MODULE Knuu --------------------------------
(***************************************************************************)
(* One scope of knuu (pkg/knuu) and its namespace, over several runs of a  *)
(* test program with the same scope.  New creates the namespace, then a    *)
(* timeout handler in it: a pod that sleeps, deletes the labelled objects  *)
(* and at last the namespace, whatever has become of the program.  Then    *)
(* the proxy is set up (pkg/traefik).  A stop signal starts a second       *)
(* handler that hardly sleeps, and ends the program.                       *)
(*                                                                         *)
(* The program may crash at any point.  The cluster keeps running.         *)
(***************************************************************************)
EXTENDS Naturals

CONSTANTS
  ProxyEnabled,  \* Options.ProxyEnabled
  MaxRuns,       \* bound: runs of the program
  MaxFaults      \* bound: calls that fail

ASSUME KnuuAssumption == ProxyEnabled \in BOOLEAN /\ MaxRuns \in Nat /\ MaxFaults \in Nat

Handlers == {"timeout-handler", "timeout-handler-stop"}

VARIABLES
  pc,           \* where the program is: in a step of New, "up", or "exited"
  stop,         \* the goroutine of HandleStopSignal
  ns,           \* the namespace
  objs,         \* what is in the namespace
  clusterObjs,  \* cluster-scoped objects of this scope
  script,       \* script[h]: the command that handler h's pod is at
  cleaned,      \* history: CleanUp was called on this namespace
  runs, faults

program == <<pc, stop, runs>>
cluster == <<ns, objs, clusterObjs, script, cleaned>>
vars == <<program, cluster, faults>>

Init ==
  /\ pc = "namespace"
  /\ stop = "off"
  /\ ns = "absent"
  /\ objs = {}
  /\ clusterObjs = {}
  /\ script = [h \in Handlers |-> "off"]
  /\ cleaned = FALSE
  /\ runs = 1
  /\ faults = 0

Fault == faults < MaxFaults /\ faults' = faults + 1

\* The program ends: New returned an error, a signal was handled, or it crashed.
Exit ==
  /\ pc' = "exited"
  /\ stop' = "off"
  /\ UNCHANGED runs

\* Object o is put into the namespace, which must not be going away.
Create(o) ==
  /\ ns = "active"
  /\ o \notin objs
  /\ objs' = objs \cup {o}

-----------------------------------------------------------------------------
(* New: what each of its steps does to the cluster *)

\* A namespace that exists, even one that is being deleted, is fine.
CreateNamespace ==
  /\ pc = "namespace"
  /\ ns' = IF ns = "absent" THEN "active" ELSE ns
  /\ cleaned' = (cleaned /\ ns # "absent")
  /\ UNCHANGED <<objs, clusterObjs, script>>

\* handleTimeout: the handler's pod is running when Start returns.
StartHandler(h) ==
  /\ Create(h)
  /\ script' = [script EXCEPT ![h] = "sleep"]
  /\ UNCHANGED <<ns, clusterObjs, cleaned>>

\* A Start that failed before it came to the replica set leaves the service
\* account, which keeps the next handler of that name from starting.
HalfStartHandler(h) == Create(h) /\ UNCHANGED <<ns, clusterObjs, script, cleaned>>

HandleTimeout == pc = "handler" /\ StartHandler("timeout-handler")

\* setupProxy and Traefik.Deploy
CreateServiceAccount ==
  /\ pc = "account"
  /\ Create("traefik-account")
  /\ UNCHANGED <<ns, clusterObjs, script, cleaned>>

CreateClusterScoped(o) ==
  /\ o \notin clusterObjs
  /\ clusterObjs' = clusterObjs \cup {o}
  /\ UNCHANGED <<ns, objs, script, cleaned>>

CreateClusterRole == pc = "clusterRole" /\ CreateClusterScoped("ClusterRole")

CreateClusterRoleBinding ==
  pc = "clusterRoleBinding" /\ CreateClusterScoped("ClusterRoleBinding")

\* The deployment and its service, and the waiting for both.
Deploy ==
  /\ pc = "deployment"
  /\ Create("traefik")
  /\ UNCHANGED <<ns, clusterObjs, script, cleaned>>

NewStep ==
  \/ CreateNamespace \/ HandleTimeout
  \/ CreateServiceAccount \/ CreateClusterRole \/ CreateClusterRoleBinding \/ Deploy

\* Mutant: the proxy is set up before the timeout handler.
ProxyFirst ==
  CASE pc = "namespace" -> IF ProxyEnabled THEN "account" ELSE "handler"
    [] pc = "account" -> "clusterRole"
    [] pc = "clusterRole" -> "clusterRoleBinding"
    [] pc = "clusterRoleBinding" -> "deployment"
    [] pc = "deployment" -> "handler"
    [] OTHER -> "up"

\* The order of the steps.
Following ==
  CASE pc = "namespace" -> "handler"
    [] pc = "handler" -> IF ProxyEnabled THEN "account" ELSE "up"
    [] pc = "account" -> "clusterRole"
    [] pc = "clusterRole" -> "clusterRoleBinding"
    [] pc = "clusterRoleBinding" -> "deployment"
    [] OTHER -> "up"

NewOk ==
  /\ NewStep
  /\ pc' = Following
  /\ UNCHANGED <<stop, runs, faults>>

\* The call a step of New makes is refused, and New returns the error.
NewRefused ==
  /\ \/ pc \in {"handler", "account", "deployment"} /\ ns # "active"
     \/ pc = "handler" /\ "timeout-handler" \in objs
     \/ pc = "account" /\ "traefik-account" \in objs
     \/ pc = "clusterRole" /\ "ClusterRole" \in clusterObjs
     \/ pc = "clusterRoleBinding" /\ "ClusterRoleBinding" \in clusterObjs
  /\ Exit
  /\ UNCHANGED <<cluster, faults>>

\* A call of New fails, with its effect or without it.
NewFault ==
  /\ pc \notin {"up", "exited"}
  /\ Fault
  /\ \/ UNCHANGED cluster
     \/ NewStep
     \/ pc = "handler" /\ HalfStartHandler("timeout-handler")
  /\ Exit

-----------------------------------------------------------------------------
(* The program once New has returned *)

HandleStopSignal ==
  /\ pc = "up"
  /\ stop = "off"
  /\ stop' = "listening"
  /\ UNCHANGED <<pc, runs, cluster, faults>>

\* The test starts something in the namespace.
Work ==
  /\ pc = "up"
  /\ Create("work")
  /\ UNCHANGED <<program, ns, clusterObjs, script, cleaned, faults>>

DeleteNamespace == ns' = "terminating" /\ UNCHANGED <<objs, clusterObjs, script>>

CleanUp ==
  /\ pc = "up"
  /\ ns = "active"
  /\ DeleteNamespace
  /\ cleaned' = TRUE
  /\ UNCHANGED <<program, faults>>

Signal ==
  /\ stop = "listening"
  /\ stop' = "handling"
  /\ UNCHANGED <<pc, runs, cluster, faults>>

\* The handler starts, or an error is logged; in both cases the program exits.
SignalHandled ==
  /\ stop = "handling"
  /\ StartHandler("timeout-handler-stop")
  /\ Exit
  /\ UNCHANGED faults

SignalRefused ==
  /\ stop = "handling"
  /\ ns # "active" \/ "timeout-handler-stop" \in objs
  /\ Exit
  /\ UNCHANGED <<cluster, faults>>

SignalFault ==
  /\ stop = "handling"
  /\ Fault
  /\ \/ UNCHANGED cluster
     \/ StartHandler("timeout-handler-stop")
     \/ HalfStartHandler("timeout-handler-stop")
  /\ Exit

\* The program returns from main, is killed or panics.
Crash ==
  /\ pc # "exited"
  /\ Exit
  /\ UNCHANGED <<cluster, faults>>

\* The program is run again with the same scope.
Rerun ==
  /\ pc = "exited"
  /\ runs < MaxRuns
  /\ runs' = runs + 1
  /\ pc' = "namespace"
  /\ UNCHANGED <<stop, cluster, faults>>

-----------------------------------------------------------------------------
(* The timeout handler's pod: "sleep && get | xargs delete && delete namespace && ..." *)

Sleep(h) ==
  /\ script[h] = "sleep"
  /\ script' = [script EXCEPT ![h] = "delete"]
  /\ UNCHANGED <<program, ns, objs, clusterObjs, cleaned, faults>>

\* Mutant: the timeout handlers are not excluded.
Unlabelled == objs \cap {"traefik-account", "traefik"}

\* What the first delete leaves: objects without the scope's label, and the
\* timeout handlers, which its jq filter excludes.
Excluded == objs \cap (Handlers \cup {"traefik-account", "traefik"})

DeleteLabelled(h) ==
  /\ script[h] = "delete"
  /\ objs' = Excluded
  /\ script' = [g \in Handlers |->
                  IF g \notin objs' THEN "off" ELSE IF g = h THEN "namespace" ELSE script[g]]
  /\ UNCHANGED <<program, ns, clusterObjs, cleaned, faults>>

\* The pod is killed together with the namespace.
DeleteOwnNamespace(h) ==
  /\ script[h] = "namespace"
  /\ ns = "active"
  /\ DeleteNamespace
  /\ UNCHANGED <<program, cleaned, faults>>

\* A command that fails ends the script; the replica set runs it again.
Again(h) == script' = [script EXCEPT ![h] = "sleep"]

ScriptFault(h) ==
  /\ script[h] \in {"delete", "namespace"}
  /\ Fault
  /\ Again(h)
  /\ UNCHANGED <<program, ns, objs, clusterObjs, cleaned>>

\* Everything in the namespace goes with it; cluster-scoped objects do not.
NamespaceGone ==
  /\ ns = "terminating"
  /\ ns' = "absent"
  /\ objs' = {}
  /\ script' = [h \in Handlers |-> "off"]
  /\ UNCHANGED <<program, clusterObjs, cleaned, faults>>

-----------------------------------------------------------------------------

New == NewOk \/ NewRefused \/ NewFault

Program ==
  \/ New \/ HandleStopSignal \/ Work \/ CleanUp
  \/ Signal \/ SignalHandled \/ SignalRefused \/ SignalFault
  \/ Crash \/ Rerun

Pod(h) == Sleep(h) \/ DeleteLabelled(h) \/ DeleteOwnNamespace(h)

Next == Program \/ (\E h \in Handlers : Pod(h) \/ ScriptFault(h)) \/ NamespaceGone

\* The cluster runs the pods and finishes deletions; the program may hang anywhere.
Fairness == (\A h \in Handlers : WF_vars(Pod(h))) /\ WF_vars(NamespaceGone)

Spec == Init /\ [][Next]_vars /\ Fairness

-----------------------------------------------------------------------------

\* Once New has started the handler, nothing of the test is in the namespace
\* without a handler that will remove it: no step of a handler, of another run
\* or of a failure takes the last one away and leaves the rest.
WorkIsGuarded ==
  ns = "active" /\ objs \ Handlers # {} => \E h \in Handlers : script[h] # "off"

\* docs/knuu-new.md: after the timeout "the resources will be automatically
\* cleaned up": once a handler runs, the namespace is deleted, even though the
\* program hangs or dies, and commands of the script fail.
TimeoutCleansUp == \A h \in Handlers : script[h] # "off" ~> ns = "absent"

\* docs/knuu-new.md says of CleanUp that it deletes the namespace, "ensuring that all
\* resources are cleaned up".  The cluster role and its binding, which Traefik.Deploy
\* names after the scope, stay when the namespace is gone.
CleanUpLeavesNothing == cleaned /\ ns = "absent" => clusterObjs = {}
=============================================================================
