-------------------------------- MODULE K8s --------------------------------
(***************************************************************************)
(* The calls knuu's Kubernetes client (pkg/k8s) makes on behalf of an      *)
(* instance, as seen by the cluster.  A call names the kind of object it   *)
(* is about and a verb, which is what the client does when that object is  *)
(* already there, or is not:                                               *)
(*                                                                         *)
(*   create    fails with AlreadyExists when the object exists             *)
(*   ensure    looks first, and creates the object only if it is missing   *)
(*   apply     creates the object or overwrites it                         *)
(*   delete    fails with NotFound when the object is missing              *)
(*   discard   looks first, and deletes the object only if it exists       *)
(*   restore   like discard, but an error while looking counts as missing  *)
(*                                                                         *)
(* Every object of an instance has the instance's (sanitized) name.  What  *)
(* the validators of the client, and those of the server, refuse before    *)
(* they look for the object depends on what is written: it is in Instance  *)
(* (Invalid).                                                              *)
(***************************************************************************)

\* The kinds of the objects that one instance owns in the namespace.
Kinds == {"ReplicaSet", "ServiceAccount", "Role", "RoleBinding",
          "PersistentVolumeClaim", "ConfigMap", "Service", "NetworkPolicy",
          "Middleware", "IngressRoute"}

\* Those deployPod creates and destroyPod deletes.
PodKinds == {"ReplicaSet", "ServiceAccount", "Role", "RoleBinding"}

\* Those deployResources creates and destroyResources deletes.
ResourceKinds == {"PersistentVolumeClaim", "ConfigMap", "Service"}

-----------------------------------------------------------------------------
(* pkg/k8s/replicaset.go, serviceaccount.go, role.go, rolebinding.go *)

CreateReplicaSet     == [verb |-> "create",  kind |-> "ReplicaSet"]
DeleteReplicaSet     == [verb |-> "discard", kind |-> "ReplicaSet"]
CreateServiceAccount == [verb |-> "create",  kind |-> "ServiceAccount"]
DeleteServiceAccount == [verb |-> "delete",  kind |-> "ServiceAccount"]
CreateRole           == [verb |-> "create",  kind |-> "Role"]
DeleteRole           == [verb |-> "delete",  kind |-> "Role"]
CreateRoleBinding    == [verb |-> "create",  kind |-> "RoleBinding"]
DeleteRoleBinding    == [verb |-> "delete",  kind |-> "RoleBinding"]

(* pkg/k8s/pvc.go (with storage.deployVolume's check), configmap.go, service.go *)

CreatePersistentVolumeClaim == [verb |-> "ensure",  kind |-> "PersistentVolumeClaim"]
DeletePersistentVolumeClaim == [verb |-> "discard", kind |-> "PersistentVolumeClaim"]
\* Mutant: an existing config map is left as it is.
EnsureConfigMap == [verb |-> "ensure", kind |-> "ConfigMap"]

CreateOrUpdateConfigMap     == [verb |-> "apply",   kind |-> "ConfigMap"]
DeleteConfigMap             == [verb |-> "delete",  kind |-> "ConfigMap"]
DeployOrPatchService        == [verb |-> "apply",   kind |-> "Service"]
DeleteService               == [verb |-> "discard", kind |-> "Service"]

(* pkg/k8s/networkpolicy.go (with network.enableIfDisabled), pkg/traefik *)

CreateNetworkPolicy == [verb |-> "create",  kind |-> "NetworkPolicy"]
DeleteNetworkPolicy == [verb |-> "delete",  kind |-> "NetworkPolicy"]
EnableIfDisabled    == [verb |-> "restore", kind |-> "NetworkPolicy"]
CreateMiddleware    == [verb |-> "create",  kind |-> "Middleware"]
CreateIngressRoute  == [verb |-> "create",  kind |-> "IngressRoute"]

-----------------------------------------------------------------------------

\* The error the API server answers, given whether the object exists.
Conflict(c, present) ==
  IF c.verb = "create" /\ present THEN "exists"
  ELSE IF c.verb = "delete" /\ ~present THEN "missing"
  ELSE "ok"

\* The object exists once the server has carried the call out.
Leaves(c) == c.verb \in {"create", "ensure", "apply"}

\* The server writes the object's contents (ensure keeps an existing object).
Writes(c, present) == c.verb \in {"create", "apply"} \/ (c.verb = "ensure" /\ ~present)
=============================================================================
