----------------------------- MODULE MCPodDrain -----------------------------
(***************************************************************************)
(* PodDrain with a pod of every kind: one without DaemonSet, a mirror pod, *)
(* one of kube-system, and one whose first DaemonSet is gone for good and  *)
(* whose second comes and goes.                                            *)
(***************************************************************************)
EXTENDS PodDrain, TLC

CONSTANTS plain, mirror, system, owned, ds, gone

MCOwnerRefs == plain :> {} @@ mirror :> {} @@ system :> {} @@ owned :> {gone, ds}

=============================================================================
