------------------------------ MODULE MCReboot ------------------------------
(***************************************************************************)
(* Small instances of RebootCluster for TLC: budgets of disturbances.      *)
(***************************************************************************)
EXTENDS RebootInvariant, TLC

Quiet == [update |-> 2, abort |-> 0, error |-> 0, refuse |-> 0, crash |-> 0,
          late |-> 0, admin |-> 0]

KillFree      == [Quiet EXCEPT !["abort"] = 1, !["error"] = 1, !["refuse"] = 1,
                               !["admin"] = 1]
Crash         == [Quiet EXCEPT !["crash"] = 1]
CrashOrRefuse == [Crash EXCEPT !["refuse"] = 1]
CrashAndCheck == [Crash EXCEPT !["late"] = 1]

NodeSymmetry == Permutations(Nodes)

=============================================================================
