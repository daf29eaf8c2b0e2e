------------------------------ MODULE MCService ------------------------------
(***************************************************************************)
(* The service's writes, and the endurance harness that loads a service    *)
(* and audits what it acknowledged.  The harness knows the service by its  *)
(* answers alone and the two modules share no state, so each behaviour     *)
(* exercises one of them, named by part.                                   *)
(***************************************************************************)
EXTENDS MCMemoryService, EnduranceLoad

VARIABLE part

serviceRunVars == <<rvars, loadVars, part>>

ServiceRunInit ==
  /\ part \in {"writes", "load"}
  /\ RequestInit
  /\ part = "load" => atomic
  /\ LoadInit

ServiceRunNext ==
  /\ UNCHANGED part
  /\ \/ part = "writes" /\ UNCHANGED loadVars /\ CalmNext
     \/ part = "load" /\ UNCHANGED rvars /\ LoadNext

ServiceRunSpec == ServiceRunInit /\ [][ServiceRunNext]_serviceRunVars
=============================================================================
