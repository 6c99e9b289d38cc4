------------------------------ MODULE MCPyCpu -------------------------------
(***************************************************************************)
(* Three CPUs: 0 and 2 share a policy, so that policies interleave their   *)
(* CPU numbers; 1 has its own.  The scaling files are read one like the    *)
(* other, and one of them is enough here.                                  *)
(***************************************************************************)
EXTENDS PyCpu

MCCpus == 0 .. 2
MCPolicies == {"policy0", "policy1"}
MCPolicyOf == [c \in MCCpus |-> IF c = 1 THEN "policy1" ELSE "policy0"]
MCFields == {"cur"}
MCFreq ==
  [p \in MCPolicies |->
     [f \in MCFields |-> IF p = "policy0" THEN 1 ELSE 4]]
=============================================================================
