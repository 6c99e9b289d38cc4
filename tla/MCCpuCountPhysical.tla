------------------------- MODULE MCCpuCountPhysical -------------------------
(***************************************************************************)
(* CPUs 0 and 1 are the two threads of core 0 of package 0; CPU 2 is core  *)
(* 0 of package 1, so that core ids repeat and packages do not.            *)
(***************************************************************************)
EXTENDS CpuCountPhysical

MCCpus == 0 .. 2
MCPackage == [c \in MCCpus |-> IF c = 2 THEN 1 ELSE 0]
MCCore == [c \in MCCpus |-> 0]
=============================================================================
