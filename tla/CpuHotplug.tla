----------------------------- MODULE CpuHotplug -----------------------------
(***************************************************************************)
(* The machine under the calls about CPUs: its CPUs go offline and come    *)
(* online at any moment, never the last one, and what a call is to be      *)
(* judged by is kept beside: which CPUs were there all along, and which    *)
(* at some moment.                                                         *)
(***************************************************************************)
EXTENDS Integers, FiniteSets

CONSTANTS
  Cpus,        \* CPU numbers: the directories /sys/devices/system/cpu/cpuN
  MaxHotplug   \* bound on the CPUs that come or go in a behaviour

ASSUME CpusAreNumbered == IsFiniteSet(Cpus) /\ Cpus \subseteq Nat /\ Cpus # {}
ASSUME BoundIsNatural == MaxHotplug \in Nat

VARIABLES
  online,    \* CPUs the kernel has online
  hotplugs,  \* changes of online so far
  \* what happened since the call began
  stayed,    \* CPUs online all along
  ever       \* CPUs online at some moment

cpuVars == <<online, hotplugs, stayed, ever>>

CpuLeaves(c) ==
  /\ hotplugs < MaxHotplug
  /\ c \in online
  /\ online # {c}
  /\ hotplugs' = hotplugs + 1
  /\ online' = online \ {c}
  /\ stayed' = stayed \ {c}
  /\ UNCHANGED ever

CpuComes(c) ==
  /\ hotplugs < MaxHotplug
  /\ c \in Cpus \ online
  /\ hotplugs' = hotplugs + 1
  /\ online' = online \cup {c}
  /\ ever' = ever \cup {c}
  /\ UNCHANGED stayed
=============================================================================
