---------------------------- MODULE MCCpuTimes -----------------------------
(* CpuTimes for TLC: two CPUs, arrays that are empty, too short and just right. *)
EXTENDS CpuTimes

MCCpus == {0, 1}
MCSizes == 0 .. 2
============================================================================
