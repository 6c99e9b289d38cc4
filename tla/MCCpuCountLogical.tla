------------------------- MODULE MCCpuCountLogical -------------------------
(***************************************************************************)
(* Four CPUs and three changes: one CPU can leave behind the reader and    *)
(* two come ahead of it, so that a count matches no single moment.         *)
(***************************************************************************)
EXTENDS CpuCountLogical

MCCpus == 0 .. 3
=============================================================================
