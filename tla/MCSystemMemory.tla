--------------------------- MODULE MCSystemMemory --------------------------
(***************************************************************************)
(* A kibibyte is two bytes, a page three, and a word has six bits.  Every  *)
(* line that counts in the estimate may be missing; the lines that are     *)
(* only passed on come with two of those that are required.                *)
(***************************************************************************)
EXTENDS SystemMemory, TLC, FiniteSetsExt

Values(k) ==
  CASE k = "MemTotal" -> {0, 9}
    [] k = "MemFree" -> {0, 1, 4}
    [] k = "Cached" -> {2}
    [] k = "SReclaimable" -> {1, 3}
    [] k = "Inactive(file)" -> {2}
    [] k = "MemAvailable" -> {0, 5, 11}
    [] k \in SwapLines -> {0, 2, 5}
    [] k \in VmLines -> {0, 7}
    [] OTHER -> {3}

\* Every file with some of these lines.
Files(lines) ==
  FoldSet(LAMBDA k, files :
            files \cup {m @@ (k :> v) : m \in files, v \in Values(k)},
          {Nothing}, lines)

Estimated == {"MemTotal", "MemFree", "Cached", "SReclaimable",
              "Active(file)", "Inactive(file)", "MemAvailable"}
PassedOn == {"MemTotal", "MemFree", "Buffers", "Shmem", "Slab"}
OfOldKernels == {"MemTotal", "MemFree", "Active", "MemShared"} \cup InactParts

MCMemInfos ==
  {m \in Files(Estimated) \cup Files(PassedOn) \cup Files(OfOldKernels)
           \cup Files({"MemTotal", "MemFree", "Inactive"})
           \cup Files(SwapLines) : MemInfoOK(m)}
MCZoneInfos == {("DMA" :> a) @@ ("Normal" :> b) : a, b \in 0 .. 3}
MCVmStats == Files(VmLines)
=============================================================================
