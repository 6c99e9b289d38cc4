--------------------------- MODULE SystemMemory ----------------------------
(***************************************************************************)
(* procmetrix_system_virtual_memory and procmetrix_system_swap_memory on   *)
(* Linux (src/linux/mem.c).                                                *)
(*                                                                         *)
(* A file is the function from the lines it has to their values; the lines *)
(* are read in any order, and any of them may be missing.  Each file is    *)
(* written by the kernel when it is first read, so /proc/meminfo and the   *)
(* second file (/proc/zoneinfo, /proc/vmstat) are of different moments.    *)
(* The usage ratio is used / total and has no variable of its own.         *)
(***************************************************************************)
EXTENDS Integers, FiniteSets, Functions

CONSTANTS
  Modulus,    \* 2^64
  KiB,        \* 1024
  PageSize,   \* sysconf(_SC_PAGE_SIZE); it may fail all the same
  MemInfos,   \* what /proc/meminfo may show, in KiB
  ZoneInfos,  \* what /proc/zoneinfo may show: the low watermark of each zone
  VmStats     \* what /proc/vmstat may show, in pages

Plain == {"MemTotal", "MemFree", "Buffers", "Cached", "SReclaimable", "Shmem",
          "MemShared", "Active", "Active(file)", "Inactive(file)", "Inactive",
          "Slab", "MemAvailable"}
InactParts == {"Inact_dirty", "Inact_clean", "Inact_laundry"}
SwapLines == {"SwapTotal", "SwapFree"}
VmLines == {"pswpin", "pswpout"}

Shows(file, k) == IF k \in DOMAIN file THEN file[k] ELSE 0

\* No kernel shows one thing under two names; parts are not above the whole;
\* and what is added up below fits 64 bits.
MemInfoOK(m) ==
  /\ DOMAIN m \subseteq Plain \cup InactParts \cup SwapLines
  /\ \A k \in DOMAIN m : m[k] \in Nat /\ KiB * m[k] < Modulus
  /\ "Shmem" \notin DOMAIN m \/ "MemShared" \notin DOMAIN m
  /\ "Inactive" \notin DOMAIN m \/ DOMAIN m \cap InactParts = {}
  /\ {"MemTotal", "MemFree"} \subseteq DOMAIN m => m["MemFree"] <= m["MemTotal"]
  /\ SwapLines \subseteq DOMAIN m => m["SwapFree"] <= m["SwapTotal"]
  /\ KiB * Shows(m, "Inact_dirty") + KiB * Shows(m, "Inact_clean")
       + KiB * Shows(m, "Inact_laundry") < Modulus
  /\ KiB * Shows(m, "MemFree") + KiB * Shows(m, "Active(file)")
       + KiB * Shows(m, "Inactive(file)") + KiB * Shows(m, "SReclaimable")
       + KiB * Shows(m, "Cached") < Modulus

ASSUME NumbersArePositive == {Modulus, KiB, PageSize} \subseteq Nat \ {0}
ASSUME MemInfosAreOK == \A m \in MemInfos : MemInfoOK(m)
\* Every zone has a watermark; in bytes they fit 64 bits together.
ASSUME ZoneInfosAreOK ==
  \A z \in ZoneInfos :
    /\ DOMAIN z # {} /\ IsFiniteSet(DOMAIN z)
    /\ \A i \in DOMAIN z : z[i] \in Nat
    /\ PageSize * FoldFunction(+, 0, z) < Modulus
ASSUME VmStatsAreOK ==
  \A v \in VmStats :
    /\ DOMAIN v \subseteq VmLines
    /\ \A k \in DOMAIN v : v[k] \in Nat

VARIABLES
  call,     \* "virtual" or "swap"
  pc,
  meminfo,  \* the text of /proc/meminfo
  second,   \* the text of the second file
  unread,   \* lines of the file being read that are still to come
  mem,      \* *virtual_memory or *swap_memory, and the local variables
  low,      \* low_wmark
  status,
  streams   \* open files

vars == <<call, pc, meminfo, second, unread, mem, low, status, streams>>

Word == 0 .. Modulus - 1
Plus(a, b) == (a + b) % Modulus
Minus(a, b) == (a - b) % Modulus
Times(a, b) == (a * b) % Modulus

Slots == {"total", "free", "buffers", "cached", "reclaimable", "shared",
          "active", "active_file", "inactive_file", "inactive", "slab",
          "available", "used", "swap_in", "swap_out"}
Nothing == [k \in {} |-> 0]
Cleared == [s \in Slots |-> 0]

-----------------------------------------------------------------------------
\* The call and its files

Call(which) ==
  /\ pc = "idle"
  /\ call' = which
  /\ pc' = "open"
  /\ mem' = Cleared
  /\ low' = 0
  /\ status' = "NONE"
  /\ meminfo' = Nothing
  /\ second' = Nothing
  /\ UNCHANGED <<unread, streams>>

OpenFails ==
  /\ pc = "open"
  /\ status' = "FILE_READ"
  /\ pc' = "returned"
  /\ UNCHANGED <<call, meminfo, second, unread, mem, low, streams>>

Matched(which) == IF which = "swap" THEN SwapLines ELSE Plain \cup InactParts

\* The second file is optional.
OpenFiles ==
  /\ pc = "open"
  /\ streams' \in {{"meminfo"}, {"meminfo", "second"}}
  /\ meminfo' \in MemInfos
  /\ unread' = DOMAIN meminfo' \cap Matched(call)
  /\ pc' = "lines"
  /\ UNCHANGED <<call, second, mem, low, status>>

-----------------------------------------------------------------------------
\* procmetrix_impl_linux_system_virtual_memory

Slot(k) ==
  CASE k = "MemTotal" -> "total"            [] k = "MemFree" -> "free"
    [] k = "Buffers" -> "buffers"           [] k = "Cached" -> "cached"
    [] k = "SReclaimable" -> "reclaimable"  [] k = "Active" -> "active"
    [] k \in {"Shmem", "MemShared"} -> "shared"
    [] k = "Active(file)" -> "active_file"
    [] k = "Inactive(file)" -> "inactive_file"
    [] k = "Inactive" \/ k \in InactParts -> "inactive"
    [] k = "Slab" -> "slab"                 [] k = "MemAvailable" -> "available"
    [] k = "SwapTotal" -> "total"           [] k = "SwapFree" -> "free"
    [] k = "pswpin" -> "swap_in"            [] k = "pswpout" -> "swap_out"

\* What a line makes of its slot.
Parsed_Overwrites(k) == Times(KiB, meminfo[k])
Parsed(k) ==
  IF k \in InactParts THEN Plus(mem["inactive"], Times(KiB, meminfo[k]))
  ELSE Times(KiB, meminfo[k])

ReadLine(k) ==
  /\ pc = "lines"
  /\ k \in unread
  /\ mem' = [mem EXCEPT ![Slot(k)] = Parsed(k)]
  /\ unread' = unread \ {k}
  /\ UNCHANGED <<call, pc, meminfo, second, low, status, streams>>

LinesEnd == pc = "lines" /\ call = "virtual" /\ unread = {}

\* cached holds the local variable until here, the result from here on.
AllCached == Plus(mem["cached"], mem["reclaimable"])

FreeMissing ==
  /\ LinesEnd
  /\ mem["free"] = 0
  /\ mem' = [mem EXCEPT !["cached"] = AllCached]
  /\ status' = "MALFORMED"
  /\ pc' = "close"
  /\ UNCHANGED <<call, meminfo, second, unread, low, streams>>

AvailableShown ==
  /\ LinesEnd
  /\ mem["free"] # 0
  /\ mem["available"] # 0
  /\ mem' = [mem EXCEPT !["cached"] = AllCached]
  /\ pc' = "usage"
  /\ UNCHANGED <<call, meminfo, second, unread, low, status, streams>>

\* The initial approximation, which is all there is when a line is missing,
\* /proc/zoneinfo cannot be opened, or the page size is unknown.
Approximate ==
  /\ LinesEnd
  /\ mem["free"] # 0
  /\ mem["available"] = 0
  /\ mem' = [mem EXCEPT !["cached"] = AllCached,
                        !["available"] = Plus(mem["free"], mem["cached"])]
  /\ pc' = "usage"
  /\ UNCHANGED <<call, meminfo, second, unread, low, status, streams>>

OpenZones ==
  /\ LinesEnd
  /\ mem["free"] # 0
  /\ mem["available"] = 0
  /\ {"SReclaimable", "Active(file)", "Inactive(file)"} \subseteq DOMAIN meminfo
  /\ "second" \in streams
  /\ mem' = [mem EXCEPT !["cached"] = AllCached]
  /\ second' \in ZoneInfos
  /\ unread' = DOMAIN second'
  /\ pc' = "zones"
  /\ UNCHANGED <<call, meminfo, low, status, streams>>

\* procmetrix_impl_linux_zoneinfo_low_watermark
ReadZone(z) ==
  /\ pc = "zones"
  /\ z \in unread
  /\ low' = Plus(low, second[z])
  /\ unread' = unread \ {z}
  /\ UNCHANGED <<call, pc, meminfo, second, mem, status, streams>>

Least(a, b) == IF a < b THEN a ELSE b

PageCache == Plus(mem["active_file"], mem["inactive_file"])

\* What remains of an amount when half of it, or wmark, must stay.
Spare(amount, wmark) == Minus(amount, Least(amount \div 2, wmark))

Better_Unclamped(wmark) ==
  Minus(Plus(Plus(mem["free"], Spare(PageCache, wmark)),
             Spare(mem["reclaimable"], wmark)), wmark)
Better(wmark) ==
  LET sum == Plus(Plus(mem["free"], Spare(PageCache, wmark)),
                  Spare(mem["reclaimable"], wmark))
  IN IF sum > wmark THEN Minus(sum, wmark) ELSE 0

Estimate ==
  /\ pc = "zones"
  /\ unread = {}
  /\ low' = Times(low, PageSize)
  /\ mem' = [mem EXCEPT !["available"] = Better(low')]
  /\ pc' = "usage"
  /\ UNCHANGED <<call, meminfo, second, unread, status, streams>>

TotalMissing ==
  /\ pc = "usage"
  /\ mem["total"] = 0
  /\ status' = "MALFORMED"
  /\ pc' = "close"
  /\ UNCHANGED <<call, meminfo, second, unread, mem, low, streams>>

\* More available than there is: in a container.
Believable_AsShown == mem["available"]
Believable ==
  IF mem["available"] > mem["total"] THEN mem["free"] ELSE mem["available"]

Usage ==
  /\ pc = "usage"
  /\ mem["total"] # 0
  /\ mem' = [mem EXCEPT !["available"] = Believable,
                        !["used"] = Minus(mem["total"], Believable)]
  /\ pc' = "close"
  /\ UNCHANGED <<call, meminfo, second, unread, low, status, streams>>

-----------------------------------------------------------------------------
\* procmetrix_impl_linux_system_swap_memory

\* Both loops stop as soon as they have what they want, which here is all of
\* the matched lines.  The second is skipped when it cannot be read, and then
\* nothing is said of it.
SwapRead ==
  /\ pc = "lines"
  /\ call = "swap"
  /\ unread = {}
  /\ \/ /\ pc' = "validate"
        /\ UNCHANGED <<second, unread>>
     \/ /\ "second" \in streams
        /\ second' \in VmStats
        /\ unread' = DOMAIN second'
        /\ pc' = "vmstat"
  /\ UNCHANGED <<call, meminfo, mem, low, status, streams>>

ReadVmLine(k) ==
  /\ pc = "vmstat"
  /\ k \in unread
  /\ mem' = [mem EXCEPT ![Slot(k)] = Times(PageSize, second[k])]
  /\ unread' = unread \ {k}
  /\ UNCHANGED <<call, pc, meminfo, second, low, status, streams>>

VmStatRead ==
  /\ pc = "vmstat"
  /\ unread = {}
  /\ pc' = "validate"
  /\ UNCHANGED <<call, meminfo, second, unread, mem, low, status, streams>>

Unusable ==
  ~(SwapLines \subseteq DOMAIN meminfo) \/ mem["free"] > mem["total"]

Validate ==
  /\ pc = "validate"
  /\ \/ /\ Unusable
        /\ status' = "MALFORMED"
        /\ UNCHANGED mem
     \/ /\ ~Unusable
        /\ mem' = [mem EXCEPT !["used"] = Minus(mem["total"], mem["free"])]
        /\ UNCHANGED status
  /\ pc' = "close"
  /\ UNCHANGED <<call, meminfo, second, unread, low, streams>>

-----------------------------------------------------------------------------
Close_KeepsSecond ==
  /\ pc = "close"
  /\ streams' = streams \ {"meminfo"}
  /\ pc' = "returned"
  /\ UNCHANGED <<call, meminfo, second, unread, mem, low, status>>

Close ==
  /\ pc = "close"
  /\ streams' = {}
  /\ pc' = "returned"
  /\ UNCHANGED <<call, meminfo, second, unread, mem, low, status>>

Return ==
  /\ pc = "returned"
  /\ pc' = "idle"
  /\ UNCHANGED <<call, meminfo, second, unread, mem, low, status, streams>>

Init ==
  /\ call \in {"virtual", "swap"}
  /\ pc = "idle"
  /\ meminfo = Nothing
  /\ second = Nothing
  /\ unread = {}
  /\ mem = Cleared
  /\ low = 0
  /\ status = "NONE"
  /\ streams = {}

Next ==
  \/ \E which \in {"virtual", "swap"} : Call(which)
  \/ OpenFails
  \/ OpenFiles
  \/ \E k \in unread : ReadLine(k) \/ ReadZone(k) \/ ReadVmLine(k)
  \/ FreeMissing
  \/ AvailableShown
  \/ Approximate
  \/ OpenZones
  \/ Estimate
  \/ TotalMissing
  \/ Usage
  \/ SwapRead
  \/ VmStatRead
  \/ Validate
  \/ Close
  \/ Return

Spec == Init /\ [][Next]_vars

-----------------------------------------------------------------------------
\* Properties

\* Types; the files are open only while the call reads them, so that every
\* return closes what it opened (mem.c:295-355).
TypeOK ==
  /\ call \in {"virtual", "swap"}
  /\ pc \in {"idle", "open", "lines", "zones", "usage", "vmstat", "validate",
             "close", "returned"}
  /\ MemInfoOK(meminfo)
  /\ \A i \in DOMAIN second : second[i] \in Nat
  /\ mem \in [Slots -> Word]
  /\ low \in Word
  /\ status \in {"NONE", "FILE_READ", "MALFORMED"}
  /\ unread \subseteq CASE pc = "lines" -> DOMAIN meminfo \cap Matched(call)
                        [] pc \in {"zones", "vmstat"} -> DOMAIN second
                        [] OTHER -> {}
  /\ streams \subseteq {"meminfo", "second"}
  /\ streams = {} <=> pc \in {"idle", "open", "returned"}

Answered(which) == pc = "returned" /\ status = "NONE" /\ call = which
Shown(k) == KiB * Shows(meminfo, k)

\* Whatever lines the file has, in whatever order, and however the available
\* memory was come by, the books balance: used and available memory (used and
\* free swap) make up the total, with no subtraction that passes zero
\* (mem.c:159-208, 281-291).
BooksBalance ==
  /\ Answered("virtual") =>
       /\ mem["used"] + mem["available"] = mem["total"]
       /\ mem["total"] = Shown("MemTotal")
       /\ mem["free"] = Shown("MemFree")
       /\ mem["total"] # 0
  /\ Answered("swap") =>
       /\ mem["used"] + mem["free"] = mem["total"]
       /\ mem["total"] = Shown("SwapTotal")
       /\ mem["free"] = Shown("SwapFree")

\* The kernel's own estimate, over the integers: free memory and the file
\* cache and reclaimable slab beyond their share, above the low watermark.
Kept(amount) == IF amount \div 2 < low THEN amount \div 2 ELSE low
Reference ==
  LET cache == Shown("Active(file)") + Shown("Inactive(file)")
      slab == Shown("SReclaimable")
  IN Shown("MemFree") + cache - Kept(cache) + slab - Kept(slab) - low

Capped(n) ==
  IF n > Shown("MemTotal") THEN Shown("MemFree") ELSE IF n < 0 THEN 0 ELSE n

\* When the kernel gives no estimate the code's 64-bit one is that of the
\* integers, zero below the watermark and never a wrapped number; with too
\* little to go on it is what is free and cached (mem.c:164-203).
EstimateIsExact ==
  Answered("virtual") =>
    mem["available"] =
      CASE Shown("MemAvailable") # 0 -> Capped(Shown("MemAvailable"))
        [] Shown("MemAvailable") = 0 /\ DOMAIN second # {} -> Capped(Reference)
        [] OTHER -> Capped(Shown("MemFree") + Shown("Cached"))

\* The other fields are what the file says in whatever order it says it, the
\* older kernels' three kinds of inactive pages together and the low
\* watermarks of all zones together; and MALFORMED is no false alarm: a line
\* is missing, or shows zero (mem.c:32-62, 86-162, 189-191, 281-285).
LinesAreRead ==
  /\ Answered("virtual") =>
       /\ \A k \in {"Buffers", "Active", "Slab"} : mem[Slot(k)] = Shown(k)
       /\ mem["shared"] = Shown("Shmem") + Shown("MemShared")
       /\ mem["cached"] = Shown("Cached") + Shown("SReclaimable")
       /\ mem["inactive"] = Shown("Inactive") + Shown("Inact_dirty")
                              + Shown("Inact_clean") + Shown("Inact_laundry")
  /\ Answered("virtual") /\ DOMAIN second # {} =>
       low = PageSize * FoldFunction(+, 0, second)
  /\ pc = "returned" /\ status = "MALFORMED" =>
       IF call = "swap" THEN ~(SwapLines \subseteq DOMAIN meminfo)
       ELSE Shown("MemFree") = 0 \/ Shown("MemTotal") = 0
=============================================================================
