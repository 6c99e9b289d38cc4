------------------------------ MODULE CpuFreqs ------------------------------
(***************************************************************************)
(* procmetrix_cpu_freqs on Linux (src/linux/cpu.c): one array slot per CPU *)
(* number, filled policy by policy from sysfs, or one slot per "cpu MHz"   *)
(* line of /proc/cpuinfo where the kernel has no cpufreq policies.  CPUs   *)
(* come and go while the call runs.                                        *)
(*                                                                         *)
(* A frequency is the number sysfs shows; the change of unit from kHz to   *)
(* MHz is the same for every entry and is left out.                        *)
(***************************************************************************)
EXTENDS CpuHotplug, FiniteSetsExt

CONSTANTS
  Policies,    \* /sys/devices/system/cpu/cpufreq/policyN
  PolicyOf,    \* PolicyOf[c]: the policy CPU c belongs to
  Fields,      \* scaling_cur_freq, scaling_max_freq, scaling_min_freq
  NoPolicy,    \* no policy visited yet
  Freq         \* Freq[p][f]: what file f of policy p shows

ASSUME PoliciesCoverCpus ==
  IsFiniteSet(Policies) /\ PolicyOf \in [Cpus -> Policies]
ASSUME NoPolicyIsNone == NoPolicy \notin Policies
ASSUME FieldsAreFinite == IsFiniteSet(Fields)
ASSUME FrequenciesArePositive ==
  "cur" \in Fields /\ Freq \in [Policies -> [Fields -> Nat \ {0}]]

VARIABLES
  \* the machine
  kernel,      \* where it shows frequencies: "policies", "cpuinfo"
  \* the call
  pc,
  maxCount,    \* max_count
  array,       \* cpu_freqs, slot by slot
  readCount,   \* *read_count
  status,
  route,       \* "policies" or "cpuinfo", once the glob decided
  todo,        \* glob paths still to visit
  policy,      \* the policy being visited
  fieldsTodo,  \* its scaling files still to read
  scaling,     \* what they said so far
  affected,    \* CPUs of its affected_cpus list still to be parsed
  cursor,      \* last CPU whose cpuinfo block was read
  held,        \* what must be released: glob, affected_cpus, cpuinfo
  \* what happened since the call began
  faults       \* an open or a read failed

machine == <<online, hotplugs, kernel>>
output == <<maxCount, array, readCount, status>>
visit == <<policy, fieldsTodo, scaling, affected>>
history == <<stayed, ever, faults>>
freqVars == <<machine, pc, output, route, todo, visit, cursor, held, history>>

Zero == [f \in Fields |-> 0]
Untouched == [f \in Fields |-> -1]  \* what the caller's memory held before
Filled(n, entry) == [j \in 0 .. n - 1 |-> entry]
MinOf(S) == CHOOSE c \in S : \A d \in S : c <= d

\* A store: one past the end of the array would add a slot.
Stored(block, j, entry) ==
  [k \in DOMAIN block \cup {j} |-> IF k = j THEN entry ELSE block[k]]

-----------------------------------------------------------------------------
\* The kernel

GoOffline(c) ==
  /\ CpuLeaves(c)
  /\ UNCHANGED <<kernel, pc, output, route, todo, visit, cursor, held, faults>>

GoOnline(c) ==
  /\ CpuComes(c)
  /\ UNCHANGED <<kernel, pc, output, route, todo, visit, cursor, held, faults>>

OnlineOf(p) == {c \in online : PolicyOf[c] = p}

-----------------------------------------------------------------------------
\* procmetrix_cpu_freqs

\* The callers in the repository bring a slot at least, and a read_count set
\* to zero.
CallWith(n) ==
  /\ n > 0
  /\ pc = "idle"
  /\ pc' = "glob"
  /\ maxCount' = n
  /\ readCount' = 0
  /\ array' = Filled(n, Untouched)
  /\ status' = "NONE"
  /\ stayed' = online
  /\ ever' = online
  /\ faults' = FALSE
  /\ route' = "none"
  /\ UNCHANGED <<machine, todo, visit, cursor, held>>

Glob ==
  /\ pc = "glob"
  /\ \/ /\ "policies" \in kernel
        /\ pc' = "nextPolicy"
        /\ route' = "policies"
        /\ todo' = Policies
        /\ array' = Filled(maxCount, Zero)
        /\ held' = {"glob"}
        /\ UNCHANGED faults
     \/ /\ pc' = "cpuinfo"
        /\ route' = "cpuinfo"
        /\ faults' = ("policies" \in kernel)
        /\ UNCHANGED <<array, todo, held>>
  /\ UNCHANGED <<machine, maxCount, readCount, status, visit, cursor, stayed,
                 ever>>

-----------------------------------------------------------------------------
\* procmetrix_impl_linux_cpu_freqs_policies

OpenAffected(p) ==
  /\ pc = "nextPolicy"
  /\ p \in todo
  /\ todo' = todo \ {p}
  /\ policy' = p
  /\ scaling' = Zero
  /\ fieldsTodo' = Fields
  /\ held' = held \cup {"affected_cpus"}
  /\ pc' = "readFields"
  /\ UNCHANGED <<machine, output, route, affected, cursor, history>>

\* The remaining policies are not visited.
OpenAffectedFails ==
  /\ pc = "nextPolicy"
  /\ todo # {}
  /\ todo' = {}
  /\ status' = "FILE_READ"
  /\ held' = {}
  /\ pc' = "idle"
  /\ faults' = TRUE
  /\ UNCHANGED <<machine, maxCount, array, readCount, route, visit, cursor,
                 stayed, ever>>

\* read_sysfs_cpu_scaling_freq_field; a policy without online CPUs reads as
\* busy, which like any failure leaves the field zero and goes unreported.
ReadField(f) ==
  /\ pc = "readFields"
  /\ f \in fieldsTodo
  /\ fieldsTodo' = fieldsTodo \ {f}
  /\ \/ /\ OnlineOf(policy) # {}
        /\ scaling' = [scaling EXCEPT ![f] = Freq[policy][f]]
        /\ UNCHANGED faults
     \/ /\ OnlineOf(policy) = {}
        /\ UNCHANGED <<scaling, faults>>
     \/ /\ faults' = TRUE
        /\ UNCHANGED scaling
  /\ UNCHANGED <<machine, pc, output, route, todo, policy, affected, cursor,
                 held, stayed, ever>>

\* The first fscanf makes the kernel print the list, once and for all.
ReadAffected ==
  /\ pc = "readFields"
  /\ fieldsTodo = {}
  /\ pc' = "fill"
  /\ \/ affected' = OnlineOf(policy) /\ UNCHANGED faults
     \/ affected' = {} /\ faults' = TRUE
  /\ UNCHANGED <<machine, output, route, todo, policy, fieldsTodo, scaling,
                 cursor, held, stayed, ever>>

\* The list is ascending; the first CPU past the array ends it.
InRange_OffByOne(c) == c <= maxCount
InRange(c) == c < maxCount

Counted_LastWins(c) == c + 1
Counted(c) == IF readCount < c + 1 THEN c + 1 ELSE readCount

FillSlot ==
  /\ pc = "fill"
  /\ affected # {}
  /\ LET c == MinOf(affected) IN
       /\ InRange(c)
       /\ array' = Stored(array, c, scaling)
       /\ readCount' = Counted(c)
       /\ affected' = affected \ {c}
  /\ UNCHANGED <<machine, pc, maxCount, status, route, todo, policy,
                 fieldsTodo, scaling, cursor, held, history>>

FillEnds_ForgetsMoreData ==
  /\ pc = "fill"
  /\ affected # {} => ~InRange(MinOf(affected))
  /\ affected' = {}
  /\ held' = held \ {"affected_cpus"}
  /\ pc' = "nextPolicy"
  /\ UNCHANGED <<machine, output, route, todo, policy, fieldsTodo, scaling,
                 cursor, history>>

FillEnds ==
  /\ pc = "fill"
  /\ affected # {} => ~InRange(MinOf(affected))
  /\ status' = IF affected # {} THEN "MORE_DATA" ELSE status
  /\ affected' = {}
  /\ held' = held \ {"affected_cpus"}
  /\ pc' = "nextPolicy"
  /\ UNCHANGED <<machine, maxCount, array, readCount, route, todo, policy,
                 fieldsTodo, scaling, cursor, history>>

PoliciesDone ==
  /\ pc = "nextPolicy"
  /\ todo = {}
  /\ held' = held \ {"glob"}
  /\ pc' = "idle"
  /\ UNCHANGED <<machine, output, route, todo, visit, cursor, history>>

-----------------------------------------------------------------------------
\* procmetrix_impl_linux_cpuinfo_freqs

OpenCpuinfo ==
  /\ pc = "cpuinfo"
  /\ cursor' = -1
  /\ array' = Filled(maxCount, Zero)
  /\ held' = {"cpuinfo"}
  /\ pc' = "nextBlock"
  /\ UNCHANGED <<machine, maxCount, readCount, status, route, todo, visit,
                 history>>

OpenCpuinfoFails ==
  /\ pc = "cpuinfo"
  /\ status' = "FILE_READ"
  /\ pc' = "idle"
  /\ faults' = TRUE
  /\ UNCHANGED <<machine, maxCount, array, readCount, route, todo, visit,
                 cursor, held, stayed, ever>>

LaterCpus == {c \in online : c > cursor}

\* Blocks come for the CPUs online, ascending; the "cpu MHz" line of each
\* goes to the next slot, whatever the CPU's number.
NextBlock ==
  /\ pc = "nextBlock"
  /\ LaterCpus # {}
  /\ cursor' = MinOf(LaterCpus)
  /\ \/ /\ "cpuinfo" \notin kernel
        /\ UNCHANGED <<pc, output, held>>
     \/ /\ "cpuinfo" \in kernel
        /\ InRange(readCount)
        /\ array' = Stored(array, readCount,
                      [Zero EXCEPT !["cur"] = Freq[PolicyOf[cursor']]["cur"]])
        /\ readCount' = readCount + 1
        /\ UNCHANGED <<pc, maxCount, status, held>>
     \/ /\ "cpuinfo" \in kernel
        /\ ~InRange(readCount)
        /\ status' = "MORE_DATA"
        /\ held' = {}
        /\ pc' = "idle"
        /\ UNCHANGED <<maxCount, array, readCount>>
  /\ UNCHANGED <<machine, route, todo, visit, history>>

\* End of file, or a read error, which fgets does not tell apart.
CpuinfoEnds ==
  /\ pc = "nextBlock"
  /\ faults' = (faults \/ LaterCpus # {})
  /\ held' = {}
  /\ pc' = "idle"
  /\ UNCHANGED <<machine, output, route, todo, visit, cursor, stayed, ever>>

-----------------------------------------------------------------------------
Init ==
  /\ online \in (SUBSET Cpus) \ {{}}
  /\ hotplugs = 0
  /\ kernel \in SUBSET {"policies", "cpuinfo"}
  /\ pc = "idle"
  /\ maxCount = 0
  /\ array = Filled(0, Untouched)
  /\ readCount = 0
  /\ status = "INVALID_ARGUMENT"
  /\ route = "none"
  /\ todo = {}
  /\ policy = NoPolicy
  /\ fieldsTodo = {}
  /\ scaling = Zero
  /\ affected = {}
  /\ cursor = -1
  /\ held = {}
  /\ stayed = online
  /\ ever = online
  /\ faults = FALSE

Hotplug == \E c \in Cpus : GoOffline(c) \/ GoOnline(c)

\* One step of a call in progress.
CallStep ==
  \/ Glob
  \/ \E p \in Policies : OpenAffected(p)
  \/ OpenAffectedFails
  \/ \E f \in Fields : ReadField(f)
  \/ ReadAffected
  \/ FillSlot
  \/ FillEnds
  \/ PoliciesDone
  \/ OpenCpuinfo
  \/ OpenCpuinfoFails
  \/ NextBlock
  \/ CpuinfoEnds

-----------------------------------------------------------------------------
\* Properties

Entry == [Fields -> Nat]

TypeOK ==
  /\ online \in (SUBSET Cpus) \ {{}}
  /\ hotplugs \in 0 .. MaxHotplug
  /\ kernel \in SUBSET {"policies", "cpuinfo"}
  /\ pc \in {"idle", "glob", "nextPolicy", "readFields", "fill", "cpuinfo",
             "nextBlock"}
  /\ readCount \in 0 .. maxCount
  /\ DOMAIN array = 0 .. maxCount - 1
  /\ \A j \in DOMAIN array : array[j] \in Entry \cup {Untouched}
  /\ status \in {"NONE", "MORE_DATA", "FILE_READ", "INVALID_ARGUMENT"}
  /\ route \in {"none", "policies", "cpuinfo"}
  /\ todo \subseteq Policies
  /\ policy \in Policies \cup {NoPolicy}
  /\ fieldsTodo \subseteq Fields
  /\ scaling \in Entry
  /\ affected \subseteq Cpus
  /\ cursor \in Cpus \cup {-1}
  /\ held \subseteq {"glob", "affected_cpus", "cpuinfo"}
  /\ stayed \subseteq ever /\ ever \subseteq Cpus
  /\ faults \in BOOLEAN

\* In the policy route slot c describes CPU c, a CPU that was online during
\* the call, with that CPU's own policy; once there is anything to use, the
\* slots past read_count are zero, not the caller's old memory
\* (cpu.c:401-457, 481-515).
SlotsTellTheTruth ==
  /\ \A j \in DOMAIN array, f \in Fields :
       route = "policies" /\ array[j][f] # 0 =>
         j \in ever /\ array[j][f] = Freq[PolicyOf[j]][f]
  /\ pc = "idle" /\ status \in {"NONE", "MORE_DATA"} =>
       \A j \in DOMAIN array :
         /\ array[j] \in Entry
         /\ j >= readCount => array[j] = Zero

\* Without a failed open or read, every CPU that stayed online and has a slot
\* got its current frequency, and no CPU that stayed online is silently left
\* out: MORE_DATA is reported for it, and is never a false alarm: some CPU
\* that was online during the call really has no slot (cpu.c:407-460,
\* 497-509).
NoCpuIsMissing ==
  /\ pc = "idle" /\ ~faults =>
       /\ route = "policies" =>
            \A c \in stayed :
              \/ c < readCount /\ array[c]["cur"] = Freq[PolicyOf[c]]["cur"]
              \/ c >= maxCount /\ status = "MORE_DATA"
       /\ route = "cpuinfo" /\ "cpuinfo" \in kernel =>
            \/ readCount >= Cardinality(stayed) /\ status = "NONE"
            \/ readCount = maxCount /\ status = "MORE_DATA"
  /\ pc = "idle" /\ status = "MORE_DATA" =>
       \/ route = "policies" /\ \E c \in ever : c >= maxCount
       \/ route = "cpuinfo" /\ Cardinality(ever) > maxCount
=============================================================================
