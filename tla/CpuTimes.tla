----------------------------- MODULE CpuTimes ------------------------------
(***************************************************************************)
(* CPU times on Linux (src/linux/cpu.c, src/cpu.c): a monitor takes one    *)
(* snapshot of /proc/stat after the other, of the whole machine or CPU by  *)
(* CPU, and compares each with the one before: delta, sum and utilization. *)
(*                                                                         *)
(* Times are jiffies: the division by sysconf(_SC_CLK_TCK) is the same for *)
(* every field and is left out.  user stands for system, nice, irq,        *)
(* softirq and steal too, guest for guest_nice.                            *)
(***************************************************************************)
EXTENDS Integers

CONSTANTS
  Cpus,        \* CPU numbers
  All,         \* the owner of the first line: all CPUs together
  Sizes,       \* lengths of the arrays monitors bring
  MaxTicks,    \* bound on the time all CPUs live
  MaxChanges   \* bound on hotplugs and reclassified jiffies

ASSUME CpusAreNumbered == Cpus \subseteq Nat /\ Cpus # {} /\ All \notin Cpus
ASSUME SizesAreNatural == Sizes \subseteq Nat
ASSUME BoundsAreNatural == MaxTicks \in Nat /\ MaxChanges \in Nat

Owners == Cpus \cup {All}
Fields == {"user", "guest", "idle", "iowait"}
Modes == Fields

VARIABLES
  \* the kernel
  online,
  times,    \* times[o][f]: jiffies owner o spent in f
  lived,    \* lived[o]: jiffies that passed for o
  worked,   \* worked[o]: those of them that were not idle
  changes,
  \* the monitor and its call
  kind,     \* "total" or "per_cpu"
  maxCount, \* max_count
  pc,
  todo,     \* CPUs whose lines are still to be read
  before,   \* the snapshot before
  after     \* the latest snapshot, the one a call is filling

account == <<times, lived, worked>>
machine == <<online, account, changes>>
monitor == <<kind, maxCount>>
vars == <<machine, monitor, pc, todo, before, after>>

Times(value) == [f \in Fields |-> value]
Zero == Times(0)
Untouched == -1  \* what the caller's memory held

\* A snapshot is what the call gave its caller (status, *read_count and the
\* slots) with what it was taken from: the owner of each slot and the machine
\* when the file was first read.
Machine == [online |-> online, times |-> times, lived |-> lived,
            worked |-> worked]
Fresh(n) ==
  [status |-> "NONE", count |-> Untouched,
   slots |-> [j \in 0 .. n - 1 |-> Times(Untouched)],
   owner |-> [j \in {} |-> All], seen |-> Machine]

Init ==
  /\ online = Cpus
  /\ times = [o \in Owners |-> Zero]
  /\ lived = [o \in Owners |-> 0]
  /\ worked = [o \in Owners |-> 0]
  /\ changes = 0
  /\ kind \in {"total", "per_cpu"}
  /\ maxCount \in IF kind = "total" THEN {1} ELSE Sizes
  /\ pc = "idle"
  /\ todo = {}
  /\ before = Fresh(maxCount)
  /\ after = Fresh(maxCount)

-----------------------------------------------------------------------------
\* The kernel

\* A jiffy passes on CPU c; one a guest used is in guest and in user.
Tick(c, mode) ==
  LET Charged == IF mode = "guest" THEN {"guest", "user"} ELSE {mode}
      busy == IF mode \in {"user", "guest"} THEN 1 ELSE 0
  IN /\ c \in online
     /\ lived[All] < MaxTicks
     /\ times' = [o \in Owners |-> [f \in Fields |->
                    IF o \in {c, All} /\ f \in Charged THEN times[o][f] + 1
                                                       ELSE times[o][f]]]
     /\ lived' = [o \in Owners |->
                    IF o \in {c, All} THEN lived[o] + 1 ELSE lived[o]]
     /\ worked' = [o \in Owners |->
                     IF o \in {c, All} THEN worked[o] + busy ELSE worked[o]]
     /\ UNCHANGED <<online, changes, monitor, pc, todo, before, after>>

\* What was shown as waiting turns out to be idle time, or the reverse: one
\* counter goes down.
Reclassify(c, from, to) ==
  /\ changes < MaxChanges
  /\ c \in online
  /\ times[c][from] > 0
  /\ times[All][from] > 0
  /\ changes' = changes + 1
  /\ times' = [o \in Owners |-> [f \in Fields |->
                 CASE o \in {c, All} /\ f = from -> times[o][f] - 1
                   [] o \in {c, All} /\ f = to -> times[o][f] + 1
                   [] OTHER -> times[o][f]]]
  /\ UNCHANGED <<online, lived, worked, monitor, pc, todo, before, after>>

GoOffline(c) ==
  /\ changes < MaxChanges
  /\ c \in online
  /\ online # {c}
  /\ changes' = changes + 1
  /\ online' = online \ {c}
  /\ UNCHANGED <<account, monitor, pc, todo, before, after>>

GoOnline(c) ==
  /\ changes < MaxChanges
  /\ c \in Cpus \ online
  /\ changes' = changes + 1
  /\ online' = online \cup {c}
  /\ UNCHANGED <<account, monitor, pc, todo, before, after>>

-----------------------------------------------------------------------------
\* The calls

\* The monitor keeps the latest snapshot for comparison and asks for another.
Call ==
  /\ pc = "idle"
  /\ pc' = "open"
  /\ before' = after
  /\ after' = Fresh(maxCount)
  /\ UNCHANGED <<machine, monitor, todo>>

Return(snapshot) ==
  /\ after' = snapshot
  /\ pc' = "idle"
  /\ todo' = {}
  /\ UNCHANGED <<machine, monitor, before>>

OpenFails ==
  /\ pc = "open"
  /\ Return([after EXCEPT !.status = "FILE_READ"])

Open ==
  /\ pc = "open"
  /\ pc' = "first"
  /\ UNCHANGED <<machine, monitor, todo, before, after>>

\* memset, and *read_count = 0
Cleared == [after EXCEPT !.count = 0,
                         !.slots = [j \in 0 .. maxCount - 1 |-> Zero],
                         !.seen = Machine]

\* The kernel writes the whole text when the file is first read.
ScanTotal ==
  /\ kind = "total"
  /\ pc = "first"
  /\ \/ Return([Cleared EXCEPT !.status = "MALFORMED"])
     \/ Return([Cleared EXCEPT !.count = 1,
                               !.slots = [j \in {0} |-> times[All]],
                               !.owner = [j \in {0} |-> All]])

NoSlots ==
  /\ kind = "per_cpu"
  /\ pc = "first"
  /\ maxCount = 0
  /\ Return([after EXCEPT !.status = "MORE_DATA"])

SkipFirstFails ==
  /\ kind = "per_cpu"
  /\ pc = "first"
  /\ maxCount # 0
  /\ Return([Cleared EXCEPT !.status = "MALFORMED"])

SkipFirst ==
  /\ kind = "per_cpu"
  /\ pc = "first"
  /\ maxCount # 0
  /\ after' = Cleared
  /\ todo' = online
  /\ pc' = "lines"
  /\ UNCHANGED <<machine, monitor, before>>

\* Fewer than four fields: scan_count < 4.
ShortLine ==
  /\ pc = "lines"
  /\ todo # {}
  /\ Return([after EXCEPT !.status = "MALFORMED"])

Extended(f, j, value) == [i \in DOMAIN f \cup {j} |->
                            IF i = j THEN value ELSE f[i]]

HasSpace_OffByOne(index) == index <= maxCount
HasSpace_TooStrict(index) == index + 1 < maxCount
HasSpace(index) == index < maxCount

\* Lines come in the order of the CPU numbers.
StoreLine(c) ==
  /\ pc = "lines"
  /\ c \in todo
  /\ \A d \in todo : c <= d
  /\ HasSpace(after.count)
  /\ after' = [after EXCEPT
                 !.slots = Extended(@, after.count, after.seen.times[c]),
                 !.owner = Extended(@, after.count, c),
                 !.count = @ + 1]
  /\ todo' = todo \ {c}
  /\ UNCHANGED <<machine, monitor, pc, before>>

NoSpace ==
  /\ pc = "lines"
  /\ todo # {}
  /\ ~HasSpace(after.count)
  /\ Return([after EXCEPT !.status = "MORE_DATA"])

LinesEnd ==
  /\ pc = "lines"
  /\ todo = {}
  /\ Return(after)

-----------------------------------------------------------------------------
\* What the monitor makes of two snapshots

\* Negative differences are clamped at zero.
Delta(old, new) ==
  [f \in Fields |-> IF new[f] > old[f] THEN new[f] - old[f] ELSE 0]

Sum_AddsGuest(t) == t["user"] + t["idle"] + t["iowait"] + t["guest"]
\* guest is in user already.
Sum(t) == t["user"] + t["idle"] + t["iowait"]

Ratio_WaitingIsWork(t) ==
  IF Sum(t) <= 0 THEN <<0, 1>> ELSE <<Sum(t) - t["idle"], Sum(t)>>
\* A fraction: numerator and denominator, the numerator kept in range.
Ratio(t) ==
  LET busy == Sum(t) - (t["idle"] + t["iowait"])
  IN CASE Sum(t) <= 0 -> <<0, 1>>
       [] Sum(t) > 0 /\ busy < 0 -> <<0, Sum(t)>>
       [] Sum(t) > 0 /\ busy > Sum(t) -> <<Sum(t), Sum(t)>>
       [] OTHER -> <<busy, Sum(t)>>

-----------------------------------------------------------------------------
KernelStep ==
  \E c \in Cpus :
    \/ \E mode \in Modes : Tick(c, mode)
    \/ Reclassify(c, "iowait", "idle")
    \/ Reclassify(c, "idle", "iowait")
    \/ GoOffline(c)
    \/ GoOnline(c)

CallStep ==
  \/ Call
  \/ OpenFails
  \/ Open
  \/ ScanTotal
  \/ NoSlots
  \/ SkipFirstFails
  \/ SkipFirst
  \/ ShortLine
  \/ \E c \in Cpus : StoreLine(c)
  \/ NoSpace
  \/ LinesEnd

Next == KernelStep \/ CallStep

Spec == Init /\ [][Next]_vars

-----------------------------------------------------------------------------
Statuses == {"NONE", "MORE_DATA", "MALFORMED", "FILE_READ"}
MachineType ==
  [online : SUBSET Cpus, times : [Owners -> [Fields -> Nat]],
   lived : [Owners -> Nat], worked : [Owners -> Nat]]

SnapshotOK(s) ==
  s \in [status : Statuses, count : {Untouched} \cup 0 .. maxCount,
         slots : [0 .. maxCount - 1 -> [Fields -> Int]],
         owner : [0 .. s.count - 1 -> Owners], seen : MachineType]

\* The counters and what a call hands out keep their types: nothing is
\* written past the caller's array (cpu.c:374) and *read_count stays within
\* it.
TypeOK ==
  /\ Machine \in MachineType
  /\ changes \in 0 .. MaxChanges
  /\ kind \in {"total", "per_cpu"}
  /\ maxCount \in Nat
  /\ pc \in {"idle", "open", "first", "lines"}
  /\ todo \in SUBSET Cpus
  /\ SnapshotOK(before)
  /\ SnapshotOK(after)

Listed(s) == {s.owner[j] : j \in DOMAIN s.owner}

\* A call that cleared its array leaves in it the lines of the lowest online
\* CPUs, in order, and zeroes; it says NONE only when that was every CPU and
\* MORE_DATA only when it was not (cpu.c:328-384).
SlotsAreTheSnapshot ==
  pc = "idle" /\ after.count # Untouched =>
    /\ \A j \in DOMAIN after.slots :
         after.slots[j] = IF j < after.count
                            THEN after.seen.times[after.owner[j]]
                            ELSE Zero
    /\ kind = "per_cpu" =>
         /\ \A i, j \in DOMAIN after.owner :
              i < j => after.owner[i] < after.owner[j]
         /\ Listed(after) \subseteq after.seen.online
         /\ \A c \in Listed(after), d \in after.seen.online :
              d < c => d \in Listed(after)
         /\ after.status = "NONE" => Listed(after) = after.seen.online
         /\ after.status = "MORE_DATA" =>
              after.count = maxCount /\ Listed(after) # after.seen.online

\* Slot j of both snapshots was filled, and from the same owner.
Paired(j) ==
  /\ j \in DOMAIN before.owner
  /\ j \in DOMAIN after.owner
  /\ before.owner[j] = after.owner[j]
DeltaOf(j) == Delta(before.slots[j], after.slots[j])
Lived(j) ==
  after.seen.lived[after.owner[j]] - before.seen.lived[before.owner[j]]
Worked(j) ==
  after.seen.worked[after.owner[j]] - before.seen.worked[before.owner[j]]
NothingFell(j) ==
  \A f \in Fields : after.slots[j][f] >= before.slots[j][f]

\* The sum of a delta is the time that passed for its owner: guest time is
\* not counted twice, and a counter that went down can only add to it
\* (src/cpu.c:49-71; cpu.h: "increase as the wall clock time multiplied by
\* the number of logical CPUs").
SumIsWallClock ==
  \A j \in 0 .. maxCount - 1 : Paired(j) =>
    /\ Sum(DeltaOf(j)) >= Lived(j)
    /\ NothingFell(j) => Sum(DeltaOf(j)) = Lived(j)

\* The utilization is a fraction from 0 to 1, never above the share of the
\* time its owner worked, and that share exactly when no counter went down
\* (src/cpu.c:73-93).
RatioIsBusyShare ==
  \A j \in 0 .. maxCount - 1 : Paired(j) =>
    LET ratio == Ratio(DeltaOf(j))
    IN /\ 0 <= ratio[1] /\ ratio[1] <= ratio[2] /\ 0 < ratio[2]
       /\ ratio[1] * Lived(j) <= Worked(j) * ratio[2]
       /\ NothingFell(j) => ratio[1] * Lived(j) = Worked(j) * ratio[2]
============================================================================
