# procmetrix in TLA+

procmetrix is a C library that answers questions about the machine and its
processes: how many CPUs, how fast, how much memory, which processes, with
which arguments. It keeps no state of its own between calls and starts no
thread. What makes it hard is what happens *around* a call: CPUs go offline
between two reads, files change under an open stream, a process exits, a
kernel table outgrows the buffer made for it, an allocation fails in the
middle of building a result. The Python bindings on top add a second kind of
bookkeeping, references and exceptions. These modules model the library's calls step by
step against such an environment.

## Parts of the system

| Part | Source | State it keeps during a call | Operations |
|---|---|---|---|
| Core topology list | `src/linux/core_topology.c` | capacity, length, block of (package, core) keys | init, add, sort, count unique, free |
| Core count | `src/linux/cpu.c:114-229, 522-557` | list, glob result, two streams, a pending pair of ids | topology walk, cpuinfo walk, fallback |
| Logical count | `src/linux/cpu.c:62-74, 231-268, 559-603` | two stream variables, a count | sysconf and two fallbacks |
| CPU frequencies | `src/linux/cpu.c:76-110, 389-518, 642-682` | caller's array, read count, status, streams | policy walk, cpuinfo walk |
| System frequency | `src/cpu.c:95-167` | CPU count, array, average | count, allocate, read, average, free |
| CPU times | `src/linux/cpu.c:42-60, 270-387`, `src/cpu.c:11-93` | caller's array | total, per CPU; delta, sum, ratio |
| Memory | `src/linux/mem.c` | fields seen so far, two streams | virtual memory, swap, watermark |
| Process strings | `src/linux/proc.c:19-131, 411-482`, `src/algo.c`, `src/proc.c:20-55` | growing read buffer, token array, variable array | read, split, free |
| Process queries | `src/linux/proc.c`, `src/posix/proc.c` | caller's buffers, a glob result, a block of ids | list, exists, parent, name, links, times, memory |
| sysctl with allocation | `src/freebsd/common.c` | block, capacity, attempts | estimate, reserve, read, retry |
| FreeBSD rest | `src/freebsd/*.c` | lists from libutil and libkvm | as above |
| Windows processes | `src/windows/proc.c` | handles, a snapshot, texts read from another process | as above |
| Windows rest | `src/windows/{cpu,mem}.c` | one buffer | as above |
| Python bindings | `bindings/python/src` | references, an array between Python and the library | one method per library call |

They interact by plain calls. The core count uses the list; the system
frequency counts CPUs with the logical count and then reads their frequencies;
command line and environment share one reader and one splitter; the Python
bindings call all of it and turn status codes into exceptions. There are no
callbacks, no messages and no shared memory. The other actor is always the
kernel (with everything it runs), and it may move between any two system calls.

What makes each part correct:

- *list*: inside its block whatever the growths; reports the number of
  different keys it accepted.
- *counts*: between what stayed online and what was ever online; zero only for
  a reason; every stream and block released on every path.
- *frequencies*: a slot is about its own CPU; nobody is left out silently;
  `MORE_DATA` means what it says; the average is that of all CPUs.
- *strings*: nothing of the file is lost or invented; what is left allocated is
  what the free functions find.
- *sysctl*: the kernel writes inside the block; one owner per block; the loop ends.
- *times*: a slot is about the CPU the order says; what two snapshots differ by
  is the time that passed and the work that was done, guest time counted once.
- *memory*: no subtraction that wraps, used and available add up, whatever lines
  the file has and in whatever order.
- *process queries*: an answer is about one process that had the ID; a list holds
  what ran all the time and nothing that never ran.
- *Windows processes*: no handle or block is left; existence is true of some
  moment of the call; a text is the one that lay where it was looked for, and
  nothing else is written where it does not belong when it was moved.
- *bindings*: each reference and array released exactly once; NULL comes with an
  exception; a list has every item the library gave.

## The modules

Every module models the calls of one part as one action per system call,
allocation or loop iteration, with a `pc` for the place in the code, so that
the environment's actions come in between. Blocks of memory are functions from
slots to contents, `NULL` is the block without slots, a stream is `closed`,
`open` or `stale`. Data is abstracted to what the properties distinguish;
control is not: an early return or failure path of the code is an action or a
disjunct, except these.

- Checks against NULL arguments and PID 0 that return before anything is touched.
- `jiffies_to_seconds` returning without a value when sysconf has no
  `_SC_CLK_TCK` (`src/linux/cpu.c:46-48`). `LinuxProc` has the error that the times
  of a process give then.
- A read error in the middle of `/proc/stat` in `CpuTimes`, where `fgets` gives
  NULL as at the end (`src/linux/cpu.c:343, 386`) and the list ends early. The kernel
  makes the whole text at the first read, whose failure is modelled. The logical
  count does have an end at any line.
- The guards for a free amount above the total (`src/linux/mem.c:195-199, 283-284`)
  are in `SystemMemory`, but `MemInfoOK` assumes a kernel that never makes them
  fire.

| Module | Models | Remarks |
|---|---|---|
| `DistinctCounter` | what the list promises | accept keys, report how many different ones, discard |
| `CoreTopoList` | the list as it is | memory with `size_t` wrap-around, garbage in fresh slots, `qsort` as *some* ordered permutation; implements `DistinctCounter` |
| `CpuHotplug` | the CPUs that come and go | the machine under the three modules that follow, each of which says what a hotplug leaves alone of its own state; external to the repository |
| `CpuCountPhysical` | core count | uses the list through `DistinctCounter`, whose use `CoreTopoListProofs` justifies |
| `CpuCountLogical` | logical count | the third source as the code has it: `CountedFile == cpuinfoFile`; its names (`logicalPc`, `failed`, `LogicalCall`, ...) differ from those of the core count so that one module can prove about both |
| `CpuFreqs` | frequencies per CPU | slots by CPU number (sysfs) or by order (cpuinfo); it has no specification of its own, the two below it do |
| `CpuFreqSystem` | system frequency | extends `CpuFreqs`; its own `sysPc` around the inner call |
| `PyCpu` | the Python methods about CPUs and memory | extends `CpuFreqSystem`; its own `pyPc` around the library's calls |
| `ProcStrings` | command line, environment, their free functions | the heap is the set of named blocks in use |
| `LinuxProc` | the process queries that read a line, follow a link or list `/proc` | processes start, exit and reuse IDs during a call |
| `PyProc` | the Python methods about processes | extends `ProcStrings` and instantiates `LinuxProc` |
| `PyObjects` | CPython's reference counts | shared by `PyProc` and `PyCpu`; external to the repository |
| `SystemMemory` | virtual memory and swap | a file is the function from its lines to their values, read in any order; words wrap |
| `WindowsProc` | every process query on Windows | handles and blocks are a set of names; a text is what the target keeps for the call |
| `SysctlAlloc` | the retry loop | the table changes at any time |
| `CpuTimes` | CPU times: snapshots, delta, sum, utilization | a monitor keeps the snapshot before; each snapshot remembers what it was taken from |
| `CoreTopoListProofs`, `SysctlAllocProofs`, `CpuTimesProofs`, `SystemMemoryProofs`, `CpuCountProofs`, `PyCpuProofs`, `WindowsProcProofs`, `PyProcProofs` | theorems | see below |
| `MC*` | constants for TLC | no definition of a specification is replaced |

Operators named `Definition_Variant` are deliberate mistakes (a dropped guard,
a missing release, an off-by-one) standing next to the definition they vary;
nothing uses them. Putting one in the place of its definition makes the
property `PROJECT.json` names for it fail, which shows that the property can.

### The environment

`CpuLeaves` and `CpuComes` change the set of CPUs at any moment, at most
`MaxHotplug` times, and never to none. An offline CPU has no topology files; a
stream open on one turns stale and reads nothing. `/proc/cpuinfo` and
`/proc/stat` list the CPUs online at the moment the reader gets to them, in
ascending order; an entry is written whole. `CpuTimes` has `/proc/stat` as the
kernel makes it, the whole text at the first read; the logical count allows more,
each line at its own moment. `affected_cpus` is printed at the
first read. Any open, read or allocation may fail; `faults` (and `failed`,
`refused`, `calm`) remember that one did, because several properties hold only when
nothing failed. `stayed` and `ever` are the CPUs that were online all through
the call and at some moment of it. These are history variables: no guard of
the library's actions reads them.

Processes do the same: in `LinuxProc` they start and exit at any moment of a
call, a new one may take the ID of one that is gone, and `born` tells the two
apart; the file of a process that is gone stays empty, whoever has its ID. Which
processes there are when a call begins is chosen anew each time, because nothing
of one call is left for the next. In `WindowsProc` a process that exited keeps
its ID while somebody has a handle to it, its exit code may be 259, which is
also `STILL_ACTIVE`, and the target may move and change a text between the read
of its place and the read of the text. What is read then is anything: characters of
a directory, or garbage for arguments and lines (`Garbage`).

`/proc/meminfo` shows any subset of the lines of current, old (`MemShared`) and
ancient (`Inact_dirty`, ...) kernels, and the second file is of another moment.
`MemInfoOK` states what is assumed of the kernel: parts are not above the whole,
no figure is shown under two names, and the sums the code forms fit 64 bits.

### Abstractions worth knowing

- Frequencies are whole numbers in sysfs's unit; the average is kept as a sum
  and a count, because the division loses nothing the properties speak of.
- Times are jiffies in four fields: user (with the other busy modes), guest,
  idle and iowait. A jiffy of a guest is charged to guest and user, as Linux
  does, and the kernel may move a jiffy between idle and iowait (its counters of
  the two are not monotone). The line of all CPUs is kept along with theirs.
  `lived` and `worked` count what passed and what was worked; no action of the
  library reads them, nor a snapshot's `owner` and `seen`.
- `cpu_times_per_cpu` stores lines one after the other, so that an index is a
  CPU's rank among those online: after CPU 0 went offline, CPU 1 is at index 0.
  The properties of `CpuTimes` pair two slots only when their owner is the same,
  and a monitor that subtracts by index has to make sure of that itself. With an
  empty array the call says `MORE_DATA` and leaves `*read_count` as it was.
- A core id is parsed modulo `SizeMax + 1`, as `%zu` does with a negative one.
- A read from a closed stream (logical count) is undefined behaviour; it is
  modelled as a nondeterministic stream that may end at any line.
- A failed `strndup` (`src/algo.c:77`) leaves a NULL line in a successful result.
  What reads it next, `strchr` or `PyUnicode_FromString`, is the action `Crash` or
  `PyCrash`, after which nothing happens. `py_proc` and `windows_proc` are checked
  without deadlock detection for this reason only (and for the next item).
- `readlink`'s -1 becomes the largest `size_t`, and the terminator goes to the
  byte before the buffer (`src/linux/proc.c:153-158`). What that byte is to the
  caller is unknown: the call returns success with an empty path, or crashes.
- `PyMem_Calloc` returns NULL without an exception, and so do the methods that
  use it (`bindings/python/src/cpu.c:163, 346, 410`); Python turns that into a
  `SystemError`. `MethodsReturnCleanly` names the methods that may do so.
- Of the figures of a process there is one of each kind, and a line is what it
  holds besides blanks: what the parser of `stat` can go wrong with is a name that
  looks like the fields after it, and such a name is among those of the run.
- `glob` reads `/proc` in the order of the IDs and then sorts the names as text,
  so that 10 comes before 2 in a list. `TextPlace` is that order, and `SortedAsText`
  applies it. No property demands an order of a list: each ID is there once.
- Of a Windows text only the characters the code treats specially are told apart:
  a backslash in a directory, a variable without a name in an environment, and the
  empty line that a NUL makes which ends no variable (`End`).
- The size of a Windows environment is that of its whole block, with the NULs after
  the last variable, and `procmetrix_split_zero_terminated_tokens` makes a line of
  each of them (`src/windows/proc.c:235-264`, `src/algo.c:55-81`). So each becomes a
  variable with an empty name and no value at the end of the result;
  `TextIsTheTargets` says so (`Ends(left)`). The test of the own environment
  (`tests/src/proc.cpp:263-300`) does not see it, because `getenv("")` has no value
  either. It is also why a whole block always has a variable: `NoVariables` happens
  only to garbage read after the target moved its block.
- `procmetrix_pid_exists` on Windows takes three things for an answer that are none:
  a refused list for "no", and for "yes" the exit code 259 and a refused exit code,
  also of a process that has exited and is kept by a handle
  (`src/windows/proc.c:281-323`). `ExistsIsTrue` names all three.
- With a buffer of one byte, `WideCharToMultiByte` is given no room and answers the
  size it would need; the terminator then goes to that place
  (`src/windows/proc.c:583-591`). `TextIsTheTargets` excepts this case.
- The ratios of memory are quotients of modelled fields and have no variable. For
  a machine without swap the code's is 0/0.
- `procmetrix_impl_bsd_sysctl_alloc` has no caller in the repository; the
  caller of the model keeps or frees what it gets.

## What the runs show

| Run | Instance | States | Shows |
|---|---|---|---|
| `core_topo_list` | 2 x 2 keys, 1 slot at first, 7 keys fit in a `size_t` | 4,139 | two doublings, the refused third, a wrapping product if the guard is gone |
| `count_physical` | 3 CPUs in 2 cores, 3 hotplugs | 75,311 | both routes, stale streams, shared cores, fallback, the two id lines in either order |
| `count_logical` | 4 CPUs, 3 hotplugs | 50,544 | CPUs leaving behind the reader and coming ahead of it |
| `py_cpu` | 3 CPUs in 2 interleaved policies, 2 hotplugs, lists of up to 2 to be averaged | 2,530,316 | holes, overflow in one policy and not the next, failed opens; hotplug between counting, allocating, reading and listing; every failing allocation |
| `py_proc` | files of up to 4 bytes over NUL, `=` and another, buffer 2 to 8; process IDs 2, 3 and 10, 2 starts, names with `)`, newline and digits | 180,859 | every chunking, empty and unterminated strings, names that come twice, IDs reused under an open file, lists read while processes come and go and sorted as text |
| `windows_proc` | 2 processes, 2 changes, 10 texts of up to 4 elements, 1 or 2 NULs after an environment, garbage of 1 or 2 elements, buffers of 1 to 5 | 1,053,416 | exits and moves between any two system calls, every failing call and allocation, the fallback to the list of processes, nameless and empty variables |
| `system_memory` | words of 6 bits, 2 bytes a KiB, 3 a page, 2 zones | 164,844 | every subset of the lines that count, every order, wrapping if a guard is gone |
| `sysctl_alloc` | tables of 0 to 9, 3 attempts | 7,180 | growth within and beyond the margin, blocks reused, attempts exhausted |
| `cpu_times` | 2 CPUs, 2 jiffies, 2 hotplugs or reclassifications, arrays of 0 to 2 | 609,694 | CPUs gone and back between snapshots, full and too short arrays, counters that fall |

The bounds are chosen so that the interesting case exists and the next larger
instance adds only repetition. Three CPUs are the fewest with two in one group
and one in another, a hole below a present CPU, and one to come or go; every
loop is over CPUs or policies independently, so more of them repeat the same
steps. Two or three hotplugs allow one to go and come back, or one behind and
one ahead of the reader. The strings use the bytes the code looks at and
one it does not, and files longer than two buffers. Three process IDs give a
listing one behind the reader, one ahead and the one under it, and with 10 among
them the order of a list is not that of the numbers; two starts let an
ID be given up and taken again twice, or once with another process coming in. On
Windows two changes are what moves a text and ends its process. Six bits hold
the largest sum of the memory run and not its double, so that a guard left out
shows as a number that wraps. Eight is the smallest table with
a margin. What does not depend on a small instance is proved (below).

Three runs are expected to find a violation; each states what a document or a
comment of the repository says:

- `count_logical_procstat` / `ProcstatIsCounted`: `src/linux/cpu.c:584-585`
  announces counting `/proc/stat`, line 591 passes the other file. When sysconf
  and `/proc/cpuinfo` fail the answer is 0.
- `freq_system_all` / `AverageOfAllCpus`: `include/procmetrix/cpu.h:159` promises
  the average of all CPUs. The array has as many slots as CPUs online but is
  indexed by CPU number, so with CPU 0 offline an empty slot is averaged and
  the last CPU dropped. `AverageIsSound` states when the promise holds.
- `py_proc_path` / `PathIsFull`: `include/procmetrix/proc.h:57` promises the full
  path. The test for a failed `readlink` never holds (`src/linux/proc.c:153-154`),
  so for a process that is gone the call succeeds with an empty path.

### Fairness

Liveness (`CallReturns` of `CpuCountPhysical`, whose readers chase files that
change, and of `SysctlAlloc`, whose loop retries) assumes weak fairness of the
steps of the call in progress and nothing else: the calling thread keeps being
scheduled. Nobody is obliged to call, CPUs need not come or go, tables need not
stand still. The steps are one thread's, so weak fairness of their disjunction
is exactly that.

## What is proved

With TLAPS, for every value of the constants that satisfies the modules'
assumptions.

`CoreTopoListProofs`: `TypeCorrect`, `NeverOverrun`, `NoGarbageRead` and
`ListCountsDistinct` (`CoreTopoList` implements `DistinctCounter`), for any sets
of natural ids, any initial capacity whose byte count fits, any key size and any
`SIZE_MAX`. The inductive invariant is `IInv == BlockOK /\ OrderOK /\ CountOK`:

- `FitsItsBlock` alone is not inductive: that a block of `reserved` keys has
  `reserved` slots needs `reserved * KeySize <= SizeMax`, so `BlockOK` carries
  that product. `DoublingFits` derives it for the doubled capacity from the
  guard at `core_topology.c:50`, `SlotsOfFittingRequest` turns it into slots.
- The count is right because the items stay in order while they are scanned
  (`OrderOK`) and `unique` is the number of different keys in the scanned part
  (`CountOK`). `NewRunMeansNewKey` is the heart: in an ordered block a key that
  differs from its neighbour occurs nowhere before, which rests on
  `CompareOrders` (the comparison is a total order, equal only for equal keys).
- `ListSortOK` shows that a permutation keeps the set of items.

`SysctlAllocProofs`: `TypeCorrect`, `NeverOverrun`, `OneOwner`, `MarginHolds` and
`CallReturnsInTime` (below), for any table bound and any number of attempts. The strengthening `InCallOK`
ties the size read with to the last estimate (`sizeNeeded = WithMargin(estimate)`),
says that an attempt is left, and that nothing has been handed out yet.

`CpuTimesProofs`: `TypeCorrect`, `SnapshotIsTrue`, `SumIsTime` and `RatioIsShare`,
for any set of CPU numbers, any array lengths and any amount of time. The
invariant `IInv` adds to the types

- `Books`: the kernel's accounting balances now and at the moment of each
  snapshot, and the three moments are in order. Without it a delta says nothing
  about time: `PairAddsUp` derives from it what the fields of a delta add up to.
- `Truthful`: a filled slot holds its owner's line of that moment.

`LInv` adds, for `SnapshotIsTrue`, that the lines still to be read are those of the
CPUs not yet listed and that the list is the lowest part of them in order
(`StoreLists` is the step that needs both). The ratio's bound comes from
`ProductIsMonotone`: the work divided by a sum at least as large as the time.

`SystemMemoryProofs`: `TypesHold`, `BooksAlwaysBalance`, `EstimateIsAlwaysExact`
and `LinesAreAlwaysRead`, for any word length, page size and files that satisfy
the assumptions about them. The properties
speak of the moment a call has answered; the invariant `IInv` carries them there:
`Collected` says that a field holds what the lines read so far show, zero if its
line is still to come, and `Progress` what is known at each place of the code: all
lines at `zones`, the right estimate at `usage`, the balanced books at `close`.
`WordArithmetic` and `SumFits` are where wrapping is excluded: every intermediate
result of the estimate lies between zero and the sum of its parts, except the last
subtraction, which the guard at `mem.c:184` protects (`EstimateKeeps`).
`FieldsInv` does the same for what is only passed on; for the watermarks it says
that those added up and those still to come make the whole sum, so that no
partial sum can wrap if the whole one does not (`ReadZoneFields`).

`CpuCountProofs`, about the core count: `TypeCorrect`, `NothingEverLeaks` and
`CountIsAlwaysBracketed`, for any CPUs, core and package ids (negative ones
included, which wrap) and number of hotplugs. `CountIsBracketed` says something
only when a call returns; `IInv` adds

- `Phases`: what is open, held and listed at each place of the code.
- `Honest`: a pending id is that of a CPU that was online during the call, so a
  key never enters the list that no core ever had (the upper bracket).
- `Complete`: a CPU that stayed online has its key in the list or is still ahead
  of the reader (`Ahead`), on either route (the lower bracket). An open stream
  of such a CPU cannot be stale; this is why the argument survives hotplugs.

The same module about the logical count: `LogicalTypeCorrect` and
`LogicalCountIsAlwaysBracketed`. `LogicalInv` adds

- `Observed`: the CPUs that stayed are online, those online were ever online.
- `Fallbacks`: which sources have failed at each place of the chain.
- `LinesCounted`: the lines counted so far are no more than the CPUs up to the
  reader's place that were ever online, and no fewer than those that stayed. A
  CPU that comes behind the reader, or leaves ahead of it, changes one side only
  (`LineCounts`).

The brackets come to more than the runs check. `NeverMoreCoresThanCpus`: however
ids wrap and whatever fails, the core count is at most the number of CPUs online at
some moment of the call. `CalmCountIsExact`: while no CPU comes or goes and neither
source but sysconf fails, the logical count is the number of CPUs online. That is
what `CpuFreqSystem` takes it for when it makes its array (`CountLogical`).

`CountReturnsInTime` and `LogicalCountReturnsInTime`, `CallReturnsInTime` in
`SysctlAllocProofs` and `FreqsReturnInTime` in `PyCpuProofs` are the safety half of
"the call returns". Each gives a natural number, `StepsLeft`, that every step of the
call lowers, that nothing the kernel does meanwhile changes, and that is zero
exactly when no call is in progress: 8 + 7N at the start of a core count on N CPUs,
5 + 2N of a logical count, three for each attempt at a kernel table; a policy takes
3 + F + N steps, with F files to read. With weak fairness of the call's steps, and
one of them possible as long as the call has not returned, this is what
`CallReturns` follows from; those two facts are beyond TLAPS here, and `CallReturns`
itself stays with TLC. The measures work because a file that changes still lists its
CPUs in ascending order: a CPU that comes behind the reader is not read, so the CPU
numbers ahead bound the lines to come (`FewerAfter`), not the CPUs online.

`PyCpuProofs`: `TypeCorrect`, `SlotsAreTrue`, `NobodyIsLeftOut`, `AverageHolds`,
`MethodsAreClean`, `ListsAreComplete` and `FreqsReturnInTime` (above), for any CPUs, policies, fields and
frequencies, about the whole stack: the Python methods, the system frequency and
the frequencies per CPU. The invariant `PyInv` has a layer for each. `FreqInv` is
that of `CpuFreqs`:

- `FreqPhases`: what is held, and which route is taken, at each place.
- `Truth`: besides `SlotsTellTheTruth`, that what was read of a policy belongs to
  it and that its `affected_cpus` are its own and were online.
- `Missing`: on the route through the policies a CPU that stayed online has its
  slot, or has none in the array, or is still `Ahead` (`Reached`); on the route
  through `/proc/cpuinfo` the number of entries lies between that of the CPUs up
  to the reader's place that stayed online and that of those ever online
  (`CountBetween`). `NoCpuIsMissing` alone is not inductive on either.
- `Undiminished`: on the second route, when no CPU came or went, the sum over the
  slots is that over the CPUs read, which is what the average is made of.

On top of it `AverageIsSound`, `Calls` (what a call for the frequencies was made
with, and that nothing moved if nothing was disturbed), `PyPhases` and `Objects`
(each object of the method has its one reference, each item its slot). The sums
and the release of a list are folds, which go through a set in an unknown order.
`TakenOut` and `ListDropped` show that the order does not matter.

`WindowsProcProofs`: `TypeCorrect`, `OnlyResultsAreHeld`, `ListsAreSnapshots`,
`TextsAreTheTargets` and the action property `ExistenceIsTrue`, for any processes,
texts and buffers. `IInv` adds `Phases` (the handles and blocks held at each place;
a result's are the caller's), `Listing` (a snapshot holds every process that ran
all the time and none that never ran, each once) and `Reading` (what was read, unless
it moved, is the text that lay there when its place was read, followed by what is
left of its block). `FrontAndMark` and `ValidIsTheRest` are what the code does to a
path's trailing backslash and to an environment's lines, and `SomethingIsLeft` is
why the nameless lines it skips are lines of the environment and not its end.

`PyProcProofs`: `TypesAreRight`, `NoByteIsLost`, `OneProcessAnswers`,
`ListsAreBracketed`, `MethodsLeaveOnlyResults` and `ResultsAreAnswers`, for any
bytes, file, buffer, processes and names, about the Python methods, the queries
(`LinuxProc`) and the command lines and environments (`ProcStrings`) below them.
Each part has an invariant of its own, and `PartsStep` shows that a step of a
method is a step, or none, of each:

- `StringsInv` says which blocks there are at each point of a call (`Held`),
  what the counters say of each other (`Counted`) and what the lists hold of the
  file (`Whole`): the tokens so far, each with its NUL, are the part of the buffer
  already split. The heart is `TokenIsNext`, for a token that ends at a NUL and
  for one that ends with the file; `TokensAreFew` is why the array that the
  counting loop sized is never overrun, and is filled exactly.
- `QueryInv` says what a query knows while processes start, exit and take over
  IDs: whose file is open, and that a process that was there all the time is in
  the list or still ahead of the reader; `SortedIsTheSame` is why sorting neither
  loses nor doubles one. `FieldsBehind` is why a parenthesis in a
  name does not matter, and `NameRead` and `CutIsStart` why a name cut to the
  buffer is the start of the name.
- `MethodInv` says where both are at each point of a method (`Phases`), which
  references there are (`Objects`) and what the result holds so far (`Filling`).
  `NamedItem` is the dict, in which an item may replace one of the same name.
  `ResultDropped` is the release of a result in an unknown order, for which
  `Filling` has to say that no item is under two names.

`ResultOwnsTheHeap`, `MethodsReturnCleanly` and `ResultIsTheAnswer` are not
inductive: each speaks of the end of a call only.

Induction over the library's folds, in `PyCpuProofs`, `PyProcProofs` and
`SystemMemoryProofs`, and over the concatenation of a list of strings, is
stated with sets of numbers: a set with 0 and each successor is all of `Nat`
(`AllNumbers`, from the least number of what would be missing). The library's own
induction theorems take an operator as a parameter, which the installed provers
cannot instantiate.

Assumptions used: what `MemInfoOK` says of the kernel; that the low watermarks
together, in bytes, fit 64 bits; ids are naturals (integers where the code wraps
them); the first block's byte count fits in a `size_t`; `Garbage` of the list is no key,
`Unknown` no number and `NULL` no string; the characters `LinuxProc` tells apart
are different and no numbers, and no two IDs are the same as text (`TextPlace`); a
text is not made of what follows it (`End`), and something follows an environment;
the sets of CPUs, policies, scaling files and processes are finite, each CPU
has a policy, and frequencies are positive; CPU numbers, buffer capacities and
bounds are naturals. TLC evaluates all of them in the runs.

Every invariant and every action property the runs check is the statement of one
of these theorems. Only model-checked:

- The two `CallReturns`: they rest on fairness and on what is enabled, which TLAPS
  cannot use here. Their measures are proved (above).
- What the three runs that find a violation show: a counterexample is a behaviour
  of a small instance.

## What is not modelled

Parsing of lines and formatting of paths beyond what they mean; conversions of
units; NULL-argument checks and PID 0, which is refused at once. Of FreeBSD only the
retry loop: the other calls are one system or library call each. Of Windows the
CPU and memory queries, for the same reason; one hazard of theirs is listed (an
error code returned as a number of cores, `src/windows/cpu.c:29`). Of the bindings the
getters of the wrapper types, `get_pid` and the registration of types and methods
when the module is loaded (`init.c`). The difference and sum of process times
(`src/proc.c:59-94`) are two formulas without state. The public headers, the version
functions and the build have no behaviour to model.

## Plan

Done, in this order: the list and its proof; the physical count that uses it;
frequencies and the system frequency built on them; the logical count; process
strings; sysctl; CPU times; memory and its proof; process queries on Linux; the
bindings on top of strings, queries and frequencies; process queries on Windows.

Next:

1. The loading of the Python module: types registered, and released when a later
   registration fails.
2. The FreeBSD lists of processes, files and CPU times: ownership of what libutil
   and sysctl allocate.
3. A measure like those of the counts for the growing buffer of the process strings.
