------------------------------- MODULE PyCpu --------------------------------
(***************************************************************************)
(* The machine's methods of the Python module                              *)
(* (bindings/python/src/cpu.c, mem.c) on top of the frequencies on Linux.  *)
(* Those that return a list count the CPUs, allocate an entry for each,    *)
(* read them and make a list of what was read: four moments, with CPUs     *)
(* coming and going in between.  Those that return one wrapper allocate it *)
(* and have it filled, cpu_freq_system by CpuFreqSystem.                   *)
(*                                                                         *)
(* A program calls one method again and again.  Of what the library reads  *)
(* elsewhere, times and memory, only its status and its number of entries  *)
(* matter here.                                                            *)
(***************************************************************************)
EXTENDS CpuFreqSystem, PyObjects

CONSTANT MaxList  \* bound on the list of frequencies to be averaged

ASSUME ListIsBounded == MaxList \in Nat

VARIABLES
  method, pyPc,
  refs, slots,  \* see PyObjects
  native,       \* the array of PyMem_Calloc is allocated
  items,        \* entries in it: read_count, or the length of the argument
  given,        \* what the method returns: "NULL" or "object"
  exception     \* why, or "none": a code of the library, or Python's own

pyVars == <<method, pyPc, refs, slots, native, items, given, exception>>
allVars == <<vars, pyVars>>

Counts == {"cpu_count_physical", "cpu_count_logical"}
Lists == {"cpu_freqs", "system_cpu_times_per_cpu"}
Reads == {"cpu_freq_system", "system_cpu_times_total",
          "system_virtual_memory", "system_swap_memory"}
Figures == {"cpu_times_sum", "cpu_utilization_ratio"}
Takers == Figures \cup {"cpu_times_delta", "cpu_freqs_average"}
Methods == Counts \cup Lists \cup Reads \cup Takers

\* calm is about the library's call, or the whole of a method with a list.
MethodCall ==
  /\ pyPc = "idle"
  /\ pyPc' = CASE method \in Counts -> "number"
               [] method \in Lists -> "count"
               [] method \in Reads -> "wrapper"
               [] OTHER -> "parse"
  /\ calm' = (calm \/ method \in Lists)
  /\ items' = 0
  /\ UNCHANGED <<freqVars, sysPc, ncpus, heap, sysStatus, average, method,
                 refs, slots, native, given, exception>>

\* py_procmetrix_error, or an exception of Python's.
Raise(code) ==
  /\ given' = "NULL"
  /\ exception' = code
  /\ pyPc' = "returned"

Give ==
  /\ given' = "object"
  /\ pyPc' = "returned"
  /\ UNCHANGED exception

-----------------------------------------------------------------------------
\* Arguments and numbers

\* PyArg_ParseTuple, and PyObject_IsInstance or PyList_Check
ParseArguments ==
  /\ pyPc = "parse"
  /\ \/ /\ pyPc' = CASE method \in Figures -> "number"
                     [] method = "cpu_freqs_average" -> "array"
                     [] OTHER -> "wrapper"
        /\ UNCHANGED <<given, exception>>
     \/ \E code \in {"python", "INVALID_ARGUMENT"} : Raise(code)
  /\ UNCHANGED <<vars, method, refs, slots, native, items>>

\* PyLong_FromUnsignedLongLong and PyFloat_FromDouble
NewNumber ==
  /\ pyPc = "number"
  /\ \/ refs' = New(refs, Object) /\ Give
     \/ Raise("python") /\ UNCHANGED refs
  /\ UNCHANGED <<vars, method, slots, native, items>>

-----------------------------------------------------------------------------
\* The array between Python and the library

CountCpus ==
  /\ pyPc = "count"
  /\ \/ /\ ncpus' = Cardinality(online)
        /\ pyPc' = "array"
        /\ UNCHANGED <<given, exception>>
     \/ /\ ncpus' = 0
        /\ Raise("UNKNOWN")
  /\ UNCHANGED <<freqVars, sysPc, heap, sysStatus, average, calm, method,
                 refs, slots, native, items>>

AllocateArray ==
  /\ pyPc = "array"
  /\ native' = TRUE
  /\ IF method = "cpu_freqs" THEN CallWith(ncpus) ELSE UNCHANGED freqVars
  /\ pyPc' = IF method \in Lists THEN "read" ELSE "copy"
  /\ UNCHANGED <<sysVars, method, refs, slots, items, given, exception>>

\* PyMem_Calloc sets no exception: Python makes a SystemError of it.
AllocateArrayFails ==
  /\ pyPc = "array"
  /\ Raise("none")
  /\ UNCHANGED <<vars, method, refs, slots, native, items>>

\* The items of the list to be averaged are copied one by one, and the first
\* that is no SystemCpuFreq ends it.
CopyItems ==
  /\ pyPc = "copy"
  /\ \/ /\ items' \in 0 .. MaxList
        /\ pyPc' = "wrapper"
        /\ UNCHANGED <<native, given, exception>>
     \/ /\ native' = FALSE
        /\ Raise("INVALID_ARGUMENT")
        /\ UNCHANGED items
  /\ UNCHANGED <<vars, method, refs, slots>>

-----------------------------------------------------------------------------
\* Methods that return one wrapper

NewWrapper ==
  /\ pyPc = "wrapper"
  /\ \/ /\ refs' = New(refs, Object)
        /\ pyPc' = "read"
        /\ UNCHANGED <<native, given, exception>>
     \/ /\ native' = FALSE
        /\ Raise("python")
        /\ UNCHANGED refs
  /\ UNCHANGED <<vars, method, slots, items>>

\* The wrapper is returned if the library filled it.
Conclusion(code) ==
  /\ native' = FALSE
  /\ IF code = "NONE"
     THEN Give /\ UNCHANGED refs
     ELSE Raise(code) /\ refs' = Decref(refs, Object)
  /\ UNCHANGED <<method, slots, items>>

ReadWrapper ==
  /\ pyPc = "read"
  /\ method \in Reads \ {"cpu_freq_system"}
  /\ \E code \in {"NONE", "FILE_READ", "MALFORMED"} : Conclusion(code)
  /\ UNCHANGED vars

\* Neither can fail but for an average of nothing.
Compute ==
  /\ pyPc = "read"
  /\ \/ method = "cpu_times_delta" /\ Conclusion("NONE")
     \/ /\ method = "cpu_freqs_average"
        /\ Conclusion(IF items = 0 THEN "INVALID_ARGUMENT" ELSE "NONE")
  /\ UNCHANGED vars

CallSystem ==
  /\ pyPc = "read"
  /\ method = "cpu_freq_system"
  /\ SystemCall
  /\ pyPc' = "system"
  /\ UNCHANGED <<method, refs, slots, native, items, given, exception>>

InSystem ==
  /\ pyPc = "system"
  /\ SystemStep
  /\ UNCHANGED pyVars

SystemReturns ==
  /\ pyPc = "system" /\ sysPc = "idle"
  /\ Conclusion(sysStatus)
  /\ UNCHANGED vars

-----------------------------------------------------------------------------
\* Methods that return a list

ReadEntries ==
  /\ pyPc = "read"
  /\ method = "cpu_freqs"
  /\ CallStep
  /\ calm' = (calm /\ ~faults')
  /\ UNCHANGED <<sysPc, ncpus, heap, sysStatus, average, pyVars>>

\* Any status but NONE, MORE_DATA with all the others it brings included,
\* becomes an exception.
EntriesRead(code, count) ==
  /\ items' = count
  /\ IF code = "NONE"
     THEN pyPc' = "list" /\ UNCHANGED <<native, given, exception>>
     ELSE native' = FALSE /\ Raise(code)
  /\ UNCHANGED <<vars, method, refs, slots>>

FreqsRead ==
  /\ pyPc = "read" /\ pc = "idle"
  /\ method = "cpu_freqs"
  /\ EntriesRead(status, readCount)

\* procmetrix_cpu_times_per_cpu: one entry for each CPU that is online.
TimesFit_OffByOne == Cardinality(online) < ncpus
TimesFit == Cardinality(online) <= ncpus

TimesRead ==
  /\ pyPc = "read"
  /\ method = "system_cpu_times_per_cpu"
  /\ \/ TimesFit /\ EntriesRead("NONE", Cardinality(online))
     \/ ~TimesFit /\ EntriesRead("MORE_DATA", ncpus)
     \/ \E code \in {"FILE_READ", "MALFORMED"} : EntriesRead(code, 0)

NewList ==
  /\ pyPc = "list"
  /\ \/ /\ refs' = New(refs, Object)
        /\ pyPc' = "fill"
        /\ UNCHANGED <<native, given, exception>>
     \/ /\ native' = FALSE
        /\ Raise("python")
        /\ UNCHANGED refs
  /\ UNCHANGED <<vars, method, slots, items>>

NextItem == Cardinality(DOMAIN slots) + 1

\* PyList_SetItem takes over the reference.
AddItem ==
  /\ pyPc = "fill"
  /\ NextItem <= items
  /\ refs' = New(refs, Item(NextItem))
  /\ slots' = With(slots, NextItem, NextItem)
  /\ UNCHANGED <<vars, method, pyPc, native, items, given, exception>>

AddItemFails_KeepsArray ==
  /\ pyPc = "fill"
  /\ NextItem <= items
  /\ refs' = DropObject(refs, slots)
  /\ slots' = None
  /\ Raise("python")
  /\ UNCHANGED <<vars, method, native, items>>

AddItemFails ==
  /\ pyPc = "fill"
  /\ NextItem <= items
  /\ refs' = DropObject(refs, slots)
  /\ slots' = None
  /\ native' = FALSE
  /\ Raise("python")
  /\ UNCHANGED <<vars, method, items>>

ListFilled ==
  /\ pyPc = "fill"
  /\ NextItem > items
  /\ native' = FALSE
  /\ Give
  /\ UNCHANGED <<vars, method, refs, slots, items>>

-----------------------------------------------------------------------------
\* Python drops the result and handles the exception.
Release ==
  /\ pyPc = "returned"
  /\ pyPc' = "idle"
  /\ refs' = None
  /\ slots' = None
  /\ exception' = "none"
  /\ UNCHANGED <<vars, method, native, items, given>>

Machine == SystemHotplug /\ UNCHANGED pyVars

PyInit ==
  /\ SystemInit
  /\ method \in Methods
  /\ pyPc = "idle"
  /\ refs = None
  /\ slots = None
  /\ native = FALSE
  /\ items = 0
  /\ given = "NULL"
  /\ exception = "none"

PyNext ==
  \/ Machine
  \/ MethodCall
  \/ ParseArguments
  \/ NewNumber
  \/ CountCpus
  \/ AllocateArray
  \/ AllocateArrayFails
  \/ CopyItems
  \/ NewWrapper
  \/ ReadWrapper
  \/ Compute
  \/ CallSystem
  \/ InSystem
  \/ SystemReturns
  \/ ReadEntries
  \/ FreqsRead
  \/ TimesRead
  \/ NewList
  \/ AddItem
  \/ AddItemFails
  \/ ListFilled
  \/ Release

PySpec == PyInit /\ [][PyNext]_allVars

-----------------------------------------------------------------------------
\* Properties

\* Types; the library is idle whenever the method is not in one of its calls.
PyTypeOK ==
  /\ SystemTypeOK
  /\ method \in Methods
  /\ pyPc \in {"idle", "parse", "number", "count", "array", "copy", "wrapper",
               "read", "system", "list", "fill", "returned"}
  /\ pyPc # "system" => sysPc = "idle"
  /\ pyPc \notin {"read", "system"} => pc = "idle"
  /\ \A o \in DOMAIN refs : refs[o] > 0
  /\ \A k \in DOMAIN slots : Item(slots[k]) \in DOMAIN refs
  /\ native \in BOOLEAN
  /\ items \in 0 .. Max({MaxList, Cardinality(Cpus)})
  /\ given \in {"NULL", "object"}
  /\ exception \in {"none", "python", "UNKNOWN", "INVALID_ARGUMENT",
                    "MORE_DATA", "FILE_READ", "MALFORMED", "OUT_OF_MEMORY"}

\* A method that fails leaves no object, no array and no stream or glob
\* result of the library; one that succeeds leaves its result and one
\* reference to each item in it.  NULL means an exception, except where
\* PyMem_Calloc failed, and an exception means NULL
\* (bindings/python/src/cpu.c:120-474, mem.c:107-239, error.c:4-43).
MethodsReturnCleanly ==
  pyPc = "returned" =>
    /\ OnlyTheResult(refs, slots, given = "object")
    /\ ~native /\ heap = {} /\ held = {}
    /\ given = "NULL" /\ exception = "none" =>
         method \in Lists \cup {"cpu_freqs_average"}
    /\ exception # "none" => given = "NULL"

\* A list has an item for every entry read.  If nothing came, went or failed
\* since the CPUs were counted, that is one for every CPU online, and "more
\* data" is raised only for frequencies by policy where the numbers of the
\* CPUs have a gap (bindings/python/src/cpu.c:150-205, 338-392).
ListsEveryCpu ==
  pyPc = "returned" /\ method \in Lists =>
    /\ given = "object" =>
         /\ DOMAIN slots = 1 .. items /\ items <= ncpus
         /\ calm /\ (method = "cpu_freqs" => kernel # {}) =>
              items = Cardinality(online)
    /\ exception = "MORE_DATA" /\ calm =>
         method = "cpu_freqs" /\ route = "policies" /\ ~Numbered
=============================================================================
