------------------------------- MODULE PyProc -------------------------------
(***************************************************************************)
(* The process methods of the Python module                                *)
(* (bindings/python/src/proc.c, error.c) on top of the queries on Linux:   *)
(* cmdline and environ as in ProcStrings, the others as in LinuxProc.      *)
(*                                                                         *)
(* A method calls the library once and turns what it got into Python       *)
(* objects.  refs counts the references to the objects of the call: its    *)
(* result (a list, a dict, a wrapper or a value) and the items put in it.  *)
(* A program calls one method again and again.                             *)
(***************************************************************************)
EXTENDS ProcStrings, PyObjects

CONSTANTS
  Pids, Target, TextPlace, Letter, RParen, Newline, Names, PathLength,
  BufferLength, MaxStarts  \* of LinuxProc

ASSUME PidsAreNumbers ==
  Pids \subseteq Nat \ {0} /\ IsFiniteSet(Pids) /\ Target \in Pids
ASSUME TextPlaceIsAnOrder ==
  /\ TextPlace \in [Pids -> Nat]
  /\ \A p, q \in Pids : p # q => TextPlace[p] # TextPlace[q]
ASSUME CharactersDiffer ==
  /\ Letter # RParen /\ Letter # Newline /\ RParen # Newline
  /\ {Letter, RParen, Newline} \cap Nat = {}
ASSUME NamesAreText == Names \subseteq Seq({Letter, RParen, Newline} \cup Nat)
ASSUME LengthsArePositive == {BufferLength, PathLength} \subseteq Nat \ {0}
ASSUME BoundIsNatural == MaxStarts \in Nat

VARIABLES
  \* LinuxProc
  table, starts, stayed, everSeen, failed, query, step, file, seen, block,
  out, result,
  \* the method
  method,
  pyPc,
  refs,      \* references to objects
  slots,     \* items of the result, by slot or by name
  next,      \* the item to be converted
  given,     \* what the method returns: "NULL" or "object"
  exception  \* an exception is set

Query == INSTANCE LinuxProc

queryVars == <<table, starts, stayed, everSeen, failed, query, step, file,
               seen, block, out, result>>
object == <<refs, slots, next>>
pyVars == <<method, pyPc, object, given, exception>>
allVars == <<vars, queryVars, pyVars>>

TextMethods == {"cmdline", "environ"}
Containers == TextMethods \cup {"list_pids"}
Wrappers == {"memory_info", "cpu_times"}
Methods == TextMethods \cup Query!Queries

-----------------------------------------------------------------------------
\* A method, up to the call of the library

MethodCall ==
  /\ pyPc = "idle"
  /\ pyPc' = "parse"
  /\ UNCHANGED <<vars, queryVars, method, object, given, exception>>

ReturnNull ==
  /\ given' = "NULL"
  /\ exception' = TRUE
  /\ pyPc' = "returned"

\* PyArg_ParseTuple
Arguments ==
  /\ pyPc = "parse"
  /\ \/ /\ pyPc' = IF method \in Wrappers THEN "wrapper" ELSE "call"
        /\ UNCHANGED <<given, exception>>
     \/ /\ method # "list_pids"
        /\ ReturnNull
  /\ UNCHANGED <<vars, queryVars, method, object>>

NewWrapper ==
  /\ pyPc = "wrapper"
  /\ \/ /\ refs' = New(refs, Object)
        /\ pyPc' = "call"
        /\ UNCHANGED <<given, exception>>
     \/ /\ ReturnNull
        /\ UNCHANGED refs
  /\ UNCHANGED <<vars, queryVars, method, slots, next>>

CallLibrary ==
  /\ pyPc = "call"
  /\ pyPc' = "library"
  /\ IF method \in TextMethods THEN Call(method) /\ UNCHANGED queryVars
                               ELSE Query!Ask(method) /\ UNCHANGED vars
  /\ UNCHANGED <<method, object, given, exception>>

Library ==
  /\ pyPc = "library"
  /\ \/ CallStep /\ UNCHANGED queryVars
     \/ (Query!QueryStep \/ Query!Kernel) /\ UNCHANGED vars
  /\ UNCHANGED pyVars

-----------------------------------------------------------------------------
\* From what the library returned to the result

LibraryDone ==
  pyPc = "library" /\ IF method \in TextMethods THEN pc = "returned"
                                                ELSE step = "answered"
Code == IF method \in TextMethods THEN status ELSE result

\* procmetrix_free_pids, _free_proc_cmdline and _free_proc_environ
FreeNative ==
  IF method \in TextMethods THEN FreeResult /\ UNCHANGED queryVars
                            ELSE Query!Dismiss /\ UNCHANGED vars

\* py_procmetrix_error sets an exception for every code but NONE.
LibraryFailed ==
  /\ LibraryDone
  /\ Code # "NONE"
  /\ FreeNative
  /\ refs' = IF method \in Wrappers THEN Decref(refs, Object) ELSE refs
  /\ ReturnNull
  /\ UNCHANGED <<method, slots, next>>

\* PyBool, PyLong_FromUnsignedLong, PyUnicode_FromString; a wrapper is filled.
NewValue ==
  /\ LibraryDone
  /\ Code = "NONE"
  /\ method \notin Containers
  /\ FreeNative
  /\ \/ /\ refs' = IF method \in Wrappers THEN refs ELSE New(refs, Object)
        /\ given' = "object"
        /\ pyPc' = "returned"
        /\ UNCHANGED exception
     \/ /\ method \notin Wrappers \cup {"pid_exists"}
        /\ ReturnNull
        /\ UNCHANGED refs
  /\ UNCHANGED <<method, slots, next>>

NewContainer ==
  /\ LibraryDone
  /\ Code = "NONE"
  /\ method \in Containers
  /\ refs' = New(refs, Object)
  /\ pyPc' = "fill"
  /\ UNCHANGED <<vars, queryVars, method, slots, next, given, exception>>

NewContainerFails ==
  /\ LibraryDone
  /\ Code = "NONE"
  /\ method \in Containers
  /\ FreeNative
  /\ ReturnNull
  /\ UNCHANGED <<method, object>>

Count_OneShort ==
  CASE method = "cmdline" -> numTokens - 1
    [] method = "environ" -> IF env = NULL THEN 0 ELSE Len(env) - 1
    [] OTHER -> Len(out) - 1
Count ==
  CASE method = "cmdline" -> numTokens
    [] method = "environ" -> IF env = NULL THEN 0 ELSE Len(env)
    [] OTHER -> Len(out)

MoreItems == pyPc = "fill" /\ next <= Count

\* PyList_SetItem takes over the reference.
AddToList ==
  /\ MoreItems
  /\ method # "environ"
  /\ ~(method = "cmdline" /\ tokens[next] = NULL)
  /\ refs' = New(refs, Item(next))
  /\ slots' = With(slots, next, next)
  /\ next' = next + 1
  /\ UNCHANGED <<vars, queryVars, method, pyPc, given, exception>>

\* PyDict_SetItemString does not, and drops what was under the name before.
AddToDict_KeepsValue ==
  /\ MoreItems
  /\ method = "environ"
  /\ env[next].value # NULL
  /\ LET name == env[next].name
         stored == Incref(New(refs, Item(next)), Item(next))
     IN /\ refs' = IF name \in DOMAIN slots
                   THEN Decref(stored, Item(slots[name])) ELSE stored
        /\ slots' = With(slots, name, next)
  /\ next' = next + 1
  /\ UNCHANGED <<vars, queryVars, method, pyPc, given, exception>>

AddToDict ==
  /\ MoreItems
  /\ method = "environ"
  /\ env[next].value # NULL
  /\ LET name == env[next].name
         stored == Incref(New(refs, Item(next)), Item(next))
         alone == IF name \in DOMAIN slots
                  THEN Decref(stored, Item(slots[name])) ELSE stored
     IN /\ refs' = Decref(alone, Item(next))
        /\ slots' = With(slots, name, next)
  /\ next' = next + 1
  /\ UNCHANGED <<vars, queryVars, method, pyPc, given, exception>>

SkipVariable ==
  /\ MoreItems
  /\ method = "environ"
  /\ env[next].value = NULL
  /\ next' = next + 1
  /\ UNCHANGED <<vars, queryVars, method, pyPc, refs, slots, given, exception>>

\* No memory, or text that is not UTF-8.
AddFails ==
  /\ MoreItems
  /\ ~(method = "cmdline" /\ tokens[next] = NULL)
  /\ ~(method = "environ" /\ env[next].value = NULL)
  /\ refs' = DropObject(refs, slots)
  /\ slots' = None
  /\ exception' = TRUE
  /\ pyPc' = "free"
  /\ UNCHANGED <<vars, queryVars, method, next, given>>

\* PyUnicode_FromString of NULL
PyCrash ==
  /\ MoreItems
  /\ method = "cmdline"
  /\ tokens[next] = NULL
  /\ pyPc' = "crashed"
  /\ UNCHANGED <<vars, queryVars, method, object, given, exception>>

Filled ==
  /\ pyPc = "fill"
  /\ next > Count
  /\ pyPc' = "free"
  /\ UNCHANGED <<vars, queryVars, method, object, given, exception>>

FreeAndReturn ==
  /\ pyPc = "free"
  /\ FreeNative
  /\ given' = IF exception THEN "NULL" ELSE "object"
  /\ pyPc' = "returned"
  /\ UNCHANGED <<method, object, exception>>

\* Python drops the result and handles the exception.
Release ==
  /\ pyPc = "returned"
  /\ pyPc' = "idle"
  /\ refs' = None
  /\ slots' = None
  /\ next' = 1
  /\ exception' = FALSE
  /\ UNCHANGED <<vars, queryVars, method, given>>

-----------------------------------------------------------------------------
PyInit ==
  /\ Init
  /\ Query!Init
  /\ method \in Methods
  /\ call = IF method \in TextMethods THEN method ELSE "cmdline"
  /\ query = IF method \in TextMethods THEN "list_pids" ELSE method
  /\ pyPc = "idle"
  /\ refs = None
  /\ slots = None
  /\ next = 1
  /\ given = "NULL"
  /\ exception = FALSE

PyNext ==
  \/ MethodCall
  \/ Arguments
  \/ NewWrapper
  \/ CallLibrary
  \/ Library
  \/ LibraryFailed
  \/ NewValue
  \/ NewContainer
  \/ NewContainerFails
  \/ AddToList
  \/ AddToDict
  \/ SkipVariable
  \/ AddFails
  \/ PyCrash
  \/ Filled
  \/ FreeAndReturn
  \/ Release

PySpec == PyInit /\ [][PyNext]_allVars

-----------------------------------------------------------------------------
\* Properties

\* Types.
PyTypeOK ==
  /\ TypeOK
  /\ method \in Methods
  /\ pyPc \in {"idle", "parse", "wrapper", "call", "library", "fill", "free",
               "returned", "crashed"}
  /\ \A o \in DOMAIN refs : refs[o] > 0
  /\ \A k \in DOMAIN slots : Item(slots[k]) \in DOMAIN refs
  /\ next \in Nat \ {0}
  /\ given \in {"NULL", "object"}
  /\ exception \in BOOLEAN

\* A method returns NULL exactly if it set an exception, and then no object
\* of the call is left; otherwise its result and the items in it have one
\* reference each, and there are no others.  The memory of the library is
\* freed on every path, that of a list with an entry it could not parse too
\* (bindings/python/src/proc.c:26-64, 134-236, 310-338, error.c:4-43).
MethodsReturnCleanly ==
  /\ ResultOwnsTheHeap
  /\ pyPc = "returned" =>
       /\ given = "NULL" <=> exception
       /\ OnlyTheResult(refs, slots, ~exception)
       /\ heap = {} /\ ~block

\* A list that is returned holds every item of the library's in its place; a
\* dict every variable with a value, and of those with one name the last
\* (bindings/python/src/proc.c:48-60, 160-176, 209-231).
ResultIsTheAnswer ==
  pyPc = "free" /\ ~exception =>
    CASE method = "cmdline" -> slots = [i \in DOMAIN tokens |-> i]
      [] method = "environ" /\ env # NULL ->
           LET valued == {i \in DOMAIN env : env[i].value # NULL}
           IN /\ DOMAIN slots = {env[i].name : i \in valued}
              /\ \A i \in valued : slots[env[i].name] >= i
      [] method = "environ" /\ env = NULL -> slots = None
      [] OTHER -> slots = [i \in DOMAIN out |-> i]

\* See LinuxProc.
AnswersAreOfTheProcess == Query!AnswersAreOfTheProcess

\* See LinuxProc.
ListIsBracketed == Query!ListIsBracketed

\* See LinuxProc: "Gets the process' executable's full path."
\* (include/procmetrix/proc.h:57)
PathIsFull == Query!PathIsFull
=============================================================================
