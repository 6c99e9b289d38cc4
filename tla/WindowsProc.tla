---------------------------- MODULE WindowsProc ----------------------------
(***************************************************************************)
(* The process queries on Windows (src/windows/proc.c), one call at a time *)
(* about process Target, while processes start, exit and change what is    *)
(* asked about.                                                            *)
(*                                                                         *)
(* A text is what the target keeps for the call, as a sequence: the        *)
(* characters of its working directory, its arguments, or the lines of its *)
(* environment.  A Mark is what the code treats specially in it: a         *)
(* backslash, or a line without a name before its '='.  An End is the      *)
(* empty line that a NUL makes which ends no line of an environment.  One  *)
(* wide character is one narrow one.  The heap and the handles in use are  *)
(* a set of names.                                                         *)
(***************************************************************************)
EXTENDS Integers, FiniteSets, SequencesExt

CONSTANTS
  Pids, Target,  \* process IDs other than 0; the one asked about
  Mark, Other,   \* elements of texts
  Texts,         \* texts: sequences of them
  End,           \* what follows an environment in its block
  Paddings,      \* how often
  Garbage,       \* what may lie where a text was, as lines or arguments
  Capacities,    \* dst_len of procmetrix_get_proc_cwd
  MaxChanges     \* bound on what other processes do

ASSUME TargetIsOne == Target \in Pids /\ IsFiniteSet(Pids)
ASSUME ElementsDiffer == Mark # Other /\ End \notin {Mark, Other}
ASSUME SizesArePositive ==
  Capacities \subseteq Nat \ {0} /\ Paddings \subseteq Nat \ {0}
ASSUME TextsAreSequences ==
  /\ Texts \subseteq Seq({Mark, Other})
  /\ Garbage \subseteq Seq({Mark, Other, End})
ASSUME BoundIsNatural == MaxChanges \in Nat

VARIABLES
  \* the machine
  table,    \* table[p]: p is free, running, or an exited process
  text,     \* of the target
  changes,
  \* history of the call
  stayed,   \* processes that ran all the time
  appeared, \* processes that ran at some time
  original, \* the target's text when its place was read
  refused,  \* the process list, or an exit code, was refused
  \* the call
  call, pc,
  held,     \* handles and blocks
  snapshot, \* process IDs of the snapshot handle
  length,   \* read_param.nbytes, or num_procs
  moved,    \* before it was read, the text went elsewhere
  buffer,   \* read_param.buf
  answer,
  status

machine == <<table, text, changes>>
history == <<stayed, appeared, original, refused>>
vars == <<machine, history, call, pc, held, snapshot, length, moved, buffer,
          answer, status>>

Ends(n) == [i \in 1 .. n |-> End]
Running == {p \in Pids : table[p] = "running"}

\* STILL_ACTIVE is 259, and nothing keeps a process from exiting with it.
Exited == {"exited", "exited259"}

TextCalls == {"cwd", "cmdline", "environ"}
CounterCalls == {"exe", "name", "memory_info", "cpu_times"}
Calls == TextCalls \cup CounterCalls \cup {"pid_exists", "parent_pid",
                                           "list_pids"}
No == [found |-> FALSE]

\* Names of handles and blocks; a variable stands for its name and its value,
\* wide arguments and lines for their array and all of them.
Process == <<"process", 0>>
Snapshot == <<"snapshot", 0>>
Param == <<"param", 0>>
WideArgs == <<"wide", 0>>
Narrow == <<"narrow", 0>>
Lines == <<"lines", 0>>
PidArray == <<"pids", 0>>
ArgArray == <<"argv", 0>>
VarArray == <<"vars", 0>>
Arg(i) == <<"arg", i>>
Var(i) == <<"var", i>>

-----------------------------------------------------------------------------
\* The machine

Change == changes < MaxChanges /\ changes' = changes + 1
Calling == <<call, pc, held, snapshot, length, buffer, answer, status>>
Remembered == <<original, refused>>

Start(p) ==
  /\ Change
  /\ table[p] = "free"
  /\ table' = [table EXCEPT ![p] = "running"]
  /\ appeared' = appeared \cup {p}
  /\ UNCHANGED <<text, stayed, Remembered, moved, Calling>>

\* Its handle keeps a process and its ID from being freed.
Exit(p) ==
  /\ Change
  /\ table[p] = "running"
  /\ \E state \in Exited \cup {"free"} :
       /\ p = Target /\ Process \in held => state \in Exited
       /\ table' = [table EXCEPT ![p] = state]
  /\ stayed' = stayed \ {p}
  /\ UNCHANGED <<text, appeared, Remembered, moved, Calling>>

Reap(p) ==
  /\ Change
  /\ table[p] \in Exited
  /\ ~(p = Target /\ Process \in held)
  /\ table' = [table EXCEPT ![p] = "free"]
  /\ UNCHANGED <<text, history, moved, Calling>>

\* The target changes directory, or sets a variable: in another place.
Rewrite ==
  /\ Change
  /\ table[Target] = "running"
  /\ text' \in Texts \ {text}
  /\ moved' = (moved \/ pc = "data")
  /\ UNCHANGED <<table, history, Calling>>

-----------------------------------------------------------------------------
\* Calls and returns

Call(which) ==
  /\ pc = "idle"
  /\ call' = which
  /\ pc' = CASE which = "list_pids" -> "snapshot"
             [] which \in TextCalls -> "openRead"
             [] OTHER -> "openLimited"
  /\ stayed' = Running
  /\ appeared' = Running
  /\ original' = <<>>
  /\ refused' = FALSE
  /\ moved' = FALSE
  /\ answer' = No
  /\ buffer' = <<>>
  /\ length' = 0
  /\ snapshot' = <<>>
  /\ status' = "NONE"
  /\ UNCHANGED <<machine, held>>

\* What is done at the end of every call, early or not.
ReturnWith(code, value, keeps) ==
  /\ status' = code
  /\ answer' = value
  /\ held' = keeps
  /\ pc' = "returned"

Local == <<snapshot, length, moved, buffer>>

\* The functions of src/proc.c that free results walk the answer.
Result ==
  CASE call = "list_pids" /\ answer.found -> {PidArray}
    [] call = "cmdline" /\ answer.found ->
         {ArgArray} \cup {Arg(i) : i \in DOMAIN answer.value}
    [] call = "environ" /\ answer.found ->
         {VarArray} \cup {Var(i) : i \in DOMAIN answer.value}
    [] OTHER -> {}

FreeResult ==
  /\ pc = "returned"
  /\ pc' = "idle"
  /\ held' = held \ Result
  /\ UNCHANGED <<machine, history, call, Local, answer, status>>

-----------------------------------------------------------------------------
\* procmetrix_pid_exists, procmetrix_get_proc_parent_pid and the calls that
\* ask a handle one question

Existing(yes) == [found |-> TRUE, value |-> yes]

OpenLimited ==
  /\ pc = "openLimited"
  /\ table[Target] # "free"
  /\ held' = held \cup {Process}
  /\ pc' = "query"
  /\ UNCHANGED <<machine, history, call, Local, answer, status>>

\* ERROR_INVALID_PARAMETER: no such process.
OpenFindsNone ==
  /\ pc = "openLimited"
  /\ table[Target] = "free"
  /\ IF call = "pid_exists" THEN ReturnWith("NONE", Existing(FALSE), held)
                            ELSE ReturnWith("UNKNOWN", No, held)
  /\ UNCHANGED <<machine, history, call, Local>>

\* Any other error: the list of processes must tell.
OpenDenied ==
  /\ pc = "openLimited"
  /\ table[Target] # "free"
  /\ IF call \in {"pid_exists", "parent_pid"}
     THEN pc' = "snapshot" /\ UNCHANGED <<held, answer, status>>
     ELSE ReturnWith("UNKNOWN", No, held)
  /\ UNCHANGED <<machine, history, call, Local>>

StillActive_AnyHandle == TRUE
StillActive == table[Target] \in {"running", "exited259"}

\* GetExitCodeProcess; whether it is denied is asked of no exit code.
QueryExists ==
  /\ pc = "query"
  /\ call = "pid_exists"
  /\ \/ /\ ReturnWith("NONE", Existing(StillActive), held \ {Process})
        /\ UNCHANGED refused
     \/ /\ ReturnWith("NONE", Existing(TRUE), held \ {Process})
        /\ refused' = TRUE
     \/ /\ pc' = "snapshot"
        /\ UNCHANGED <<refused, held, answer, status>>
  /\ UNCHANGED <<machine, stayed, appeared, original, call, Local>>

\* NtQueryInformationProcess, QueryFullProcessImageName (with strncpy_s for
\* the name), GetProcessMemoryInfo, GetProcessTimes.
Query ==
  /\ pc = "query"
  /\ call # "pid_exists"
  /\ \/ ReturnWith("NONE", Existing(Target), held \ {Process})
     \/ ReturnWith("UNKNOWN", No, held \ {Process})
     \/ call = "name" /\ ReturnWith("MORE_DATA", No, held \ {Process})
  /\ UNCHANGED <<machine, history, call, Local>>

-----------------------------------------------------------------------------
\* procmetrix_get_process_entry and procmetrix_list_pids

\* The snapshot is of the processes that run, in any order.
TakeSnapshot ==
  /\ pc = "snapshot"
  /\ snapshot' \in SetToSeqs(Running)
  /\ held' = held \cup {Snapshot}
  /\ pc' = IF call = "list_pids" THEN "list" ELSE "find"
  /\ UNCHANGED <<machine, history, call, length, moved, buffer, answer,
                 status>>

NoSnapshot ==
  /\ pc = "snapshot"
  /\ refused' = TRUE
  /\ IF call = "pid_exists"
     THEN ReturnWith("NONE", Existing(FALSE), held \ {Process})
     ELSE ReturnWith("UNKNOWN", No, held)
  /\ UNCHANGED <<machine, stayed, appeared, original, call, Local>>

FindEntry ==
  /\ pc = "find"
  /\ LET found == Contains(snapshot, Target)
         left == held \ {Snapshot, Process}
     IN CASE call = "pid_exists" -> ReturnWith("NONE", Existing(found), left)
          [] call # "pid_exists" /\ found ->
               ReturnWith("NONE", Existing(Target), left)
          [] OTHER -> ReturnWith("INVALID_ARGUMENT", No, left)
  /\ UNCHANGED <<machine, history, call, Local>>

\* Counted in a first walk over the snapshot and filled in a second one.
CountPids ==
  /\ pc = "list"
  /\ snapshot # <<>>
  /\ length' = Len(snapshot)
  /\ held' = held \cup {PidArray}
  /\ pc' = "fill"
  /\ UNCHANGED <<machine, history, call, snapshot, moved, buffer, answer,
                 status>>

Listed(pids) == [found |-> TRUE, value |-> pids]

FillPids_Relists ==
  /\ pc = "fill"
  /\ ReturnWith("NONE", Listed(SetToSeq(Running)), held \ {Snapshot})
  /\ UNCHANGED <<machine, history, call, Local>>

FillPids ==
  /\ pc = "fill"
  /\ ReturnWith("NONE", Listed(snapshot), held \ {Snapshot})
  /\ UNCHANGED <<machine, history, call, Local>>

\* The snapshot is empty, which its reader takes for a failure, or calloc
\* fails.
ListPidsFails ==
  /\ pc = "list"
  /\ ReturnWith(IF snapshot = <<>> THEN "UNKNOWN" ELSE "OUT_OF_MEMORY", No,
                held \ {Snapshot})
  /\ UNCHANGED <<machine, history, call, Local>>

-----------------------------------------------------------------------------
\* procmetric_read_process_params: the text is found through the parameters
\* first and read afterwards.

OpenRead ==
  /\ pc = "openRead"
  /\ \/ /\ table[Target] # "free"
        /\ held' = held \cup {Process}
        /\ pc' = "params"
        /\ UNCHANGED <<answer, status>>
     \/ ReturnWith("UNKNOWN", No, held)
  /\ UNCHANGED <<machine, history, call, Local>>

\* NtQueryInformationProcess, and two reads of the target's memory.  The size
\* of an environment is that of its whole block.
LengthIsRead ==
  \E n \in IF call = "environ" THEN Paddings ELSE {0} : length' = Len(text) + n

ReadParams_ClosesEarly ==
  /\ pc = "params"
  /\ table[Target] = "running"
  /\ LengthIsRead
  /\ original' = text
  /\ held' = held \ {Process}
  /\ pc' = "data"
  /\ UNCHANGED <<machine, stayed, appeared, refused, call, snapshot, moved,
                 buffer, answer, status>>

ReadParams ==
  /\ pc = "params"
  /\ table[Target] = "running"
  /\ LengthIsRead
  /\ original' = text
  /\ pc' = "data"
  /\ UNCHANGED <<machine, stayed, appeared, refused, call, held, snapshot,
                 moved, buffer, answer, status>>

ReadParamsFails ==
  /\ pc = "params"
  /\ ReturnWith("UNKNOWN", No, held \ {Process})
  /\ UNCHANGED <<machine, history, call, Local>>

\* What is at the old place of a text is anyone's guess.
Found ==
  CASE ~moved -> {text \o Ends(length - Len(text))}
    [] moved /\ call = "cwd" -> [1 .. length -> {Mark, Other}]
    [] OTHER -> Garbage

ReadData ==
  /\ pc = "data"
  /\ length # 0
  /\ table[Target] = "running"
  /\ buffer' \in Found
  /\ held' = (held \ {Process}) \cup {Param}
  /\ pc' = call
  /\ UNCHANGED <<machine, history, call, snapshot, length, moved, answer,
                 status>>

ReadDataFails_KeepsHandle ==
  /\ pc = "data"
  /\ \E code \in {"INVALID_ARGUMENT", "OUT_OF_MEMORY", "UNKNOWN"} :
       /\ code = "INVALID_ARGUMENT" <=> length = 0
       /\ ReturnWith(code, No, IF length = 0 THEN held
                               ELSE held \ {Process})
  /\ UNCHANGED <<machine, history, call, Local>>

ReadDataFails ==
  /\ pc = "data"
  /\ \E code \in {"INVALID_ARGUMENT", "OUT_OF_MEMORY", "UNKNOWN"} :
       /\ code = "INVALID_ARGUMENT" <=> length = 0
       /\ ReturnWith(code, No, held \ {Process})
  /\ UNCHANGED <<machine, history, call, Local>>

-----------------------------------------------------------------------------
\* What the calls make of the text

WithoutParam == held \ {Param}

\* "Trim trailing "\" if it exists.  Do not trim "C:\" to "C:""
Trimmed_Always == IF Last(buffer) = Mark THEN Front(buffer) ELSE buffer
Trimmed ==
  IF Len(buffer) > 3 /\ Last(buffer) = Mark THEN Front(buffer) ELSE buffer

\* WideCharToMultiByte returns 0 for no room, and for a size of 0 the size it
\* would need, writing nothing; the terminator goes where it says.
ConvertCwd ==
  /\ pc = "cwd"
  /\ \E capacity \in Capacities :
       LET Put(bytes) == [found |-> TRUE, value |-> bytes,
                          last |-> Len(buffer), capacity |-> capacity]
       IN CASE capacity = 1 -> ReturnWith("NONE", Put(<<>>), WithoutParam)
            [] capacity # 1 /\ Len(buffer) > capacity - 1 ->
                 ReturnWith("MORE_DATA", No, WithoutParam)
            [] OTHER -> ReturnWith("NONE", Put(Trimmed), WithoutParam)
  /\ UNCHANGED <<machine, history, call, Local>>

\* CommandLineToArgvW, after which the text is freed.
SplitArguments ==
  /\ pc = "cmdline"
  /\ held' = WithoutParam \cup {WideArgs}
  /\ pc' = "arguments"
  /\ UNCHANGED <<machine, history, call, Local, answer, status>>

\* procmetrix_wide_to_narrow, of the whole block.
NarrowEnvironment ==
  /\ pc = "environ"
  /\ held' = held \cup {Narrow}
  /\ pc' = "narrow"
  /\ UNCHANGED <<machine, history, call, Local, answer, status>>

\* procmetrix_split_zero_terminated_tokens: a line for each NUL.
SplitLines ==
  /\ pc = "narrow"
  /\ held' = (held \ {Narrow}) \cup {Lines}
  /\ pc' = "lines"
  /\ UNCHANGED <<machine, history, call, Local, answer, status>>

\* One of the three, or the array of the result, cannot be made.
ConvertFails ==
  /\ \/ /\ pc \in {"cmdline", "environ"}
        /\ ReturnWith("UNKNOWN", No, held \ {Param})
     \/ /\ pc = "arguments"
        /\ ReturnWith("OUT_OF_MEMORY", No, held \ {WideArgs})
     \/ /\ pc = "narrow"
        /\ ReturnWith("OUT_OF_MEMORY", No, held \ {Narrow, Param})
     \/ /\ pc = "lines"
        /\ ReturnWith("OUT_OF_MEMORY", No, held \ {Lines, Param})
  /\ UNCHANGED <<machine, history, call, Local>>

\* Of the items as many are copied as memory is given for, and the caller's
\* struct has these.
Copied(items, done, keeps) ==
  /\ ReturnWith(IF done = Len(items) THEN "NONE" ELSE "OUT_OF_MEMORY",
                [found |-> TRUE, value |-> SubSeq(items, 1, done)], keeps)
  /\ UNCHANGED <<machine, history, call, Local>>

CopyArguments ==
  /\ pc = "arguments"
  /\ \E argc \in 0 .. Len(buffer) :
       Copied(buffer, argc, (held \ {WideArgs})
                            \cup {ArgArray} \cup {Arg(i) : i \in 1 .. argc})

\* "Windows has fake variables at the start, without a name": the first line
\* that is not one of these may be an empty one.
Valid ==
  LET first == SelectInSeq(buffer, LAMBDA line : line # Mark)
  IN IF first = 0 THEN <<>> ELSE SubSeq(buffer, first, Len(buffer))

\* An empty line is copied too: its name is empty, and it has no value.
CopyVariables ==
  /\ pc = "lines"
  /\ Valid # <<>>
  /\ \E count \in 0 .. Len(Valid) :
       Copied(Valid, count, (held \ {Lines, Param})
                            \cup {VarArray} \cup {Var(i) : i \in 1 .. count})

\* Only of garbage, which need not have an End.
NoVariables ==
  /\ pc = "lines"
  /\ Valid = <<>>
  /\ ReturnWith("NONE", No, held \ {Lines, Param})
  /\ UNCHANGED <<machine, history, call, Local>>

\* A line that could not be copied is NULL, and read all the same.
Crash ==
  /\ pc = "lines"
  /\ pc' = "crashed"
  /\ UNCHANGED <<machine, history, call, held, Local, answer, status>>

-----------------------------------------------------------------------------
Init ==
  /\ table \in [Pids -> {"free", "running"}]
  /\ text \in Texts
  /\ changes = 0
  /\ stayed = Running
  /\ appeared = Running
  /\ original = <<>>
  /\ refused = FALSE
  /\ call \in Calls
  /\ pc = "idle"
  /\ held = {}
  /\ snapshot = <<>>
  /\ length = 0
  /\ moved = FALSE
  /\ buffer = <<>>
  /\ answer = No
  /\ status = "NONE"

Next ==
  \/ \E p \in Pids : Start(p) \/ Exit(p) \/ Reap(p)
  \/ Rewrite
  \/ \E which \in Calls : Call(which)
  \/ FreeResult
  \/ OpenLimited
  \/ OpenFindsNone
  \/ OpenDenied
  \/ QueryExists
  \/ Query
  \/ TakeSnapshot
  \/ NoSnapshot
  \/ FindEntry
  \/ CountPids
  \/ FillPids
  \/ ListPidsFails
  \/ OpenRead
  \/ ReadParams
  \/ ReadParamsFails
  \/ ReadData
  \/ ReadDataFails
  \/ ConvertCwd
  \/ SplitArguments
  \/ NarrowEnvironment
  \/ SplitLines
  \/ ConvertFails
  \/ CopyArguments
  \/ CopyVariables
  \/ NoVariables
  \/ Crash

Spec == Init /\ [][Next]_vars

-----------------------------------------------------------------------------
\* Properties

\* Types; a handle to a process is held from its opening to the last question
\* and keeps the process from being freed.
TypeOK ==
  /\ table \in [Pids -> {"free", "running"} \cup Exited]
  /\ text \in Texts /\ original \in Texts \cup {<<>>}
  /\ buffer \in Seq({Mark, Other, End})
  /\ stayed \subseteq Running /\ Running \subseteq appeared
  /\ call \in Calls
  /\ pc \in {"idle", "openLimited", "openRead", "query", "snapshot", "find",
             "list", "fill", "params", "data", "arguments", "narrow",
             "lines", "returned", "crashed"}
            \cup TextCalls
  /\ length \in Nat /\ moved \in BOOLEAN
  /\ answer.found \in BOOLEAN
  /\ status \in {"NONE", "INVALID_ARGUMENT", "MORE_DATA", "OUT_OF_MEMORY",
                 "UNKNOWN"}
  /\ pc \in {"query", "params", "data"} => Process \in held
  /\ Process \in held => table[Target] # "free"

\* Whichever step fails, and whatever happens to the target between two steps,
\* a call leaves no handle open and no block allocated that the free function
\* for its result will not find (proc.c:20-52, 106-188, 222-272, 540-627).
OnlyTheResultIsHeld ==
  /\ pc = "returned" => held = Result
  /\ pc = "idle" => held = {}

\* A process that ran all through the call exists, and one that did not run at
\* any time does not.  There are three exceptions: a refused list is taken for
\* a negative answer; the exit code 259 is taken for a running process; and so
\* is a refused exit code, although the process may have exited and be kept by
\* a handle (proc.c:281-323).
ExistsIsTrue ==
  [][pc # "returned" /\ pc' = "returned" /\ call = "pid_exists" =>
       IF answer'.value
       THEN \/ Target \in appeared
            \/ table[Target] = "exited259"
            \/ table[Target] = "exited" /\ refused'
       ELSE Target \notin stayed \/ refused']_vars

\* A list of processes holds every one that ran all through the call and none
\* that never ran, each once, and fills the block that the first walk sized,
\* whatever starts and exits between the two walks (proc.c:336-382).
ListIsTheSnapshot ==
  pc = "returned" /\ call = "list_pids" /\ status = "NONE" =>
    /\ stayed \subseteq ToSet(answer.value)
    /\ ToSet(answer.value) \subseteq appeared
    /\ Len(answer.value) = Cardinality(ToSet(answer.value))
    /\ Len(answer.value) = length

Marks(n) == [i \in 1 .. n |-> Mark]

\* What a call makes of a text.  Whatever the target does between two steps, the
\* terminator of a directory is inside the caller's buffer (except one of a
\* single byte, for which the conversion answers a size instead of writing), and
\* the first variable is not one of the nameless ones.  Unless the target moved
\* the text after its place was read and before it was read itself, it is the
\* one that was there: a directory without its last backslash, if it is no root;
\* all the arguments; and the variables from the first that is not nameless on,
\* followed by an empty one for each NUL that is left of the block
\* (proc.c:85-91, 151-175, 235-265, 509-530, 583-591).
TextIsTheTargets ==
  pc = "returned" /\ call \in TextCalls /\ status = "NONE" =>
    CASE call = "cwd" ->
           answer.capacity > 1 =>
             /\ answer.last < answer.capacity
             /\ ~moved => IF Len(original) > 3 /\ Last(original) = Mark
                          THEN answer.value \o Marks(1) = original
                          ELSE answer.value = original
      [] call = "cmdline" -> ~moved => answer.value = original
      [] OTHER ->
           /\ answer.found => answer.value[1] # Mark
           /\ ~moved =>
                /\ answer.found
                /\ \E nameless \in 0 .. Len(original), left \in Paddings :
                     Marks(nameless) \o answer.value = original \o Ends(left)

=============================================================================
