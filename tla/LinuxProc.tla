----------------------------- MODULE LinuxProc ------------------------------
(***************************************************************************)
(* The process queries on Linux that read one line, follow one link or     *)
(* list /proc (src/linux/proc.c, src/posix/proc.c), one call at a time     *)
(* about process Target, while processes start, exit and reuse IDs.        *)
(*                                                                         *)
(* A character of a name is RParen, Newline, Letter or a digit.  A line is *)
(* what it holds besides blanks: characters and numbers.  Of the figures   *)
(* of a process, ticks in stat and pages in statm, there is one of each.   *)
(* The processes are followed while a call runs: what they do in between   *)
(* is the choice of those that run when the next one begins.               *)
(***************************************************************************)
EXTENDS Integers, FiniteSets, SequencesExt

CONSTANTS
  Pids, Target,              \* process IDs; the one asked about
  TextPlace,                 \* where an ID comes among them sorted as text
  Letter, RParen, Newline,
  Names,                     \* names of processes: sequences of characters
  PathLength,                \* characters of the paths of links
  BufferLength,              \* bytes of the caller's buffer
  MaxStarts                  \* bound on processes that start during a call
\* PyProc, which calls the queries, states what the constants satisfy.

VARIABLES
  \* the kernel
  table,   \* table[p]: the process with ID p, or Nobody
  starts,  \* processes that started since the call began
  \* history of the call
  stayed,  \* IDs in use all the time
  everSeen,\* IDs in use at some time
  failed,  \* a step of the call failed
  \* the call
  query, step,
  file,    \* the process whose file is open, or Nobody
  seen,    \* entries of /proc read so far, and then sorted
  block,   \* the array of process IDs is allocated
  out,     \* what the caller is given
  result   \* status

kernel == <<table, starts>>
past == <<stayed, everSeen, failed>>
queryVars == <<kernel, past, query, step, file, seen, block,
               out, result>>

\* Processes with the same ID differ in born, which their figures are.
Nobody == [born |-> 0]
Process(n, name, ppid) == [born |-> n, comm |-> name, parent |-> ppid]
Untracked == [p \in Pids |-> Nobody]
NoParent == 0
\* Of the others nothing is asked but their IDs.
Processes(p, born) ==
  IF p = Target
  THEN {Process(born, name, ppid) : name \in Names, ppid \in Pids \ {p}}
  ELSE {Process(born, <<>>, NoParent)}
Tables == {t \in [Pids -> {Nobody} \cup UNION {Processes(p, p) : p \in Pids}] :
             \A p \in Pids : t[p] \in {Nobody} \cup Processes(p, p)}
InUse(t) == {p \in Pids : t[p] # Nobody}

LineCalls == {"parent_pid", "cpu_times", "memory_info", "name"}
LinkCalls == {"exe", "cwd"}
Queries == LineCalls \cup LinkCalls \cup {"list_pids", "pid_exists"}

Local == <<query, step, file, seen, block, out, result>>

Start(p) ==
  /\ step \notin {"idle", "answered"}
  /\ starts < MaxStarts
  /\ table[p] = Nobody
  /\ starts' = starts + 1
  /\ \E process \in Processes(p, p + starts') :
       table' = [table EXCEPT ![p] = process]
  /\ everSeen' = everSeen \cup {p}
  /\ UNCHANGED <<stayed, failed, Local>>

\* What it leaves behind is waited for, and its children get another parent.
Exit(p) ==
  /\ step \notin {"idle", "answered"}
  /\ table[p] # Nobody
  /\ table' = [q \in Pids |->
                 CASE q = p -> Nobody
                   [] q # p /\ table[q] # Nobody /\ table[q].parent = p ->
                        [table[q] EXCEPT !.parent = NoParent]
                   [] OTHER -> table[q]]
  /\ stayed' = stayed \ {p}
  /\ UNCHANGED <<starts, everSeen, failed, Local>>

-----------------------------------------------------------------------------
Ask(which) ==
  /\ step = "idle"
  /\ query' = which
  /\ step' = CASE which = "list_pids" -> "glob"
               [] which = "pid_exists" -> "kill"
               [] which \in LinkCalls -> "link"
               [] OTHER -> "openLine"
  /\ table' \in Tables
  /\ starts' = 0
  /\ stayed' = InUse(table')
  /\ everSeen' = InUse(table')
  /\ failed' = FALSE
  /\ file' = Nobody
  /\ seen' = <<>>
  /\ out' = <<>>
  /\ result' = "NONE"
  /\ UNCHANGED block

Answer(code, value) ==
  /\ result' = code
  /\ out' = value
  /\ step' = "answered"

-----------------------------------------------------------------------------
\* procmetrix_get_proc_parent_pid, _name, _memory_info and _cpu_times: open,
\* read a line, parse it, close

OpenLine ==
  /\ step = "openLine"
  /\ \/ /\ table[Target] # Nobody
        /\ file' = table[Target]
        /\ step' = "readLine"
        /\ UNCHANGED <<out, result, failed>>
     \/ /\ failed' = TRUE
        /\ Answer("FILE_READ", <<>>)
        /\ UNCHANGED file
  /\ UNCHANGED <<kernel, stayed, everSeen, query, seen, block>>

\* The kernel escapes newlines in stat, but not in comm.
Escaped(name) ==
  [i \in DOMAIN name |-> IF name[i] = Newline THEN Letter ELSE name[i]]

\* The file of a process that is gone stays empty, whoever has its ID now.
LineOf(process) ==
  CASE query = "name" -> process.comm \o <<Newline>>
    [] query = "memory_info" -> <<process.born>>
    [] OTHER -> Escaped(process.comm)
                \o <<RParen, Letter, process.parent, process.born>>

\* What the caller's buffer holds besides the terminator.
Cut(seq) == SubSeq(seq, 1, Min({Len(seq), BufferLength - 1}))

\* fgets stops at a newline and at the end of the buffer; of the calls only
\* _name brings one that a line may fill.
LineRead(line) ==
  LET fits == IF query = "name" THEN Cut(line) ELSE line
      newline == SelectInSeq(fits, LAMBDA c : c = Newline)
  IN IF newline = 0 THEN fits ELSE SubSeq(fits, 1, newline - 1)

\* procmetrix_impl_linux_proc_pid_stat_read_ppid and _cpu_times: a name may
\* hold a parenthesis, so the fields begin after the last one.  The state is
\* any character, and the other fields are numbers.
AfterName_FirstParen(line) ==
  SubSeq(line, SelectInSeq(line, LAMBDA c : c = RParen) + 1, Len(line))
AfterName(line) ==
  SubSeq(line, SelectLastInSeq(line, LAMBDA c : c = RParen) + 1, Len(line))

Parsed(line) ==
  CASE query = "parent_pid" -> <<AfterName(line)[2]>>
    [] query = "cpu_times" -> SubSeq(AfterName(line), 3, 3)
    [] OTHER -> line

IsNumber(field) == field \notin {Letter, RParen, Newline}

ReadLine ==
  /\ step = "readLine"
  /\ table[Target].born = file.born
  /\ file' = table[Target]
  /\ LET fields == Parsed(LineRead(LineOf(file')))
     IN IF query = "name" \/ \A i \in DOMAIN fields : IsNumber(fields[i])
        THEN Answer("NONE", fields) ELSE Answer("MALFORMED", <<>>)
  /\ UNCHANGED <<kernel, past, query, seen, block>>

\* Or sysconf does not tell how many ticks make a second.
ReadLineFails ==
  /\ step = "readLine"
  /\ failed' = TRUE
  /\ \/ Answer("MALFORMED", <<>>)
     \/ query = "cpu_times" /\ Answer("UNKNOWN", <<>>)
  /\ UNCHANGED <<kernel, stayed, everSeen, query, file, seen, block>>

-----------------------------------------------------------------------------
\* procmetrix_impl_linux_proc_pid_follow_symlink

Path(process) == [i \in 1 .. PathLength |-> process.born]

ReadLink ==
  /\ step = "link"
  /\ table[Target] # Nobody
  /\ file' = table[Target]
  /\ Answer("NONE", Cut(Path(file')))
  /\ UNCHANGED <<kernel, past, query, seen, block>>

\* -1 becomes the largest size_t: it is not below zero, and the terminator
\* goes to the byte in front of the buffer, whatever that is.
ReadLinkFails ==
  /\ step = "link"
  /\ failed' = TRUE
  /\ \/ Answer("NONE", <<>>)
     \/ step' = "crashed" /\ UNCHANGED <<out, result>>
  /\ UNCHANGED <<kernel, stayed, everSeen, query, file, seen, block>>

-----------------------------------------------------------------------------
\* procmetrix_pid_exists: kill, and a refusal of it, tell that there is one.
Kill ==
  /\ step = "kill"
  /\ Answer("NONE", <<table[Target] # Nobody>>)
  /\ UNCHANGED <<kernel, past, query, file, seen, block>>

-----------------------------------------------------------------------------
\* procmetrix_list_pids

\* glob reads /proc in the order of the IDs, entry by entry.
Ahead == {p \in InUse(table) : \A i \in DOMAIN seen : seen[i] < p}

ReadEntry ==
  /\ step = "glob"
  /\ \E p \in Ahead :
       /\ \A q \in Ahead : p <= q
       /\ seen' = Append(seen, p)
  /\ UNCHANGED <<kernel, past, query, step, file, block, out, result>>

\* Without GLOB_NOSORT it sorts the names it found, as text.
SortedAsText(pids) ==
  {s \in [DOMAIN pids -> ToSet(pids)] :
     /\ ToSet(s) = ToSet(pids)
     /\ \A i, j \in DOMAIN s : i < j => TextPlace[s[i]] < TextPlace[s[j]]}

GlobEnds ==
  /\ step = "glob"
  /\ seen # <<>>
  /\ Ahead = {}
  /\ seen' \in SortedAsText(seen)
  /\ step' = "calloc"
  /\ UNCHANGED <<kernel, past, query, file, block, out, result>>

\* No match, or no memory.
GlobFails ==
  /\ step = "glob"
  /\ failed' = TRUE
  /\ Answer("FILE_READ", <<>>)
  /\ UNCHANGED <<kernel, stayed, everSeen, query, file, seen, block>>

CallocPids ==
  /\ step = "calloc"
  /\ \/ /\ block' = TRUE
        /\ step' = "fill"
        /\ UNCHANGED <<failed, out, result>>
     \/ /\ failed' = TRUE
        /\ Answer("OUT_OF_MEMORY", <<>>)
        /\ UNCHANGED block
  /\ UNCHANGED <<kernel, stayed, everSeen, query, file, seen>>

\* A name that is no ID leaves its slot zero, and the list in place.
FillPids_FromOne ==
  /\ step = "fill"
  /\ Answer("NONE", [i \in DOMAIN seen |-> IF i = 1 THEN 0 ELSE seen[i]])
  /\ UNCHANGED <<kernel, past, query, file, seen, block>>

FillPids ==
  /\ step = "fill"
  /\ \E odd \in SUBSET DOMAIN seen :
       /\ failed' = (odd # {})
       /\ Answer(IF odd = {} THEN "NONE" ELSE "MALFORMED",
                 [i \in DOMAIN seen |-> IF i \in odd THEN 0 ELSE seen[i]])
  /\ UNCHANGED <<kernel, stayed, everSeen, query, file, seen, block>>

-----------------------------------------------------------------------------
\* procmetrix_free_pids, for a list; the caller is done with the answer.
Dismiss ==
  /\ step = "answered"
  /\ step' = "idle"
  /\ block' = FALSE
  /\ table' = Untracked
  /\ starts' = 0
  /\ stayed' = {} /\ everSeen' = {} /\ failed' = FALSE
  /\ file' = Nobody
  /\ seen' = <<>>
  /\ out' = <<>>
  /\ result' = "NONE"
  /\ UNCHANGED query

Init ==
  /\ table = Untracked
  /\ starts = 0
  /\ stayed = {} /\ everSeen = {} /\ failed = FALSE
  /\ query \in Queries
  /\ step = "idle"
  /\ file = Nobody
  /\ seen = <<>>
  /\ block = FALSE
  /\ out = <<>>
  /\ result = "NONE"

Kernel == \E p \in Pids : Start(p) \/ Exit(p)

QueryStep ==
  \/ OpenLine
  \/ ReadLine
  \/ ReadLineFails
  \/ ReadLink
  \/ ReadLinkFails
  \/ Kill
  \/ ReadEntry
  \/ GlobEnds
  \/ GlobFails
  \/ CallocPids
  \/ FillPids

-----------------------------------------------------------------------------
\* Properties

Answered(calls) ==
  step = "answered" /\ query \in calls /\ result = "NONE" /\ ~failed

\* An answer is about one process, which had the ID: parent and times are its
\* own whatever parentheses, blanks and digits its name holds, and neither
\* its exit nor a process that takes over its ID shows in them; a name is
\* its name up to a newline, and a path its path, cut to the buffer
\* (proc.c:165-292, 337-408).
AnswersAreOfTheProcess ==
  /\ Answered({"parent_pid"}) => out = <<file.parent>>
  /\ Answered({"cpu_times", "memory_info"}) => out = <<file.born>>
  /\ Answered({"name"}) =>
       /\ IsPrefix(out, file.comm)
       /\ Len(out) < BufferLength
       /\ \/ Len(out) = BufferLength - 1 \/ out = file.comm
          \/ file.comm[Len(out) + 1] = Newline
  /\ Answered(LinkCalls) =>
       Len(out) < BufferLength /\ IsPrefix(out, Path(file))
  /\ Answered(LineCalls \cup LinkCalls) => Target \in everSeen

\* A list of processes holds every ID in use all the time and none that was
\* never in use, each once, although the entries are read one by one and
\* sorted in another order (proc.c:296-335).
ListIsBracketed ==
  Answered({"list_pids"}) =>
    /\ stayed \subseteq ToSet(out) /\ ToSet(out) \subseteq everSeen
    /\ \A i, j \in DOMAIN out : i # j => out[i] # out[j]

\* "Gets the process' executable's full path." (include/procmetrix/proc.h:57)
PathIsFull ==
  step = "answered" /\ query = "exe" /\ result = "NONE" => out = Path(file)
=============================================================================
