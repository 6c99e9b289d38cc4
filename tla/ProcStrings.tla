---------------------------- MODULE ProcStrings ----------------------------
(***************************************************************************)
(* procmetrix_get_proc_cmdline and procmetrix_get_proc_environ on Linux    *)
(* (src/linux/proc.c) with the splitting they share (src/algo.c) and the   *)
(* functions that free their results (src/proc.c).                         *)
(*                                                                         *)
(* The file is whatever the other process lets the reads see: it may grow, *)
(* change, end early because the process exits, or fail.  Any allocation   *)
(* may fail.  The heap is the set of blocks in use, each named for what it *)
(* is allocated for.                                                       *)
(***************************************************************************)
EXTENDS Integers, FiniteSets, FiniteSetsExt, SequencesExt

CONSTANTS
  Bytes,            \* the bytes of a file: Nul, Equals and others
  Nul, Equals,
  InitialCapacity,  \* of the read buffer
  MaxFile,          \* bound on what the reads return in all
  NULL              \* no string

\* procmetrix_proc_environ_var_t
Variables == [name : Seq(Bytes), value : Seq(Bytes) \cup {NULL}]

ASSUME BytesHaveMarks == {Nul, Equals} \subseteq Bytes /\ Nul # Equals
ASSUME SizesArePositive == InitialCapacity \in Nat \ {0} /\ MaxFile \in Nat
ASSUME NullIsNoString == NULL \notin Seq(Bytes) \cup Seq(Variables)

VARIABLES
  call,       \* "cmdline" or "environ"
  pc,
  capacity,   \* of the read buffer
  buffer,     \* what was read
  numTokens,  \* *num_tokens: cmdline->argc, or numvars
  tokens,     \* *tokens so far: cmdline->argv, or varlines
  start,      \* start_idx: bytes of the buffer already split
  env,        \* environ->vars up to environ->count, or NULL
  status,
  heap,       \* blocks in use, and the open stream
  refused     \* an allocation of this call failed

vars == <<call, pc, capacity, buffer, numTokens, tokens, start, env, status,
          heap, refused>>

\* Names of blocks
Stream == <<"stream", 0>>
Buffer == <<"buffer", 0>>
TokenArray == <<"tokens", 0>>
Token(i) == <<"token", i>>
VarArray == <<"vars", 0>>
Name(i) == <<"name", i>>
Value(i) == <<"value", i>>

OwnTokens == {Token(i) : i \in {j \in DOMAIN tokens : tokens[j] # NULL}}

-----------------------------------------------------------------------------
\* The call and the file

Call(which) ==
  /\ pc = "idle"
  /\ pc' = "open"
  /\ call' = which
  /\ capacity' = InitialCapacity
  /\ buffer' = <<>>
  /\ numTokens' = 0
  /\ tokens' = <<>>
  /\ start' = 0
  /\ env' = NULL
  /\ status' = "NONE"
  /\ refused' = FALSE
  /\ UNCHANGED heap

\* PID 0; no such process, or no permission.
OpenFails ==
  /\ pc = "open"
  /\ pc' = "returned"
  /\ status' \in {"INVALID_ARGUMENT", "FILE_READ"}
  /\ UNCHANGED <<call, capacity, buffer, numTokens, tokens, start, env, heap,
                 refused>>

OpenFile ==
  /\ pc = "open"
  /\ \/ /\ heap' = heap \cup {Stream, Buffer}
        /\ pc' = "read"
        /\ UNCHANGED <<status, refused>>
     \/ /\ heap' = heap \cup {Stream}
        /\ refused' = TRUE
        /\ status' = "OUT_OF_MEMORY"
        /\ pc' = "close"
  /\ UNCHANGED <<call, capacity, buffer, numTokens, tokens, start, env>>

-----------------------------------------------------------------------------
\* procmetrix_impl_linux_read_full_file

Room == capacity - Len(buffer)

\* fread fills the room unless the file ends or fails; after that it reads 0.
ReadChunk ==
  /\ pc = "read"
  /\ \E n \in 0 .. Min({Room, MaxFile - Len(buffer)}) :
       /\ \E chunk \in [1 .. n -> Bytes] : buffer' = buffer \o chunk
       /\ pc' = IF n = Room THEN "grow" ELSE "readEnd"
  /\ UNCHANGED <<call, capacity, numTokens, tokens, start, env, status, heap,
                 refused>>

Grow ==
  /\ pc = "grow"
  /\ \/ /\ capacity' = capacity * 2
        /\ pc' = "read"
        /\ UNCHANGED <<buffer, status, heap, refused>>
     \/ /\ refused' = TRUE
        /\ status' = "OUT_OF_MEMORY"
        /\ heap' = heap \ {Buffer}
        /\ buffer' = <<>>
        /\ pc' = "close"
        /\ UNCHANGED capacity
  /\ UNCHANGED <<call, numTokens, tokens, start, env>>

ReadEnd ==
  /\ pc = "readEnd"
  /\ \/ /\ pc' = "split"
        /\ UNCHANGED <<buffer, status, heap>>
     \/ /\ status' = "FILE_READ"
        /\ heap' = heap \ {Buffer}
        /\ buffer' = <<>>
        /\ pc' = "close"
  /\ UNCHANGED <<call, capacity, numTokens, tokens, start, env, refused>>

-----------------------------------------------------------------------------
\* procmetrix_split_zero_terminated_tokens

EndsToken(i) == buffer[i] = Nul \/ i = Len(buffer)

CountTokens_OnlyTerminated ==
  Cardinality({i \in DOMAIN buffer : buffer[i] = Nul})
CountTokens == Cardinality({i \in DOMAIN buffer : EndsToken(i)})

Split ==
  /\ pc = "split"
  /\ \/ /\ buffer = <<>>
        /\ status' = "INVALID_ARGUMENT"
        /\ heap' = heap \ {Buffer}
        /\ pc' = "close"
        /\ UNCHANGED <<numTokens, refused>>
     \/ /\ buffer # <<>>
        /\ numTokens' = CountTokens
        /\ heap' = heap \cup {TokenArray}
        /\ pc' = "tokens"
        /\ UNCHANGED <<status, refused>>
     \/ /\ buffer # <<>>
        /\ refused' = TRUE
        /\ status' = "OUT_OF_MEMORY"
        /\ heap' = heap \ {Buffer}
        /\ pc' = "close"
        /\ UNCHANGED numTokens
  /\ UNCHANGED <<call, capacity, buffer, tokens, start, env>>

NextEnd == CHOOSE i \in start + 1 .. Len(buffer) :
             /\ EndsToken(i)
             /\ \A j \in start + 1 .. i - 1 : ~EndsToken(j)

\* strndup of the bytes from start_idx, without the terminator if there is one
TokenText_DropsLast == SubSeq(buffer, start + 1, NextEnd - 1)
TokenText ==
  SubSeq(buffer, start + 1,
         IF buffer[NextEnd] = Nul THEN NextEnd - 1 ELSE NextEnd)

\* A failed strndup leaves NULL in the list, and nobody looks.
DupToken ==
  /\ pc = "tokens"
  /\ start < Len(buffer)
  /\ start' = NextEnd
  /\ \/ /\ tokens' = Append(tokens, TokenText)
        /\ heap' = heap \cup {Token(Len(tokens) + 1)}
        /\ UNCHANGED refused
     \/ /\ tokens' = Append(tokens, NULL)
        /\ refused' = TRUE
        /\ UNCHANGED heap
  /\ UNCHANGED <<call, pc, capacity, buffer, numTokens, env, status>>

TokensDone ==
  /\ pc = "tokens"
  /\ start = Len(buffer)
  /\ heap' = heap \ {Buffer}
  /\ pc' = "close"
  /\ UNCHANGED <<call, capacity, buffer, numTokens, tokens, start, env, status,
                 refused>>

Close ==
  /\ pc = "close"
  /\ heap' = heap \ {Stream}
  /\ pc' = CASE call = "cmdline" -> "returned"
             [] call = "environ" /\ status = "NONE" -> "allocVars"
             [] OTHER -> "dropLines"
  /\ UNCHANGED <<call, capacity, buffer, numTokens, tokens, start, env, status,
                 refused>>

-----------------------------------------------------------------------------
\* procmetrix_split_environ_vars

AllocVars ==
  /\ pc = "allocVars"
  /\ \/ /\ env' = <<>>
        /\ heap' = heap \cup {VarArray}
        /\ pc' = "vars"
        /\ UNCHANGED <<status, refused>>
     \/ /\ refused' = TRUE
        /\ status' = "OUT_OF_MEMORY"
        /\ pc' = "dropLines"
        /\ UNCHANGED <<env, heap>>
  /\ UNCHANGED <<call, capacity, buffer, numTokens, tokens, start>>

Line == tokens[Len(env) + 1]
Delims == {i \in DOMAIN Line : Line[i] = Equals}
Delim == CHOOSE i \in Delims : \A j \in Delims : i <= j

\* Up to the first delimiter, and past it; NULL for no right-hand side.
VarOf ==
  IF Delims = {} THEN [name |-> Line, value |-> NULL]
  ELSE [name |-> SubSeq(Line, 1, Delim - 1),
        value |-> SubSeq(Line, Delim + 1, Len(Line))]

\* Blocks of variable i.
Own(i, var) == {Name(i)} \cup IF var.value = NULL THEN {} ELSE {Value(i)}

SetVar ==
  /\ pc = "vars"
  /\ Len(env) < numTokens
  /\ Line # NULL
  /\ env' = Append(env, VarOf)
  /\ heap' = heap \cup Own(Len(env) + 1, VarOf)
  /\ UNCHANGED <<call, pc, capacity, buffer, numTokens, tokens, start, status,
                 refused>>

\* One of the two copies failed, or both: what was copied is freed and the
\* variables before this one stay in the result.
SetVarFails ==
  /\ pc = "vars"
  /\ Len(env) < numTokens
  /\ Line # NULL
  /\ refused' = TRUE
  /\ status' = "OUT_OF_MEMORY"
  /\ pc' = "dropLines"
  /\ UNCHANGED <<call, capacity, buffer, numTokens, tokens, start, env, heap>>

\* strchr of a NULL line: the program dies.
Crash ==
  /\ pc = "vars"
  /\ Len(env) < numTokens
  /\ Line = NULL
  /\ pc' = "crashed"
  /\ UNCHANGED <<call, capacity, buffer, numTokens, tokens, start, env, status,
                 heap, refused>>

VarsDone ==
  /\ pc = "vars"
  /\ Len(env) = numTokens
  /\ pc' = "dropLines"
  /\ UNCHANGED <<call, capacity, buffer, numTokens, tokens, start, env, status,
                 heap, refused>>

\* procmetrix_get_proc_environ frees the lines it split.
DropLines ==
  /\ pc = "dropLines"
  /\ heap' = heap \ ({TokenArray} \cup OwnTokens)
  /\ pc' = "returned"
  /\ UNCHANGED <<call, capacity, buffer, numTokens, tokens, start, env, status,
                 refused>>

-----------------------------------------------------------------------------
\* procmetrix_free_proc_cmdline and procmetrix_free_proc_environ: what a walk
\* over the result struct frees.

Result ==
  IF call = "cmdline" THEN
    IF numTokens > 0 THEN {TokenArray} \cup OwnTokens ELSE {}
  ELSE
    IF env = NULL THEN {}
    ELSE {VarArray} \cup UNION {Own(i, env[i]) : i \in DOMAIN env}

FreeResult ==
  /\ pc = "returned"
  /\ heap' = heap \ Result
  /\ pc' = "idle"
  /\ numTokens' = 0
  /\ tokens' = <<>>
  /\ env' = NULL
  /\ UNCHANGED <<call, capacity, buffer, start, status, refused>>

-----------------------------------------------------------------------------
Init ==
  /\ call \in {"cmdline", "environ"}
  /\ pc = "idle"
  /\ capacity = InitialCapacity
  /\ buffer = <<>>
  /\ numTokens = 0
  /\ tokens = <<>>
  /\ start = 0
  /\ env = NULL
  /\ status = "NONE"
  /\ heap = {}
  /\ refused = FALSE

CallStep ==
  \/ OpenFails
  \/ OpenFile
  \/ ReadChunk
  \/ Grow
  \/ ReadEnd
  \/ Split
  \/ DupToken
  \/ TokensDone
  \/ Close
  \/ AllocVars
  \/ SetVar
  \/ SetVarFails
  \/ Crash
  \/ VarsDone
  \/ DropLines

Next ==
  \/ \E which \in {"cmdline", "environ"} : Call(which)
  \/ CallStep
  \/ FreeResult

Spec == Init /\ [][Next]_vars

-----------------------------------------------------------------------------
\* Properties

String == UNION {[1 .. n -> Bytes] : n \in 0 .. MaxFile}

\* Types; the fill loop of the splitting never passes the array that the
\* counting loop sized, and fills it exactly (algo.c:54-81).
TypeOK ==
  /\ call \in {"cmdline", "environ"}
  /\ pc \in {"idle", "open", "read", "grow", "readEnd", "split", "tokens",
             "close", "allocVars", "vars", "dropLines", "returned", "crashed"}
  /\ Len(buffer) \in 0 .. capacity
  /\ buffer \in String
  /\ numTokens \in 0 .. MaxFile
  /\ tokens \in Seq(String \cup {NULL})
  /\ Len(tokens) <= numTokens
  /\ pc = "tokens" /\ start = Len(buffer) => Len(tokens) = numTokens
  /\ start \in 0 .. Len(buffer)
  /\ env # NULL => Len(env) \in 0 .. numTokens
  /\ status \in {"NONE", "FILE_READ", "INVALID_ARGUMENT", "OUT_OF_MEMORY"}
  /\ refused \in BOOLEAN

\* Whatever failed on the way, what a call leaves allocated is exactly what
\* the caller's free function will find by walking the result, so nothing
\* leaks and nothing is freed twice; a failed cmdline leaves nothing at all
\* (proc.c:411-482, algo.c:86-152, src/proc.c:20-55).
ResultOwnsTheHeap ==
  /\ pc = "returned" => heap = Result
  /\ pc = "returned" /\ call = "cmdline" /\ status # "NONE" => heap = {}
  /\ pc = "idle" => heap = {}

Joined(strings) ==
  FlattenSeq([i \in DOMAIN strings |-> Append(strings[i], Nul)])
Terminated(bytes) == IF Last(bytes) = Nul THEN bytes ELSE Append(bytes, Nul)
Succeeded == pc = "returned" /\ status = "NONE" /\ ~refused

LineOf(var) ==
  IF var.value = NULL THEN var.name
  ELSE var.name \o <<Equals>> \o var.value

\* The arguments of a command line, each ended by a NUL, are the file again,
\* and so are the variables of an environment with their delimiters: no byte
\* is lost, the empty strings and an unterminated last one included, however
\* the reads were chunked; and a name never holds the delimiter, so a value
\* may (linux/proc.c:55-110, algo.c:54-81, 115-149).
StringsAreTheFile ==
  Succeeded =>
    IF call = "cmdline"
    THEN /\ Joined(tokens) = Terminated(buffer)
         /\ \A i \in DOMAIN tokens : ~Contains(tokens[i], Nul)
    ELSE /\ Joined([i \in DOMAIN env |-> LineOf(env[i])]) = Terminated(buffer)
         /\ \A i \in DOMAIN env : ~Contains(env[i].name, Equals)
=============================================================================
