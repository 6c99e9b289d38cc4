-------------------------- MODULE WindowsProcProofs --------------------------
(***************************************************************************)
(* For any processes, texts and buffers, whatever starts, exits or moves   *)
(* between two steps and whichever of them fails: what WindowsProc says of *)
(* handles and blocks, of existence, of lists and of texts.                *)
(***************************************************************************)
EXTENDS WindowsProc, FiniteSetTheorems, SequenceTheorems, TLAPS

\* The calls that start with an open for a question, and those that may go
\* through the list of processes.
LimitedCalls == CounterCalls \cup {"pid_exists", "parent_pid"}
Asked == {"pid_exists", "parent_pid"}

\* What is held at each point of a call, and which calls get there.
Phases ==
  /\ pc \in {"idle", "openLimited", "openRead"} => held = {}
  /\ pc \in {"openLimited", "query"} => call \in LimitedCalls
  /\ pc = "query" => held = {Process}
  /\ pc \in {"openRead", "params", "data"} => call \in TextCalls
  /\ pc = "snapshot" =>
       /\ call \in Asked \cup {"list_pids"}
       /\ held = {} \/ (call = "pid_exists" /\ held = {Process})
  /\ pc = "find" =>
       /\ call \in Asked
       /\ held \ {Snapshot, Process} = {}
  /\ pc = "list" => held = {Snapshot} /\ call = "list_pids"
  /\ pc = "fill" => held = {Snapshot, PidArray} /\ call = "list_pids"
  /\ pc \in {"params", "data"} => held = {Process}
  /\ pc \in TextCalls => held = {Param} /\ call = pc
  /\ pc = "arguments" => held = {WideArgs} /\ call = "cmdline"
  /\ pc = "narrow" => held = {Param, Narrow} /\ call = "environ"
  /\ pc = "lines" => held = {Param, Lines} /\ call = "environ"
  /\ pc = "returned" => held = Result

\* The IDs in a snapshot are of processes, each once, that ran when it was
\* taken.
Listing ==
  /\ pc \in {"find", "list", "fill"} =>
       /\ snapshot \in Seq(Pids)
       /\ Len(snapshot) = Cardinality(ToSet(snapshot))
       /\ stayed \subseteq ToSet(snapshot)
       /\ ToSet(snapshot) \subseteq appeared
  /\ pc = "fill" => length = Len(snapshot)

\* What was read is the text whose place was read, with the rest of its block,
\* unless it moved in between.
Converting == TextCalls \cup {"arguments", "narrow", "lines"}
Reading ==
  /\ pc \in {"openRead", "params"} => ~moved
  /\ pc = "data" =>
       /\ \E n \in IF call = "environ" THEN Paddings ELSE {0} :
            length = Len(original) + n
       /\ ~moved => text = original
  /\ pc \in Converting /\ ~moved =>
       \E n \in IF call = "environ" THEN Paddings ELSE {0} :
         buffer = original \o Ends(n)

IInv == /\ TypeOK /\ Phases /\ Listing /\ Reading
        /\ ListIsTheSnapshot /\ TextIsTheTargets

-----------------------------------------------------------------------------
\* A set of numbers that is not empty has a least one.
LEMMA LeastNumber ==
  ASSUME NEW S \in SUBSET Nat, S # {}
  PROVE  Min(S) \in S /\ \A n \in S : Min(S) <= n
<1> DEFINE R == {ss \in Nat \X Nat : ss[1] < ss[2]}
<1>1. IsWellFoundedOn(R, Nat)
  BY NatLessThanWellFounded DEF OpToRel
<1>2. \A n, k \in Nat : n < k => <<n, k>> \in R
  OBVIOUS
<1> HIDE DEF R
<1>3. PICK m \in S : \A n \in S : ~(<<n, m>> \in R)
  BY <1>1, WFMin
<1>4. ASSUME NEW n \in S PROVE m <= n
  <2>1. n \in Nat /\ m \in Nat
    OBVIOUS
  <2>2. ~(n < m)
    BY <1>2, <1>3, <2>1
  <2> QED BY <2>1, <2>2
<1> QED BY <1>4 DEF Min

\* A block is a text and what follows it.
Blocks == Seq({Mark, Other, End})

\* A sequence over a set is one over a larger one, and has a length.
LEMMA TextIsBlock ==
  ASSUME NEW t \in Texts \cup {<<>>}
  PROVE  t \in Blocks /\ Len(t) \in Nat /\ DOMAIN t = 1 .. Len(t)
<1>1. t \in Seq({Mark, Other})
  BY TextsAreSequences, EmptySeq
<1> QED BY <1>1, LenProperties DEF Blocks

\* What follows a text.
LEMMA EndsAreBlocks ==
  ASSUME NEW n \in Nat
  PROVE  Ends(n) \in Blocks /\ Len(Ends(n)) = n
<1>1. Ends(n) \in [1 .. n -> {Mark, Other, End}]
  BY DEF Ends
<1>2. Ends(n) \in Blocks
  BY <1>1, SeqDef DEF Blocks
<1> QED BY <1>1, <1>2 DEF Blocks

\* Nothing follows a directory or arguments.
LEMMA NothingFollows ==
  ASSUME NEW t \in Texts \cup {<<>>}
  PROVE  t \o Ends(0) = t
<1>1. Ends(0) = <<>>
  BY EndsAreBlocks, EmptySeq DEF Blocks
<1> QED BY <1>1, TextIsBlock, ConcatEmptySeq DEF Blocks

\* A snapshot holds the processes that run, each once.
LEMMA SnapshotIsRunning ==
  ASSUME NEW s \in SetToSeqs(Running)
  PROVE  /\ s \in Seq(Pids)
         /\ ToSet(s) = Running
         /\ Len(s) = Cardinality(Running)
<1> DEFINE D == 1 .. Cardinality(Running)
<1>1. IsFiniteSet(Running) /\ Cardinality(Running) \in Nat
  BY TargetIsOne, FS_Subset, FS_CardinalityType DEF Running
<1>2. s \in [D -> Running] /\ \A i, j \in D : i # j => s[i] # s[j]
  BY DEF SetToSeqs
<1>3. s \in Seq(Running) /\ Len(s) = Cardinality(Running)
  BY <1>1, <1>2, SeqDef
<1>4. s \in Injection(D, Running)
  BY <1>2 DEF Injection, IsInjective
<1>5. IsFiniteSet(D) /\ Cardinality(D) = Cardinality(Running)
  BY <1>1, FS_Interval
<1>6. s \in Surjection(D, Running)
  BY <1>1, <1>4, <1>5, FS_Injection
<1>7. ToSet(s) = Running
  BY <1>2, <1>6 DEF Surjection, ToSet
<1> QED BY <1>3, <1>7 DEF Running

\* A block is what it starts with and the rest.
LEMMA TextInTwo ==
  ASSUME NEW t \in Blocks, NEW n \in 0 .. Len(t)
  PROVE  SubSeq(t, 1, n) \o SubSeq(t, n + 1, Len(t)) = t
<1> DEFINE len == Len(t)
<1>1. t \in Seq({Mark, Other, End}) /\ len \in Nat
  BY LenProperties DEF Blocks
<1>2. n \in 1 - 1 .. len /\ 1 \in 1 .. len + 1 /\ len \in n .. len
  BY <1>1
<1>3. SubSeq(t, 1, n) \o SubSeq(t, n + 1, len) = SubSeq(t, 1, len)
  BY <1>1, <1>2, ConcatAdjacentSubSeq
<1> QED BY <1>1, <1>3, SubSeqFull

\* A part of a block that has marks only.
LEMMA PartOfMarks ==
  ASSUME NEW t \in Blocks, NEW m \in Nat, NEW last \in Nat, NEW n \in Nat,
         m > 0, last <= Len(t), m + n = last + 1,
         \A i \in m .. last : t[i] = Mark
  PROVE  SubSeq(t, m, last) = Marks(n)
<1> DEFINE s == SubSeq(t, m, last)
<1>1. Len(t) \in Nat /\ \A i \in 1 .. Len(t) : t[i] \in {Mark, Other, End}
  BY LenProperties DEF Blocks
<1>2. \A i \in m .. last : t[i] \in {Mark, Other, End}
  BY <1>1
<1>3. /\ s \in Seq({Mark, Other, End}) /\ Len(s) = n
      /\ \A i \in 1 .. n : s[i] = Mark
  <2>1. /\ s \in Seq({Mark, Other, End})
        /\ Len(s) = IF m <= last THEN (last - m) + 1 ELSE 0
        /\ \A i \in 1 .. (last - m) + 1 : s[i] = t[(m + i) - 1]
    BY <1>2, SubSeqProperties
  <2> QED BY <2>1
<1>4. Marks(n) \in Seq({Mark, Other, End}) /\ Len(Marks(n)) = n
  BY SeqDef DEF Marks
<1>5. \A i \in 1 .. n : s[i] = Marks(n)[i]
  BY <1>3 DEF Marks
<1> QED BY <1>3, <1>4, <1>5, SeqEqual

\* A directory without its last mark.
LEMMA FrontAndMark ==
  ASSUME NEW t \in Blocks, Len(t) > 3, Last(t) = Mark
  PROVE  Front(t) \o Marks(1) = t
<1> DEFINE n == Len(t) - 1
<1>1. Len(t) \in Nat /\ n \in 0 .. Len(t) /\ n + 1 = Len(t)
  BY LenProperties DEF Blocks
<1>2. SubSeq(t, 1, n) \o SubSeq(t, n + 1, Len(t)) = t
  BY <1>1, TextInTwo
<1>3. SubSeq(t, n + 1, Len(t)) = Marks(1)
  <2>1. \A i \in n + 1 .. Len(t) : t[i] = Mark
    BY <1>1 DEF Last
  <2>2. n + 1 \in Nat /\ n + 1 > 0 /\ (n + 1) + 1 = Len(t) + 1
    BY <1>1
  <2> HIDE DEF n
  <2> QED BY <1>1, <2>1, <2>2, PartOfMarks
<1>4. Front(t) = SubSeq(t, 1, n)
  BY DEF Front
<1> QED BY <1>2, <1>3, <1>4

\* The variables from the first one with a name on, and how many come before.
LEMMA ValidIsTheRest ==
  ASSUME buffer \in Blocks
  PROVE  /\ Valid \in Seq({Mark, Other, End})
         /\ IF Valid = <<>> THEN buffer = Marks(Len(buffer))
            ELSE /\ Valid[1] # Mark
                 /\ \E n \in 0 .. Len(buffer) : Marks(n) \o Valid = buffer
<1> DEFINE I == {i \in 1 .. Len(buffer) : buffer[i] # Mark}
           first == IF I # {} THEN Min(I) ELSE 0
<1>1. /\ buffer \in Seq({Mark, Other, End}) /\ Len(buffer) \in Nat
      /\ DOMAIN buffer = 1 .. Len(buffer)
      /\ \A i \in 1 .. Len(buffer) : buffer[i] \in {Mark, Other, End}
  BY LenProperties DEF Blocks
<1>2. Valid = IF first = 0 THEN <<>> ELSE SubSeq(buffer, first, Len(buffer))
  BY DEF Valid, SelectInSeq
<1>3. CASE I = {}
  <2>1. Valid = <<>>
    BY <1>2, <1>3
  <2>2. buffer = Marks(Len(buffer))
    BY <1>1, <1>3 DEF Marks
  <2> QED BY <2>1, <2>2, EmptySeq
<1>4. CASE I # {}
  <2> DEFINE n == first - 1
  <2>1. first \in I /\ \A i \in I : first <= i
    <3>1. I \subseteq Nat
      BY <1>1
    <3>2. first = Min(I)
      BY <1>4
    <3> HIDE DEF I, first
    <3> QED BY <1>4, <3>1, <3>2, LeastNumber
  <2> HIDE DEF first
  <2>2. /\ first \in 1 .. Len(buffer) /\ buffer[first] # Mark
        /\ n \in 0 .. Len(buffer) /\ n + 1 = first
    BY <1>1, <2>1
  <2>3. \A i \in 1 .. n : buffer[i] = Mark
    BY <1>1, <2>1, <2>2
  <2>4. Marks(n) = SubSeq(buffer, 1, n)
    <3>1. n \in Nat /\ n <= Len(buffer) /\ 1 + n = n + 1 /\ 1 > 0
      BY <1>1, <2>2
    <3> HIDE DEF n
    <3> QED BY <2>3, <3>1, PartOfMarks
  <2>5. Valid = SubSeq(buffer, n + 1, Len(buffer))
    BY <1>1, <1>2, <2>2
  <2>6. Marks(n) \o Valid = buffer
    BY <2>2, <2>4, <2>5, TextInTwo
  <2>7. /\ Valid \in Seq({Mark, Other, End}) /\ Len(Valid) > 0
        /\ Valid[1] = buffer[first]
    BY <1>1, <2>2, <2>5, SubSeqProperties
  <2> QED BY <2>2, <2>6, <2>7, EmptySeq
<1> QED BY <1>3, <1>4

\* Of the lines of a whole block the nameless ones that are skipped are lines of
\* the environment, and something is left.
LEMMA SomethingIsLeft ==
  ASSUME NEW t \in Texts \cup {<<>>}, NEW left \in Paddings,
         buffer = t \o Ends(left)
  PROVE  /\ Valid # <<>> /\ Valid[1] # Mark
         /\ \E n \in 0 .. Len(t) : Marks(n) \o Valid = t \o Ends(left)
<1> DEFINE k == Len(t) + 1
<1>1. /\ t \in Blocks /\ Ends(left) \in Blocks
      /\ Len(t) \in Nat /\ Len(Ends(left)) = left /\ left \in Nat /\ left > 0
  BY TextIsBlock, EndsAreBlocks, SizesArePositive
<1>2. /\ buffer \in Blocks /\ Len(buffer) = Len(t) + left
      /\ buffer[k] = Ends(left)[1]
  <2>1. /\ buffer \in Blocks /\ Len(buffer) = Len(t) + Len(Ends(left))
        /\ \A i \in 1 .. Len(t) + Len(Ends(left)) :
             buffer[i] = IF i <= Len(t) THEN t[i] ELSE Ends(left)[i - Len(t)]
    <3> DEFINE e == Ends(left)
    <3>1. t \in Seq({Mark, Other, End}) /\ e \in Seq({Mark, Other, End})
      BY <1>1 DEF Blocks
    <3>2. buffer = t \o e
      OBVIOUS
    <3> SUFFICES /\ buffer \in Blocks /\ Len(buffer) = Len(t) + Len(e)
                 /\ \A i \in 1 .. Len(t) + Len(e) :
                      buffer[i] = IF i <= Len(t) THEN t[i] ELSE e[i - Len(t)]
      OBVIOUS
    <3> HIDE DEF e
    <3>3. /\ t \o e \in Seq({Mark, Other, End})
          /\ Len(t \o e) = Len(t) + Len(e)
          /\ \A i \in 1 .. Len(t) + Len(e) :
               (t \o e)[i] = IF i <= Len(t) THEN t[i] ELSE e[i - Len(t)]
      BY <3>1, ConcatProperties
    <3> QED BY <3>2, <3>3 DEF Blocks
  <2>2. k \in 1 .. Len(t) + Len(Ends(left)) /\ ~(k <= Len(t)) /\ k - Len(t) = 1
    BY <1>1
  <2> QED BY <1>1, <2>1, <2>2
<1>3. Ends(left)[1] = End
  BY <1>1 DEF Ends
<1>4. k \in 1 .. Len(buffer) /\ buffer[k] # Mark
  BY <1>1, <1>2, <1>3, ElementsDiffer
<1>5. Len(buffer) \in Nat
  BY <1>2, LenProperties DEF Blocks
<1>6. ASSUME Valid = <<>> PROVE FALSE
  <2>1. buffer = Marks(Len(buffer))
    BY <1>2, <1>6, ValidIsTheRest
  <2>2. Marks(Len(buffer))[k] = Mark
    BY <1>4 DEF Marks
  <2> QED BY <1>4, <2>1, <2>2
<1>7. PICK n \in 0 .. Len(buffer) : Marks(n) \o Valid = buffer
  BY <1>2, <1>6, ValidIsTheRest
<1>8. ASSUME n > Len(t) PROVE FALSE
  <2>1. k \in 1 .. n /\ n \in Nat
    BY <1>1, <1>5, <1>7, <1>8
  <2>2. Marks(n) \in Blocks /\ Len(Marks(n)) = n /\ Marks(n)[k] = Mark
    BY <2>1, SeqDef DEF Marks, Blocks
  <2>3. Valid \in Blocks
    BY <1>2, ValidIsTheRest DEF Blocks
  <2>4. (Marks(n) \o Valid)[k] = Marks(n)[k]
    <3> HIDE DEF k
    <3> QED BY <2>1, <2>2, <2>3, ConcatProperties DEF Blocks
  <2> QED BY <1>4, <1>7, <2>2, <2>4
<1>9. n \in 0 .. Len(t)
  BY <1>1, <1>5, <1>7, <1>8
<1> QED BY <1>2, <1>6, <1>7, <1>9, ValidIsTheRest

\* What an answer says of itself.
LEMMA AnswerIsFoundOrNot ==
  /\ No.found = FALSE
  /\ \A value : Existing(value).found = TRUE
BY DEF No, Existing

-----------------------------------------------------------------------------
\* Other processes start, exit and go, and the target moves its text.
LEMMA MachineOK ==
  ASSUME IInv,
         \/ \E p \in Pids : Start(p)
         \/ \E p \in Pids : Exit(p)
         \/ \E p \in Pids : Reap(p)
         \/ Rewrite
  PROVE  IInv'
<1> USE DEF IInv, machine, history, Process, Snapshot, Param, PidArray,
           WideArgs, Narrow, Lines, ArgArray, VarArray, Arg, Var, No, TextCalls,
           CounterCalls, LimitedCalls, Asked, Exited, Converting
<1>1. ASSUME NEW p \in Pids, Start(p) PROVE IInv'
  <2>1. TypeOK'
    BY <1>1 DEF TypeOK, Phases, Calls, Running, Start, Change, Calling,
       Remembered
  <2>2. Phases'
    BY <1>1 DEF TypeOK, Phases, Result, Start, Change, Calling,
       Remembered
  <2>3. Listing' /\ Reading'
    BY <1>1 DEF TypeOK, Phases, Listing, Reading, Start, Change, Calling,
       Remembered
  <2>4. ListIsTheSnapshot' /\ TextIsTheTargets'
    BY <1>1 DEF Phases, ListIsTheSnapshot, TextIsTheTargets, Start, Change,
       Calling, Remembered
  <2> QED BY <2>1, <2>2, <2>3, <2>4
<1>2. ASSUME NEW p \in Pids, Exit(p) PROVE IInv'
  <2>1. TypeOK'
    BY <1>2 DEF TypeOK, Phases, Calls, Running, Exit, Change, Calling,
       Remembered
  <2>2. Phases'
    BY <1>2 DEF TypeOK, Phases, Result, Exit, Change, Calling,
       Remembered
  <2>3. Listing' /\ Reading'
    BY <1>2 DEF TypeOK, Phases, Listing, Reading, Exit, Change, Calling,
       Remembered
  <2>4. ListIsTheSnapshot' /\ TextIsTheTargets'
    BY <1>2 DEF Phases, ListIsTheSnapshot, TextIsTheTargets, Exit, Change,
       Calling, Remembered
  <2> QED BY <2>1, <2>2, <2>3, <2>4
<1>3. ASSUME NEW p \in Pids, Reap(p) PROVE IInv'
  <2>1. TypeOK'
    BY <1>3 DEF TypeOK, Phases, Calls, Running, Reap, Change, Calling,
       Remembered
  <2>2. Phases'
    BY <1>3 DEF TypeOK, Phases, Result, Reap, Change, Calling,
       Remembered
  <2>3. Listing' /\ Reading'
    BY <1>3 DEF TypeOK, Phases, Listing, Reading, Reap, Change, Calling,
       Remembered
  <2>4. ListIsTheSnapshot' /\ TextIsTheTargets'
    BY <1>3 DEF Phases, ListIsTheSnapshot, TextIsTheTargets, Reap, Change,
       Calling, Remembered
  <2> QED BY <2>1, <2>2, <2>3, <2>4
<1>4. CASE Rewrite
  <2>1. TypeOK'
    BY <1>4 DEF TypeOK, Phases, Calls, Running, Rewrite, Change, Calling,
       Remembered
  <2>2. Phases'
    BY <1>4 DEF TypeOK, Phases, Result, Rewrite, Change, Calling,
       Remembered
  <2>3. Listing' /\ Reading'
    BY <1>4 DEF TypeOK, Phases, Listing, Reading, Rewrite, Change, Calling,
       Remembered
  <2>4. ListIsTheSnapshot' /\ TextIsTheTargets'
    BY <1>4 DEF Phases, ListIsTheSnapshot, TextIsTheTargets, Rewrite,
       Change, Calling,
       Remembered
  <2> QED BY <2>1, <2>2, <2>3, <2>4
<1> QED BY <1>1, <1>2, <1>3, <1>4

\* A call begins, and its result is freed.
LEMMA CallsOK ==
  ASSUME IInv,
         \/ \E which \in Calls : Call(which)
         \/ FreeResult
  PROVE  IInv'
<1> USE DEF IInv, machine, history, Process, Snapshot, Param, PidArray,
           WideArgs, Narrow, Lines, ArgArray, VarArray, Arg, Var, No, TextCalls,
           CounterCalls, LimitedCalls, Asked, Exited, Converting
<1>1. ASSUME NEW which \in Calls, Call(which) PROVE IInv'
  <2>1. TypeOK'
    <3>1. buffer' \in Blocks /\ buffer' = <<>>
      BY <1>1, EmptySeq DEF Call, Blocks
    <3>2. pc' \in {"snapshot", "openRead", "openLimited"}
      BY <1>1 DEF Call
    <3>3. stayed' \subseteq Running' /\ Running' \subseteq appeared'
      BY <1>1 DEF Call, Running
    <3> QED BY <1>1, <3>1, <3>2, <3>3 DEF TypeOK, Phases, Call, Blocks
  <2>2. Phases'
    <3>1. CASE which = "list_pids"
      BY <1>1, <3>1 DEF Phases, Call
    <3>2. CASE which \in TextCalls
      BY <1>1, <3>2 DEF Phases, Call
    <3>3. CASE which \in LimitedCalls
      BY <1>1, <3>3 DEF Phases, Call
    <3> QED BY <3>1, <3>2, <3>3 DEF Calls
  <2>3. Listing' /\ Reading'
    BY <1>1 DEF TypeOK, Phases, Listing, Reading, Call
  <2>4. ListIsTheSnapshot' /\ TextIsTheTargets'
    BY <1>1 DEF Phases, ListIsTheSnapshot, TextIsTheTargets, Call
  <2> QED BY <2>1, <2>2, <2>3, <2>4
<1>2. CASE FreeResult
  <2>1. TypeOK'
    BY <1>2 DEF TypeOK, Phases, Calls, Running, FreeResult, Local
  <2>2. Phases'
    BY <1>2 DEF TypeOK, Phases, Result, FreeResult, Local
  <2>3. Listing' /\ Reading'
    BY <1>2 DEF TypeOK, Phases, Listing, Reading, FreeResult, Local
  <2>4. ListIsTheSnapshot' /\ TextIsTheTargets'
    BY <1>2 DEF Phases, ListIsTheSnapshot, TextIsTheTargets, FreeResult,
       Local
  <2> QED BY <2>1, <2>2, <2>3, <2>4
<1> QED BY <1>1, <1>2

\* A handle is opened to ask one question.
LEMMA LimitedOK ==
  ASSUME IInv,
         \/ OpenLimited
         \/ OpenFindsNone
         \/ OpenDenied
         \/ QueryExists
         \/ Query
  PROVE  IInv'
<1> USE DEF IInv, machine, history, Process, Snapshot, Param, PidArray,
           WideArgs, Narrow, Lines, ArgArray, VarArray, Arg, Var, No, TextCalls,
           CounterCalls, LimitedCalls, Asked, Exited, Converting
<1>1. CASE OpenLimited
  <2>1. TypeOK'
    BY <1>1 DEF TypeOK, Phases, Calls, Running, OpenLimited, Local
  <2>2. Phases'
    BY <1>1 DEF TypeOK, Phases, Result, OpenLimited, Local
  <2>3. Listing' /\ Reading'
    BY <1>1 DEF TypeOK, Phases, Listing, Reading, OpenLimited, Local
  <2>4. ListIsTheSnapshot' /\ TextIsTheTargets'
    BY <1>1 DEF Phases, ListIsTheSnapshot, TextIsTheTargets, OpenLimited,
       Local
  <2> QED BY <2>1, <2>2, <2>3, <2>4
<1>2. CASE OpenFindsNone
  <2>1. TypeOK'
    <3>1. answer'.found \in BOOLEAN
      <4>1. \/ answer' = answer \/ answer' = No
            \/ \E value : answer' = Existing(value)
        BY <1>2 DEF OpenFindsNone, Local, ReturnWith
      <4> QED BY <4>1, AnswerIsFoundOrNot DEF TypeOK
    <3>2. /\ UNCHANGED <<table, text, original, buffer, stayed, appeared, call,
                       length, moved>>
          /\ pc' \in {"query", "snapshot", "params", "returned"}
          /\ pc' \in {"query", "params"} => Process \in held'
          /\ Process \in held' => table[Target] # "free"
      BY <1>2 DEF TypeOK, Phases, OpenFindsNone, Local, ReturnWith, Existing
    <3>3. status' \in {"NONE", "INVALID_ARGUMENT", "MORE_DATA",
                       "OUT_OF_MEMORY", "UNKNOWN"}
      BY <1>2 DEF TypeOK, OpenFindsNone, Local, ReturnWith, Existing
    <3> QED BY <3>1, <3>2, <3>3 DEF TypeOK, Running, Calls
  <2>2. Phases'
    BY <1>2 DEF TypeOK, Phases, Result, OpenFindsNone, Local, ReturnWith,
       Existing
  <2>3. Listing' /\ Reading'
    BY <1>2 DEF TypeOK, Phases, Listing, Reading, OpenFindsNone, Local,
       ReturnWith, Existing
  <2>4. ListIsTheSnapshot' /\ TextIsTheTargets'
    BY <1>2 DEF Phases, ListIsTheSnapshot, TextIsTheTargets, OpenFindsNone,
       Local, ReturnWith, Existing
  <2> QED BY <2>1, <2>2, <2>3, <2>4
<1>3. CASE OpenDenied
  <2>1. TypeOK'
    <3>1. answer'.found \in BOOLEAN
      <4>1. \/ answer' = answer \/ answer' = No
            \/ \E value : answer' = Existing(value)
        BY <1>3 DEF OpenDenied, Local, ReturnWith
      <4> QED BY <4>1, AnswerIsFoundOrNot DEF TypeOK
    <3>2. /\ UNCHANGED <<table, text, original, buffer, stayed, appeared, call,
                       length, moved>>
          /\ pc' \in {"query", "snapshot", "params", "returned"}
          /\ pc' \in {"query", "params"} => Process \in held'
          /\ Process \in held' => table[Target] # "free"
      BY <1>3 DEF TypeOK, Phases, OpenDenied, Local, ReturnWith
    <3>3. status' \in {"NONE", "INVALID_ARGUMENT", "MORE_DATA",
                       "OUT_OF_MEMORY", "UNKNOWN"}
      BY <1>3 DEF TypeOK, OpenDenied, Local, ReturnWith
    <3> QED BY <3>1, <3>2, <3>3 DEF TypeOK, Running, Calls
  <2>2. Phases'
    BY <1>3 DEF TypeOK, Phases, Result, OpenDenied, Local, ReturnWith
  <2>3. Listing' /\ Reading'
    BY <1>3 DEF TypeOK, Phases, Listing, Reading, OpenDenied, Local,
       ReturnWith
  <2>4. ListIsTheSnapshot' /\ TextIsTheTargets'
    BY <1>3 DEF Phases, ListIsTheSnapshot, TextIsTheTargets, OpenDenied,
       Local, ReturnWith
  <2> QED BY <2>1, <2>2, <2>3, <2>4
<1>4. CASE QueryExists
  <2>1. TypeOK'
    <3>1. answer'.found \in BOOLEAN
      <4>1. \/ answer' = answer \/ answer' = No
            \/ \E value : answer' = Existing(value)
        BY <1>4 DEF QueryExists, Local, ReturnWith, StillActive
      <4> QED BY <4>1, AnswerIsFoundOrNot DEF TypeOK
    <3>2. /\ UNCHANGED <<table, text, original, buffer, stayed, appeared, call,
                       length, moved>>
          /\ pc' \in {"query", "snapshot", "params", "returned"}
          /\ pc' \in {"query", "params"} => Process \in held'
          /\ Process \in held' => table[Target] # "free"
      BY <1>4 DEF TypeOK, Phases, QueryExists, Local, ReturnWith, StillActive,
                  Existing
    <3>3. status' \in {"NONE", "INVALID_ARGUMENT", "MORE_DATA",
                       "OUT_OF_MEMORY", "UNKNOWN"}
      BY <1>4 DEF TypeOK, QueryExists, Local, ReturnWith, StillActive, Existing
    <3> QED BY <3>1, <3>2, <3>3 DEF TypeOK, Running, Calls
  <2>2. Phases'
    BY <1>4 DEF TypeOK, Phases, Result, QueryExists, Local, ReturnWith,
       Existing, StillActive
  <2>3. Listing' /\ Reading'
    BY <1>4 DEF TypeOK, Phases, Listing, Reading, QueryExists, Local,
       ReturnWith, Existing, StillActive
  <2>4. ListIsTheSnapshot' /\ TextIsTheTargets'
    BY <1>4 DEF Phases, ListIsTheSnapshot, TextIsTheTargets, QueryExists, Local,
       ReturnWith, Existing, StillActive
  <2> QED BY <2>1, <2>2, <2>3, <2>4
<1>5. CASE Query
  <2>1. TypeOK'
    <3>1. answer'.found \in BOOLEAN
      <4>1. \/ answer' = answer \/ answer' = No
            \/ \E value : answer' = Existing(value)
        BY <1>5 DEF Query, Local, ReturnWith
      <4> QED BY <4>1, AnswerIsFoundOrNot DEF TypeOK
    <3>2. /\ UNCHANGED <<table, text, original, buffer, stayed, appeared, call,
                       length, moved>>
          /\ pc' \in {"query", "snapshot", "params", "returned"}
          /\ pc' \in {"query", "params"} => Process \in held'
          /\ Process \in held' => table[Target] # "free"
      BY <1>5 DEF TypeOK, Phases, Query, Local, ReturnWith, Existing
    <3>3. status' \in {"NONE", "INVALID_ARGUMENT", "MORE_DATA",
                       "OUT_OF_MEMORY", "UNKNOWN"}
      BY <1>5 DEF TypeOK, Query, Local, ReturnWith, Existing
    <3> QED BY <3>1, <3>2, <3>3 DEF TypeOK, Running, Calls
  <2>2. Phases'
    BY <1>5 DEF TypeOK, Phases, Result, Query, Local, ReturnWith, Existing
  <2>3. Listing' /\ Reading'
    BY <1>5 DEF TypeOK, Phases, Listing, Reading, Query, Local, ReturnWith,
       Existing
  <2>4. ListIsTheSnapshot' /\ TextIsTheTargets'
    BY <1>5 DEF Phases, ListIsTheSnapshot, TextIsTheTargets, Query, Local,
       ReturnWith, Existing
  <2> QED BY <2>1, <2>2, <2>3, <2>4
<1> QED BY <1>1, <1>2, <1>3, <1>4, <1>5

\* The list of processes is taken and walked.
LEMMA SnapshotOK ==
  ASSUME IInv,
         \/ TakeSnapshot
         \/ NoSnapshot
         \/ FindEntry
         \/ CountPids
         \/ FillPids
         \/ ListPidsFails
  PROVE  IInv'
<1> USE DEF IInv, machine, history, Process, Snapshot, Param, PidArray,
           WideArgs, Narrow, Lines, ArgArray, VarArray, Arg, Var, No, TextCalls,
           CounterCalls, LimitedCalls, Asked, Exited, Converting
<1>1. CASE TakeSnapshot
  <2>1. TypeOK'
    BY <1>1 DEF TypeOK, Phases, Calls, Running, TakeSnapshot
  <2>2. Phases'
    BY <1>1 DEF TypeOK, Phases, Result, TakeSnapshot
  <2>3. Listing' /\ Reading'
    <3>1. /\ snapshot' \in Seq(Pids) /\ ToSet(snapshot') = Running
          /\ Len(snapshot') = Cardinality(Running)
      BY <1>1, SnapshotIsRunning DEF TakeSnapshot
    <3> QED BY <1>1, <3>1 DEF TypeOK, Listing, Reading, TakeSnapshot
  <2>4. ListIsTheSnapshot' /\ TextIsTheTargets'
    BY <1>1 DEF Phases, ListIsTheSnapshot, TextIsTheTargets, TakeSnapshot
  <2> QED BY <2>1, <2>2, <2>3, <2>4
<1>2. CASE NoSnapshot
  <2>1. TypeOK'
    <3>1. answer'.found \in BOOLEAN
      <4>1. \/ answer' = answer \/ answer' = No
            \/ \E value : answer' = Existing(value)
        BY <1>2 DEF NoSnapshot, Local, ReturnWith
      <4> QED BY <4>1, AnswerIsFoundOrNot DEF TypeOK
    <3>2. /\ UNCHANGED <<table, text, original, buffer, stayed, appeared, call,
                       length, moved>>
          /\ pc' \in {"query", "snapshot", "params", "returned"}
          /\ pc' \in {"query", "params"} => Process \in held'
          /\ Process \in held' => table[Target] # "free"
      BY <1>2 DEF TypeOK, Phases, NoSnapshot, Local, ReturnWith, Existing
    <3>3. status' \in {"NONE", "INVALID_ARGUMENT", "MORE_DATA",
                       "OUT_OF_MEMORY", "UNKNOWN"}
      BY <1>2 DEF TypeOK, NoSnapshot, Local, ReturnWith, Existing
    <3> QED BY <3>1, <3>2, <3>3 DEF TypeOK, Running, Calls
  <2>2. Phases'
    BY <1>2 DEF TypeOK, Phases, Result, NoSnapshot, Local, ReturnWith,
       Existing
  <2>3. Listing' /\ Reading'
    BY <1>2 DEF TypeOK, Phases, Listing, Reading, NoSnapshot, Local,
       ReturnWith, Existing
  <2>4. ListIsTheSnapshot' /\ TextIsTheTargets'
    BY <1>2 DEF Phases, ListIsTheSnapshot, TextIsTheTargets, NoSnapshot,
       Local, ReturnWith, Existing
  <2> QED BY <2>1, <2>2, <2>3, <2>4
<1>3. CASE FindEntry
  <2>1. TypeOK'
    <3>1. answer'.found \in BOOLEAN
      <4>1. \/ answer' = answer \/ answer' = No
            \/ \E value : answer' = Existing(value)
        BY <1>3 DEF FindEntry, Local, ReturnWith
      <4> QED BY <4>1, AnswerIsFoundOrNot DEF TypeOK
    <3>2. /\ UNCHANGED <<table, text, original, buffer, stayed, appeared, call,
                       length, moved>>
          /\ pc' \in {"query", "snapshot", "params", "returned"}
          /\ pc' \in {"query", "params"} => Process \in held'
          /\ Process \in held' => table[Target] # "free"
      BY <1>3 DEF TypeOK, Phases, FindEntry, Local, ReturnWith, Existing
    <3>3. status' \in {"NONE", "INVALID_ARGUMENT", "MORE_DATA",
                       "OUT_OF_MEMORY", "UNKNOWN"}
      BY <1>3 DEF TypeOK, FindEntry, Local, ReturnWith, Existing
    <3> QED BY <3>1, <3>2, <3>3 DEF TypeOK, Running, Calls
  <2>2. Phases'
    BY <1>3 DEF TypeOK, Phases, Result, FindEntry, Local, ReturnWith,
       Existing
  <2>3. Listing' /\ Reading'
    BY <1>3 DEF TypeOK, Phases, Listing, Reading, FindEntry, Local,
       ReturnWith, Existing
  <2>4. ListIsTheSnapshot' /\ TextIsTheTargets'
    BY <1>3 DEF Phases, ListIsTheSnapshot, TextIsTheTargets, FindEntry,
       Local, ReturnWith, Existing
  <2> QED BY <2>1, <2>2, <2>3, <2>4
<1>4. CASE CountPids
  <2>1. TypeOK'
    BY <1>4 DEF TypeOK, Phases, Calls, Running, CountPids
  <2>2. Phases'
    BY <1>4 DEF TypeOK, Phases, Result, CountPids
  <2>3. Listing' /\ Reading'
    BY <1>4 DEF TypeOK, Phases, Listing, Reading, CountPids
  <2>4. ListIsTheSnapshot' /\ TextIsTheTargets'
    BY <1>4 DEF Phases, ListIsTheSnapshot, TextIsTheTargets, CountPids
  <2> QED BY <2>1, <2>2, <2>3, <2>4
<1>5. CASE FillPids
  <2>1. TypeOK'
    BY <1>5 DEF TypeOK, Phases, Calls, Running, FillPids, Local, ReturnWith,
       Listed
  <2>2. Phases'
    BY <1>5 DEF TypeOK, Phases, Result, FillPids, Local, ReturnWith, Listed
  <2>3. Listing' /\ Reading'
    BY <1>5 DEF TypeOK, Phases, Listing, Reading, FillPids, Local,
       ReturnWith, Listed
  <2>4. ListIsTheSnapshot' /\ TextIsTheTargets'
    <3>1. answer'.value = snapshot
      BY <1>5 DEF FillPids, ReturnWith, Listed
    <3>2. UNCHANGED <<stayed, appeared, length, call>> /\ call = "list_pids"
      BY <1>5 DEF FillPids, Local, Phases
    <3>3. pc = "fill"
      BY <1>5 DEF FillPids
    <3> QED BY <3>1, <3>2, <3>3
        DEF Listing, ListIsTheSnapshot, TextIsTheTargets
  <2> QED BY <2>1, <2>2, <2>3, <2>4
<1>6. CASE ListPidsFails
  <2>1. TypeOK'
    BY <1>6 DEF TypeOK, Phases, Calls, Running, ListPidsFails, Local,
       ReturnWith
  <2>2. Phases'
    BY <1>6 DEF TypeOK, Phases, Result, ListPidsFails, Local, ReturnWith
  <2>3. Listing' /\ Reading'
    BY <1>6 DEF TypeOK, Phases, Listing, Reading, ListPidsFails, Local,
       ReturnWith
  <2>4. ListIsTheSnapshot' /\ TextIsTheTargets'
    BY <1>6 DEF Phases, ListIsTheSnapshot, TextIsTheTargets, ListPidsFails,
       Local, ReturnWith
  <2> QED BY <2>1, <2>2, <2>3, <2>4
<1> QED BY <1>1, <1>2, <1>3, <1>4, <1>5, <1>6

\* A text is found and read.
LEMMA ReadOK ==
  ASSUME IInv,
         \/ OpenRead
         \/ ReadParams
         \/ ReadParamsFails
         \/ ReadData
         \/ ReadDataFails
  PROVE  IInv'
<1> USE DEF IInv, machine, history, Process, Snapshot, Param, PidArray,
           WideArgs, Narrow, Lines, ArgArray, VarArray, Arg, Var, No, TextCalls,
           CounterCalls, LimitedCalls, Asked, Exited, Converting
<1>1. CASE OpenRead
  <2>1. TypeOK'
    <3>1. answer'.found \in BOOLEAN
      <4>1. \/ answer' = answer \/ answer' = No
            \/ \E value : answer' = Existing(value)
        BY <1>1 DEF OpenRead, Local, ReturnWith
      <4> QED BY <4>1, AnswerIsFoundOrNot DEF TypeOK
    <3>2. /\ UNCHANGED <<table, text, original, buffer, stayed, appeared, call,
                       length, moved>>
          /\ pc' \in {"query", "snapshot", "params", "returned"}
          /\ pc' \in {"query", "params"} => Process \in held'
          /\ Process \in held' => table[Target] # "free"
      BY <1>1 DEF TypeOK, Phases, OpenRead, Local, ReturnWith
    <3>3. status' \in {"NONE", "INVALID_ARGUMENT", "MORE_DATA",
                       "OUT_OF_MEMORY", "UNKNOWN"}
      BY <1>1 DEF TypeOK, OpenRead, Local, ReturnWith
    <3> QED BY <3>1, <3>2, <3>3 DEF TypeOK, Running, Calls
  <2>2. Phases'
    BY <1>1 DEF TypeOK, Phases, Result, OpenRead, Local, ReturnWith
  <2>3. Listing' /\ Reading'
    BY <1>1 DEF TypeOK, Phases, Listing, Reading, OpenRead, Local,
       ReturnWith
  <2>4. ListIsTheSnapshot' /\ TextIsTheTargets'
    BY <1>1 DEF Phases, ListIsTheSnapshot, TextIsTheTargets, OpenRead,
       Local, ReturnWith
  <2> QED BY <2>1, <2>2, <2>3, <2>4
<1>2. CASE ReadParams
  <2>1. PICK n \in IF call = "environ" THEN Paddings ELSE {0} :
          length' = Len(text) + n
    BY <1>2 DEF ReadParams, LengthIsRead
  <2>2. length' \in Nat
    <3>1. n \in Nat /\ Len(text) \in Nat
      BY SizesArePositive, TextIsBlock DEF TypeOK
    <3> QED BY <2>1, <3>1
  <2>3. TypeOK'
    BY <1>2, <2>2 DEF TypeOK, Phases, Calls, Running, ReadParams
  <2>4. Phases'
    BY <1>2 DEF TypeOK, Phases, Result, ReadParams
  <2>5. Listing' /\ Reading'
    BY <1>2, <2>1 DEF Listing, Reading, ReadParams
  <2>6. ListIsTheSnapshot' /\ TextIsTheTargets'
    BY <1>2 DEF Phases, ListIsTheSnapshot, TextIsTheTargets, ReadParams
  <2> QED BY <2>3, <2>4, <2>5, <2>6
<1>3. CASE ReadParamsFails
  <2>1. TypeOK'
    BY <1>3 DEF TypeOK, Phases, Calls, Running, ReadParamsFails, Local,
       ReturnWith
  <2>2. Phases'
    BY <1>3 DEF TypeOK, Phases, Result, ReadParamsFails, Local, ReturnWith
  <2>3. Listing' /\ Reading'
    BY <1>3 DEF TypeOK, Phases, Listing, Reading, ReadParamsFails, Local,
       ReturnWith
  <2>4. ListIsTheSnapshot' /\ TextIsTheTargets'
    BY <1>3 DEF Phases, ListIsTheSnapshot, TextIsTheTargets,
       ReadParamsFails, Local, ReturnWith
  <2> QED BY <2>1, <2>2, <2>3, <2>4
<1>4. CASE ReadData
  <2>1. PICK n \in IF call = "environ" THEN Paddings ELSE {0} :
          length = Len(original) + n
    BY <1>4 DEF Reading, ReadData
  <2>2. n \in Nat /\ length \in Nat /\ Len(original) \in Nat
    BY SizesArePositive, TextIsBlock DEF TypeOK
  <2>3. ASSUME moved PROVE buffer' \in Blocks
    <3>1. buffer' \in Blocks
      <4>1. CASE call = "cwd"
        <5>1. buffer' \in [1 .. length -> {Mark, Other, End}]
          BY <1>4, <2>3, <4>1 DEF ReadData, Found
        <5> QED BY <2>2, <5>1, SeqDef DEF Blocks
      <4>2. CASE call # "cwd"
        BY <1>4, <2>3, <4>2, TextsAreSequences DEF ReadData, Found, Blocks
      <4> QED BY <4>1, <4>2
    <3> QED BY <3>1
  <2>4. ASSUME ~moved
        PROVE  buffer' = original \o Ends(n) /\ buffer' \in Blocks
    <3>1. text = original /\ length - Len(text) = n
      BY <1>4, <2>1, <2>2, <2>4 DEF Reading, ReadData
    <3>2. buffer' = original \o Ends(n)
      BY <1>4, <2>4, <3>1 DEF ReadData, Found
    <3>3. buffer' \in Blocks
      BY <2>2, <3>2, TextIsBlock, EndsAreBlocks, ConcatProperties
         DEF TypeOK, Blocks
    <3> QED BY <3>2, <3>3
  <2>5. buffer' \in Blocks
    BY <2>3, <2>4
  <2>6. TypeOK'
    BY <1>4, <2>5 DEF TypeOK, Phases, Calls, Running, ReadData, Blocks
  <2>7. Phases'
    BY <1>4 DEF TypeOK, Phases, Result, ReadData
  <2>8. Listing' /\ Reading'
    BY <1>4, <2>4 DEF TypeOK, Phases, Listing, Reading, ReadData
  <2>9. ListIsTheSnapshot' /\ TextIsTheTargets'
    BY <1>4 DEF Phases, ListIsTheSnapshot, TextIsTheTargets, ReadData
  <2> QED BY <2>6, <2>7, <2>8, <2>9
<1>5. CASE ReadDataFails
  <2>1. TypeOK'
    BY <1>5 DEF TypeOK, Phases, Calls, Running, ReadDataFails, Local,
       ReturnWith
  <2>2. Phases'
    BY <1>5 DEF TypeOK, Phases, Result, ReadDataFails, Local, ReturnWith
  <2>3. Listing' /\ Reading'
    BY <1>5 DEF TypeOK, Phases, Listing, Reading, ReadDataFails, Local,
       ReturnWith
  <2>4. ListIsTheSnapshot' /\ TextIsTheTargets'
    BY <1>5 DEF Phases, ListIsTheSnapshot, TextIsTheTargets, ReadDataFails,
       Local, ReturnWith
  <2> QED BY <2>1, <2>2, <2>3, <2>4
<1> QED BY <1>1, <1>2, <1>3, <1>4, <1>5

\* The text is turned into what the caller gets.
LEMMA ConvertOK ==
  ASSUME IInv,
         \/ ConvertCwd
         \/ SplitArguments \/ NarrowEnvironment \/ SplitLines
         \/ ConvertFails
         \/ CopyArguments
         \/ CopyVariables
         \/ NoVariables
         \/ Crash
  PROVE  IInv'
<1> USE DEF IInv, machine, history, Process, Snapshot, Param, PidArray,
           WideArgs, Narrow, Lines, ArgArray, VarArray, Arg, Var, No, TextCalls,
           CounterCalls, LimitedCalls, Asked, Exited, Converting
<1>1. CASE ConvertCwd
  <2>1. TypeOK'
    <3>1. answer'.found \in BOOLEAN
      <4>1. \/ answer' = No
            \/ \E bytes, n, capacity :
                 answer' = [found |-> TRUE, value |-> bytes,
                            last |-> n, capacity |-> capacity]
        BY <1>1, Zenon DEF ConvertCwd, ReturnWith
      <4>2. \A bytes, n, capacity :
              [found |-> TRUE, value |-> bytes,
               last |-> n, capacity |-> capacity].found = TRUE
        OBVIOUS
      <4> QED BY <4>1, <4>2, AnswerIsFoundOrNot
    <3>2. /\ UNCHANGED <<table, text, original, buffer, stayed, appeared, call,
                       length, moved>>
          /\ pc' = "returned" /\ held' = {}
      BY <1>1 DEF ConvertCwd, Local, ReturnWith, WithoutParam, Phases
    <3>3. status' \in {"NONE", "MORE_DATA"}
      BY <1>1 DEF ConvertCwd, ReturnWith
    <3> QED BY <3>1, <3>2, <3>3 DEF TypeOK, Running, Calls
  <2>2. Phases'
    BY <1>1 DEF TypeOK, Phases, Result, ConvertCwd, Local, ReturnWith,
       WithoutParam
  <2>3. Listing' /\ Reading'
    BY <1>1 DEF TypeOK, Phases, Listing, Reading, ConvertCwd, Local,
       ReturnWith, WithoutParam
  <2>4. ListIsTheSnapshot' /\ TextIsTheTargets'
    <3>1. SUFFICES ASSUME status' = "NONE", answer'.capacity > 1
                   PROVE  /\ answer'.last < answer'.capacity
                          /\ ~moved =>
                               IF Len(original) > 3 /\ Last(original) = Mark
                               THEN answer'.value \o Marks(1) = original
                               ELSE answer'.value = original
      BY <1>1 DEF Phases, ListIsTheSnapshot, TextIsTheTargets, ConvertCwd,
               Local
    <3>2. PICK capacity \in Capacities :
            /\ answer'.last = Len(buffer) /\ answer'.capacity = capacity
            /\ capacity # 1 => /\ ~(Len(buffer) > capacity - 1)
                               /\ answer'.value = Trimmed
      BY <1>1, <3>1 DEF ConvertCwd, ReturnWith
    <3>3. capacity \in Nat /\ capacity > 1 /\ Len(buffer) \in Nat
      BY <3>1, <3>2, SizesArePositive, LenProperties DEF TypeOK
    <3>4. ~moved => buffer = original
      BY <1>1, NothingFollows DEF Phases, Reading, ConvertCwd, TypeOK
    <3>5. Len(original) > 3 /\ Last(original) = Mark =>
            Front(original) \o Marks(1) = original
      BY FrontAndMark, TextIsBlock DEF TypeOK
    <3>6. Len(buffer) < capacity
      BY <3>2, <3>3
    <3>7. ~moved =>
            answer'.value = IF Len(original) > 3 /\ Last(original) = Mark
                            THEN Front(original) ELSE original
      BY <3>2, <3>3, <3>4 DEF Trimmed
    <3> QED BY <3>2, <3>5, <3>6, <3>7
  <2> QED BY <2>1, <2>2, <2>3, <2>4
<1>2. CASE SplitArguments \/ NarrowEnvironment \/ SplitLines
  <2> USE DEF SplitArguments, NarrowEnvironment, SplitLines
  <2>1. TypeOK'
    BY <1>2 DEF TypeOK, Phases, Calls, Running, Local, WithoutParam
  <2>2. Phases'
    BY <1>2 DEF TypeOK, Phases, Result, Local, WithoutParam
  <2>3. Listing'
    BY <1>2 DEF Listing, Local
  <2>4. Reading'
    BY <1>2 DEF Phases, Reading, Local
  <2>5. ListIsTheSnapshot' /\ TextIsTheTargets'
    BY <1>2 DEF ListIsTheSnapshot, TextIsTheTargets, Local
  <2> QED BY <2>1, <2>2, <2>3, <2>4, <2>5
<1>3. CASE ConvertFails
  <2>1. TypeOK'
    <3>1. /\ answer' = No /\ status' \in {"UNKNOWN", "OUT_OF_MEMORY"}
          /\ pc' = "returned" /\ held' = {}
      BY <1>3 DEF Phases, ConvertFails, ReturnWith
    <3>2. UNCHANGED <<table, text, original, buffer, stayed, appeared, call,
                      length, moved>>
      BY <1>3 DEF ConvertFails, Local
    <3> QED BY <3>1, <3>2, AnswerIsFoundOrNot DEF TypeOK, Running, Calls
  <2>2. Phases'
    BY <1>3 DEF TypeOK, Phases, Result, ConvertFails, Local, ReturnWith
  <2>3. Listing' /\ Reading'
    BY <1>3 DEF TypeOK, Phases, Listing, Reading, ConvertFails, Local,
       ReturnWith
  <2>4. ListIsTheSnapshot' /\ TextIsTheTargets'
    BY <1>3 DEF Phases, ListIsTheSnapshot, TextIsTheTargets, ConvertFails,
       Local, ReturnWith
  <2> QED BY <2>1, <2>2, <2>3, <2>4
<1>4. CASE CopyArguments
  <2>1. TypeOK'
    BY <1>4 DEF TypeOK, Phases, Calls, Running, CopyArguments, Local,
       ReturnWith, Copied
  <2>2. Phases'
    BY <1>4 DEF TypeOK, Phases, Result, CopyArguments, Local, ReturnWith,
       Copied
  <2>3. Listing' /\ Reading'
    BY <1>4 DEF TypeOK, Phases, Listing, Reading, CopyArguments, Local,
       ReturnWith, Copied
  <2>4. ListIsTheSnapshot' /\ TextIsTheTargets'
    <3>1. PICK argc \in 0 .. Len(buffer) :
            /\ status' = IF argc = Len(buffer) THEN "NONE"
                                              ELSE "OUT_OF_MEMORY"
            /\ answer' = [found |-> TRUE, value |-> SubSeq(buffer, 1, argc)]
      BY <1>4 DEF CopyArguments, Copied, ReturnWith
    <3>2. SubSeq(buffer, 1, Len(buffer)) = buffer
      BY SubSeqFull DEF TypeOK
    <3>3. /\ call = "cmdline" /\ pc \in Converting
          /\ UNCHANGED <<call, original, moved>>
      BY <1>4 DEF Phases, CopyArguments, Copied, Local
    <3>4. ASSUME ~moved PROVE buffer = original
      <4>1. PICK n \in {0} : buffer = original \o Ends(n)
        BY <3>3, <3>4 DEF Reading
      <4>2. original \in Texts \cup {<<>>}
        BY DEF TypeOK
      <4>3. original \o Ends(0) = original
        BY <4>2, NothingFollows
      <4> QED BY <4>1, <4>3
    <3>5. status' = "NONE" => answer'.value = buffer
      BY <3>1, <3>2
    <3>6. call' = "cmdline" /\ moved' = moved /\ original' = original
      BY <3>3
    <3>7. ListIsTheSnapshot'
      BY <3>6 DEF ListIsTheSnapshot
    <3>8. TextIsTheTargets'
      BY <3>4, <3>5, <3>6 DEF TextIsTheTargets
    <3> QED BY <3>7, <3>8
  <2> QED BY <2>1, <2>2, <2>3, <2>4
<1>5. CASE CopyVariables
  <2>1. TypeOK'
    BY <1>5 DEF TypeOK, Phases, Calls, Running, CopyVariables, Local,
       ReturnWith, Copied
  <2>2. Phases'
    BY <1>5 DEF TypeOK, Phases, Result, CopyVariables, Local, ReturnWith,
       Copied
  <2>3. Listing' /\ Reading'
    BY <1>5 DEF TypeOK, Phases, Listing, Reading, CopyVariables, Local,
       ReturnWith, Copied
  <2>4. ListIsTheSnapshot' /\ TextIsTheTargets'
    <3>1. PICK count \in 0 .. Len(Valid) :
            /\ status' = IF count = Len(Valid) THEN "NONE"
                                              ELSE "OUT_OF_MEMORY"
            /\ answer' = [found |-> TRUE, value |-> SubSeq(Valid, 1, count)]
      BY <1>5 DEF CopyVariables, Copied, ReturnWith
    <3>2. SubSeq(Valid, 1, Len(Valid)) = Valid
      BY ValidIsTheRest, SubSeqFull DEF TypeOK, Blocks
    <3>3. /\ call = "environ" /\ pc \in Converting /\ Valid # <<>>
          /\ UNCHANGED <<call, original, moved>>
      BY <1>5 DEF Phases, CopyVariables, Copied, Local
    <3>4. Valid[1] # Mark
      BY <3>3, ValidIsTheRest DEF TypeOK, Blocks
    <3>5. ~moved =>
            \E nameless \in 0 .. Len(original), left \in Paddings :
              Marks(nameless) \o Valid = original \o Ends(left)
      BY <3>3, SomethingIsLeft DEF Reading, TypeOK
    <3>6. /\ answer'.found = TRUE
          /\ status' = "NONE" => answer'.value = Valid
      BY <3>1, <3>2
    <3> QED BY <3>3, <3>4, <3>5, <3>6 DEF ListIsTheSnapshot, TextIsTheTargets
  <2> QED BY <2>1, <2>2, <2>3, <2>4
<1>6. CASE NoVariables
  <2>1. TypeOK'
    BY <1>6 DEF TypeOK, Phases, Calls, Running, NoVariables, Local,
       ReturnWith
  <2>2. Phases'
    BY <1>6 DEF TypeOK, Phases, Result, NoVariables, Local, ReturnWith
  <2>3. Listing' /\ Reading'
    BY <1>6 DEF TypeOK, Phases, Listing, Reading, NoVariables, Local,
       ReturnWith
  <2>4. ListIsTheSnapshot' /\ TextIsTheTargets'
    <3>1. /\ call = "environ" /\ pc \in Converting /\ Valid = <<>>
          /\ UNCHANGED <<call, original, moved>>
          /\ answer'.found = FALSE
      BY <1>6 DEF Phases, NoVariables, ReturnWith, Local
    <3>2. moved
      BY <3>1, SomethingIsLeft DEF Reading, TypeOK
    <3> QED BY <3>1, <3>2 DEF ListIsTheSnapshot, TextIsTheTargets
  <2> QED BY <2>1, <2>2, <2>3, <2>4
<1>7. CASE Crash
  <2>1. TypeOK'
    BY <1>7 DEF TypeOK, Phases, Calls, Running, Crash, Local
  <2>2. Phases'
    BY <1>7 DEF TypeOK, Phases, Result, Crash, Local
  <2>3. Listing' /\ Reading'
    BY <1>7 DEF TypeOK, Phases, Listing, Reading, Crash, Local
  <2>4. ListIsTheSnapshot' /\ TextIsTheTargets'
    BY <1>7 DEF Phases, ListIsTheSnapshot, TextIsTheTargets, Crash, Local
  <2> QED BY <2>1, <2>2, <2>3, <2>4
<1> QED BY <1>1, <1>2, <1>3, <1>4, <1>5, <1>6, <1>7

-----------------------------------------------------------------------------
\* The initial states.
LEMMA InitOK == ASSUME Init PROVE IInv
<1>1. TypeOK
  BY EmptySeq, AnswerIsFoundOrNot DEF Init, TypeOK, Running, Process
<1>2. Phases /\ Listing /\ Reading
  BY DEF Init, Phases, Listing, Reading, TextCalls, Converting
<1>3. ListIsTheSnapshot /\ TextIsTheTargets
  BY DEF Init, ListIsTheSnapshot, TextIsTheTargets
<1> QED BY <1>1, <1>2, <1>3 DEF IInv

\* Every step keeps the invariant.
LEMMA StepOK == ASSUME IInv, [Next]_vars PROVE IInv'
<1>1. CASE UNCHANGED vars
  <2> USE <1>1 DEF vars, machine, history, IInv
  <2>1. TypeOK'
    BY DEF TypeOK, Running
  <2>2. Phases'
    BY DEF Phases, Result
  <2>3. Listing' /\ Reading'
    BY DEF Listing, Reading
  <2>4. ListIsTheSnapshot' /\ TextIsTheTargets'
    BY DEF ListIsTheSnapshot, TextIsTheTargets
  <2> QED BY <2>1, <2>2, <2>3, <2>4
<1> QED BY <1>1, MachineOK, CallsOK, LimitedOK, SnapshotOK, ReadOK, ConvertOK
    DEF Next

\* Only the calls about existence have this answer to give.
LEMMA OthersDoNotAnswer ==
  ASSUME IInv, Next, call = "pid_exists", pc # "returned", pc' = "returned"
  PROVE  OpenFindsNone \/ QueryExists \/ NoSnapshot \/ FindEntry
<1> USE DEF IInv, Phases, TextCalls, Asked
<1>1. ~\E p \in Pids : Start(p) \/ Exit(p) \/ Reap(p)
  BY DEF Start, Exit, Reap, Calling
<1>2. ~Rewrite /\ (~\E which \in Calls : Call(which)) /\ ~FreeResult
  BY DEF Rewrite, Calling, Call, FreeResult
<1>3. ~OpenLimited /\ ~TakeSnapshot /\ ~Query
  BY DEF OpenLimited, TakeSnapshot, Query
<1>4. ~OpenDenied
  BY DEF OpenDenied
<1>5. ~CountPids /\ ~FillPids /\ ~ListPidsFails
  BY DEF CountPids, FillPids, ListPidsFails
<1>6. ~OpenRead /\ ~ReadParams /\ ~ReadParamsFails /\ ~ReadData
      /\ ~ReadDataFails
  BY DEF OpenRead, ReadParams, ReadParamsFails, ReadData, ReadDataFails
<1>7. ~ConvertCwd /\ ~SplitArguments /\ ~NarrowEnvironment /\ ~SplitLines
  BY DEF ConvertCwd, SplitArguments, NarrowEnvironment, SplitLines
<1>8. ~ConvertFails /\ ~CopyArguments /\ ~CopyVariables /\ ~NoVariables
      /\ ~Crash
  BY DEF ConvertFails, CopyArguments, CopyVariables, NoVariables, Crash
<1> QED BY <1>1, <1>2, <1>3, <1>4, <1>5, <1>6, <1>7, <1>8 DEF Next

\* What a step that answers whether the target exists may say.
LEMMA ExistsStepOK ==
  ASSUME IInv, Next, call = "pid_exists", pc # "returned", pc' = "returned"
  PROVE  IF answer'.value
         THEN \/ Target \in appeared
              \/ table[Target] = "exited259"
              \/ table[Target] = "exited" /\ refused'
         ELSE Target \notin stayed \/ refused'
<1>1. /\ stayed \subseteq Running /\ Running \subseteq appeared
      /\ table[Target] \in {"free", "running"} \cup Exited
      /\ Target \in Running <=> table[Target] = "running"
  BY TargetIsOne DEF IInv, TypeOK, Running
<1>2. CASE OpenFindsNone
  <2>1. answer'.value = FALSE /\ table[Target] = "free"
    BY <1>2 DEF OpenFindsNone, ReturnWith, Existing
  <2> QED BY <1>1, <2>1
<1>3. CASE QueryExists
  <2>1. table[Target] # "free"
    BY <1>3 DEF IInv, TypeOK, QueryExists
  <2>2. \/ answer' = Existing(StillActive)
        \/ answer' = Existing(TRUE) /\ refused' = TRUE
    BY <1>3 DEF QueryExists, ReturnWith
  <2>3. \/ answer'.value = StillActive
        \/ answer'.value = TRUE /\ refused' = TRUE
    BY <2>2 DEF Existing
  <2> QED BY <1>1, <2>1, <2>3 DEF StillActive, Exited
<1>4. CASE NoSnapshot
  <2>1. answer'.value = FALSE /\ refused'
    BY <1>4 DEF NoSnapshot, ReturnWith, Existing
  <2> QED BY <2>1
<1>5. CASE FindEntry
  <2>1. answer'.value = Contains(snapshot, Target) /\ pc = "find"
    BY <1>5 DEF FindEntry, ReturnWith, Existing
  <2>2. /\ DOMAIN snapshot = 1 .. Len(snapshot)
        /\ stayed \subseteq ToSet(snapshot)
        /\ ToSet(snapshot) \subseteq appeared
    BY <2>1, LenProperties DEF IInv, Listing
  <2>3. Contains(snapshot, Target) <=> Target \in ToSet(snapshot)
    BY <2>2 DEF Contains, ToSet
  <2> QED BY <2>1, <2>2, <2>3
<1> QED BY <1>2, <1>3, <1>4, <1>5, OthersDoNotAnswer

-----------------------------------------------------------------------------
\* The invariant holds in every behaviour.
LEMMA Invariance == Spec => []IInv
BY InitOK, StepOK, PTL DEF Spec

\* Types, and the handle that keeps a process from being freed.
THEOREM TypeCorrect == Spec => []TypeOK
<1>1. IInv => TypeOK
  BY DEF IInv
<1> QED BY <1>1, Invariance, PTL

\* Whichever step of whichever call fails, for texts of any length and any
\* number of processes, nothing stays open or allocated that the free function
\* for the result will not find (proc.c:20-52, 106-188, 222-272, 540-627).
THEOREM OnlyResultsAreHeld == Spec => []OnlyTheResultIsHeld
<1>1. IInv => OnlyTheResultIsHeld
  BY DEF IInv, Phases, OnlyTheResultIsHeld
<1> QED BY <1>1, Invariance, PTL

\* A list of any number of processes has every one that ran all through the
\* call, none that never ran, and each once, as many as the first walk counted,
\* whatever starts and exits before, between and after the two walks
\* (proc.c:336-382).
THEOREM ListsAreSnapshots == Spec => []ListIsTheSnapshot
<1>1. IInv => ListIsTheSnapshot
  BY DEF IInv
<1> QED BY <1>1, Invariance, PTL

\* Whatever the target does to a text between two steps, a directory's
\* terminator is in the caller's buffer and the first variable is none of the
\* nameless ones; and unless the text moved after its place was read, a call
\* gives the one that was there, variables with the empty ones that the rest of
\* the block makes: for texts, blocks and buffers of any length
\* (proc.c:85-91, 151-175, 235-265, 509-530, 583-591).
THEOREM TextsAreTheTargets == Spec => []TextIsTheTargets
<1>1. IInv => TextIsTheTargets
  BY DEF IInv
<1> QED BY <1>1, Invariance, PTL

\* No step answers that a process exists that did not, or that one does not
\* exist that ran all the time, but for the three exceptions the property names:
\* a refused list, a refused exit code, and the exit code 259 (proc.c:281-323).
THEOREM ExistenceIsTrue == Spec => ExistsIsTrue
<1> DEFINE Answers ==
      pc # "returned" /\ pc' = "returned" /\ call = "pid_exists" =>
        IF answer'.value
        THEN \/ Target \in appeared
             \/ table[Target] = "exited259"
             \/ table[Target] = "exited" /\ refused'
        ELSE Target \notin stayed \/ refused'
<1>1. IInv /\ [Next]_vars => [Answers]_vars
  BY ExistsStepOK
<1>2. ExistsIsTrue <=> [][Answers]_vars
  BY DEF ExistsIsTrue
<1> HIDE DEF Answers
<1> QED BY <1>1, <1>2, Invariance, PTL DEF Spec
=============================================================================
