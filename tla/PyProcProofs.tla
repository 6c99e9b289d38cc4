-------------------------- MODULE PyProcProofs ---------------------------
(***************************************************************************)
(* Proofs about the process methods of the Python module (PyProc) and what *)
(* they call: the splitting of a command line or an environment            *)
(* (ProcStrings) and the queries about a process (LinuxProc).              *)
(*                                                                         *)
(* Each part has an inductive invariant of its own.  StringsInv says which *)
(* blocks are allocated at each point of a call and what of the file the   *)
(* lists hold; QueryInv what a query knows of the processes that come and  *)
(* go meanwhile; MethodInv where the parts are while a method runs and     *)
(* which references there are.  A step of PyProc is a step, or none, of    *)
(* each part, so the first two hold in PyProc as they do alone.            *)
(***************************************************************************)
EXTENDS PyProc, FiniteSetTheorems, SequenceTheorems, TLAPS

-----------------------------------------------------------------------------
\* Invariants: command lines and environments

\* The points of a call at which there are lines, or may be, and those at
\* which there are none yet.
Splitting == {"tokens", "close", "allocVars", "vars", "dropLines", "returned"}
Before == {"idle", "open", "read", "grow", "readEnd", "split"}

\* The numbers and the lists at each point of a call.
Counted ==
  /\ capacity \in Nat \ {0}
  /\ pc \in Before => numTokens = 0
  /\ pc \in Before \cup {"tokens"} => status = "NONE" \/ pc = "idle"
  /\ pc = "tokens" => buffer # <<>> /\ numTokens = CountTokens
  /\ pc = "tokens" =>
       Len(tokens) = Cardinality({i \in 1 .. start : EndsToken(i)})
  /\ pc \in {"open", "read", "grow", "readEnd", "split"} => start = 0
  /\ start > 0 => EndsToken(start)
  /\ status = "NONE" /\ pc \in Splitting \ {"tokens"} =>
       /\ buffer # <<>> /\ start = Len(buffer)
       /\ numTokens > 0 /\ Len(tokens) = numTokens
  /\ pc = "close" => numTokens = 0 \/ status = "NONE"
  /\ pc = "returned" /\ call = "cmdline" => numTokens = 0 \/ status = "NONE"
  /\ pc \in {"allocVars", "vars"} => status = "NONE"
  /\ pc \in {"allocVars", "vars", "dropLines", "crashed"} => call = "environ"
  /\ pc \in Before \cup {"tokens", "close", "allocVars"} => env = NULL
  /\ env # NULL => env \in Seq(Variables) /\ call = "environ"
  /\ pc = "vars" => env # NULL
  /\ pc \in {"dropLines", "returned"} /\ call = "environ" /\ status = "NONE" =>
       env # NULL /\ Len(env) = numTokens

Lines == IF numTokens > 0 THEN {TokenArray} \cup OwnTokens ELSE {}

\* The blocks at each point of a call.
Held ==
  CASE pc \in {"idle", "open"} -> {}
    [] pc \in {"read", "grow", "readEnd", "split"} -> {Stream, Buffer}
    [] pc = "tokens" -> {Stream, Buffer} \cup Lines
    [] pc = "close" -> {Stream} \cup Lines
    [] pc = "allocVars" -> Lines
    [] pc \in {"vars", "dropLines", "crashed"} -> Lines \cup Result
    [] pc = "returned" -> Result

\* What has been split: the buffer up to start, terminated.
Ended(n) == IF n = 0 THEN <<>> ELSE Terminated(SubSeq(buffer, 1, n))
Whole ==
  /\ ~refused /\ (pc = "tokens" \/ (pc \in Splitting /\ status = "NONE")) =>
       /\ \A i \in DOMAIN tokens :
            tokens[i] # NULL /\ ~Contains(tokens[i], Nul)
       /\ Joined(tokens) = Ended(start)
  /\ env # NULL /\ ~refused =>
       \A i \in DOMAIN env : /\ LineOf(env[i]) = tokens[i]
                             /\ ~Contains(env[i].name, Equals)

StringsInv == TypeOK /\ Counted /\ heap = Held /\ Whole

-----------------------------------------------------------------------------
\* Invariants: queries

\* The records of processes; the figures of one are not those of another.
Existing ==
  {Query!Process(n, name, ppid) :
     n \in Nat \ {0}, name \in Names \cup {<<>>}, ppid \in Pids \cup {0}}
OfTarget ==
  {Query!Process(n, name, ppid) :
     n \in Nat \ {0}, name \in Names, ppid \in Pids \cup {0}}

\* The processes there are, and which of them there were.
Tracked ==
  /\ table \in [Pids -> {Query!Nobody} \cup Existing]
  /\ table[Target] \in {Query!Nobody} \cup OfTarget
  /\ starts \in Nat
  /\ stayed \subseteq Query!InUse(table)
  /\ Query!InUse(table) \subseteq everSeen
  /\ everSeen \subseteq Pids
  /\ failed \in BOOLEAN

\* The call at each of its points.
Asking ==
  /\ step \in {"idle", "openLine", "readLine", "link", "kill", "glob",
               "calloc", "fill", "answered", "crashed"}
  /\ query \in Query!Queries
  /\ step \in {"openLine", "readLine"} => query \in Query!LineCalls
  /\ step = "link" => query \in Query!LinkCalls
  /\ step = "kill" => query = "pid_exists"
  /\ step \in {"glob", "calloc", "fill"} => query = "list_pids"
  /\ step = "readLine" => file \in OfTarget /\ Target \in everSeen
  /\ step \in {"idle", "openLine", "readLine", "link", "kill", "glob",
               "calloc", "crashed"} => ~block
  /\ block \in BOOLEAN
  /\ step = "answered" /\ query = "list_pids" => out \in Seq(Nat)

Listing ==
  /\ seen \in Seq(Pids)
  /\ \A i \in DOMAIN seen : seen[i] \in everSeen
  /\ step \in {"calloc", "fill"} =>
       \A i, j \in DOMAIN seen : i # j => seen[i] # seen[j]
  /\ step = "glob" =>
       \A p \in stayed : \/ \E i \in DOMAIN seen : seen[i] = p
                         \/ \A i \in DOMAIN seen : seen[i] < p
  /\ step \in {"calloc", "fill"} =>
       \A p \in stayed : \E i \in DOMAIN seen : seen[i] = p

QueryInv == /\ Tracked /\ Asking /\ Listing
            /\ AnswersAreOfTheProcess /\ ListIsBracketed

-----------------------------------------------------------------------------
\* Invariants: methods

\* The steps of a program that asks queries, and of the processes.
QueryNext ==
  \/ \E which \in Query!Queries : Query!Ask(which)
  \/ Query!QueryStep
  \/ Query!Kernel
  \/ Query!Dismiss

\* The method and the call of the library it makes.
Asleep == pc = "idle" /\ step = "idle"
Answered ==
  /\ method \in Containers
  /\ Code = "NONE"
  /\ IF method \in TextMethods THEN pc = "returned" ELSE step = "answered"

Phases ==
  /\ method \in Methods
  /\ pyPc \in {"idle", "parse", "wrapper", "call", "library", "fill", "free",
               "returned", "crashed"}
  /\ given \in {"NULL", "object"}
  /\ exception \in BOOLEAN
  /\ pyPc \in {"idle", "parse", "wrapper", "call", "returned"} => Asleep
  /\ pyPc = "wrapper" => method \in Wrappers
  /\ pyPc \in {"library", "fill", "free"} =>
       IF method \in TextMethods THEN call = method /\ step = "idle"
                                 ELSE query = method /\ pc = "idle"
  /\ pyPc \in {"fill", "free"} => Answered
  /\ exception => pyPc \in {"free", "returned"}
  /\ pyPc = "returned" => (given = "NULL" <=> exception)

\* One reference to each of some objects; to a result and its items.
Ones(objects) == [o \in objects |-> 1]
ItemsOf(list) == {Item(list[k]) : k \in DOMAIN list}
Owned(list) == Ones({Object} \cup ItemsOf(list))

\* The objects at each point of a method.
Objects ==
  /\ next \in Nat \ {0}
  /\ pyPc \in {"idle", "parse", "wrapper"} =>
       refs = None /\ slots = None /\ next = 1
  /\ pyPc \in {"call", "library"} =>
       /\ refs = IF method \in Wrappers THEN Owned(None) ELSE None
       /\ slots = None /\ next = 1
  /\ pyPc \in {"fill", "crashed"} => refs = Owned(slots)
  /\ pyPc \in {"free", "returned"} =>
       IF exception THEN refs = None /\ slots = None ELSE refs = Owned(slots)

\* What the result holds of the first items of the library's.
Valued(n) == {i \in 1 .. n : env[i].value # NULL}
Numbered(n) ==
  /\ IsFiniteSet(DOMAIN slots)
  /\ \A k \in DOMAIN slots : slots[k] \in 1 .. n
  /\ \A k, l \in DOMAIN slots : slots[k] = slots[l] => k = l
Holds(n) ==
  IF method = "environ"
  THEN /\ DOMAIN slots = {env[i].name : i \in Valued(n)}
       /\ \A i \in Valued(n) : slots[env[i].name] >= i
  ELSE slots = [i \in 1 .. n |-> i]

Filling ==
  /\ pyPc = "fill" \/ (pyPc = "free" /\ ~exception) =>
       next <= Count + 1 /\ Numbered(next - 1) /\ Holds(next - 1)
  /\ pyPc = "free" /\ ~exception => next = Count + 1

MethodInv == Phases /\ Objects /\ Filling
PyInv == StringsInv /\ QueryInv /\ MethodInv

-----------------------------------------------------------------------------
\* Numbers

\* A set of numbers that is not empty has a least one.
LEMMA LeastNumber ==
  ASSUME NEW S \in SUBSET Nat, S # {}
  PROVE  Min(S) \in S /\ \A n \in S : Min(S) <= n
<1> DEFINE R == {ss \in Nat \X Nat : ss[1] < ss[2]}
<1>1. IsWellFoundedOn(R, Nat)
  BY NatLessThanWellFounded DEF OpToRel
<1>2. \A n, k \in Nat : n < k => <<n, k>> \in R
  OBVIOUS
<1> HIDE DEF R
<1>3. PICK m \in S : \A n \in S : ~(<<n, m>> \in R)
  BY <1>1, WFMin
<1>4. ASSUME NEW n \in S PROVE m <= n
  <2>1. n \in Nat /\ m \in Nat
    OBVIOUS
  <2>2. ~(n < m)
    BY <1>2, <1>3, <2>1
  <2> QED BY <2>1, <2>2
<1> QED BY <1>4 DEF Min

\* A set of positions that is not empty has a last one.
LEMMA LastPosition ==
  ASSUME NEW n \in Nat, NEW S \in SUBSET (1 .. n), S # {}
  PROVE  Max(S) \in S /\ \A i \in S : i <= Max(S)
<1> DEFINE T == {k \in Nat : \E i \in S : k = n - i}
<1>1. \A i \in S : i \in Nat /\ n - i \in Nat
  OBVIOUS
<1>2. T \in SUBSET Nat /\ T # {}
  BY <1>1
<1>3. Min(T) \in T /\ \A k \in T : Min(T) <= k
  <2> HIDE DEF T
  <2> QED BY <1>2, LeastNumber
<1>4. PICK m \in S : Min(T) = n - m
  BY <1>3
<1>5. ASSUME NEW i \in S PROVE m >= i
  <2>1. n - i \in T
    BY <1>1
  <2>2. n - m <= n - i
    BY <1>3, <1>4, <2>1
  <2> QED BY <1>1, <2>2
<1>6. Max(S) \in S /\ \A i \in S : Max(S) >= i
  BY <1>5 DEF Max
<1>7. Max(S) \in Nat
  BY <1>1, <1>6
<1> QED BY <1>1, <1>6, <1>7

\* Induction: a set of numbers with 0 and all successors has all.
LEMMA AllNumbers ==
  ASSUME NEW P \in SUBSET Nat, 0 \in P, \A n \in P : n + 1 \in P
  PROVE  P = Nat
<1>1. SUFFICES ASSUME Nat \ P # {} PROVE FALSE
  OBVIOUS
<1>2. PICK m \in Nat \ P : \A n \in Nat \ P : m <= n
  <2> DEFINE S == Nat \ P
  <2>1. S \in SUBSET Nat /\ S # {}
    BY <1>1
  <2> HIDE DEF S
  <2>2. Min(S) \in S /\ \A n \in S : Min(S) <= n
    BY <2>1, LeastNumber
  <2> QED BY <2>2 DEF S
<1>3. m # 0 /\ m - 1 \in Nat /\ ~(m <= m - 1) /\ (m - 1) + 1 = m
  OBVIOUS
<1>4. m - 1 \in P
  BY <1>2, <1>3
<1> QED BY <1>3, <1>4

-----------------------------------------------------------------------------
\* Strings in a row

\* The function behind the concatenation of strings.
IsFlat(f, strings) ==
  f = [i \in 1 .. Len(strings) |->
         IF i = 1 THEN strings[i] ELSE f[i - 1] \o strings[i]]

\* There is one for every sequence.
LEMMA FlatExists ==
  ASSUME NEW strings, Len(strings) \in Nat
  PROVE  \E f : IsFlat(f, strings)
<1> DEFINE Upto(f, n) ==
             f = [i \in 1 .. n |->
                    IF i = 1 THEN strings[i] ELSE f[i - 1] \o strings[i]]
           P == {n \in Nat : \E f : Upto(f, n)}
<1>1. 0 \in P
  <2> DEFINE none == [i \in 1 .. 0 |-> <<>>]
  <2>1. none = [i \in 1 .. 0 |->
                  IF i = 1 THEN strings[i] ELSE none[i - 1] \o strings[i]]
    OBVIOUS
  <2>2. Upto(none, 0)
    BY <2>1
  <2> QED BY <2>2
<1>2. ASSUME NEW n \in P PROVE n + 1 \in P
  <2>1. PICK f : Upto(f, n)
    OBVIOUS
  <2> DEFINE g == [i \in 1 .. n + 1 |->
                     IF i = 1 THEN strings[i] ELSE f[i - 1] \o strings[i]]
  <2>2. \A i \in 1 .. n : i \in 1 .. n + 1 /\ f[i] = g[i]
    <3>1. f = [i \in 1 .. n |->
                 IF i = 1 THEN strings[i] ELSE f[i - 1] \o strings[i]]
      BY <2>1
    <3>2. \A i \in 1 .. n :
            f[i] = IF i = 1 THEN strings[i] ELSE f[i - 1] \o strings[i]
      BY <3>1, Zenon
    <3>3. \A i \in 1 .. n : i \in 1 .. n + 1
      OBVIOUS
    <3>4. \A i \in 1 .. n + 1 :
            g[i] = IF i = 1 THEN strings[i] ELSE f[i - 1] \o strings[i]
      OBVIOUS
    <3> HIDE DEF g
    <3> QED BY <3>2, <3>3, <3>4, Zenon
  <2>3. \A i \in 1 .. n + 1 : i = 1 \/ i - 1 \in 1 .. n
    OBVIOUS
  <2>4. g = [i \in 1 .. n + 1 |->
               IF i = 1 THEN strings[i] ELSE g[i - 1] \o strings[i]]
    <3> DEFINE h == [i \in 1 .. n + 1 |->
                       IF i = 1 THEN strings[i] ELSE g[i - 1] \o strings[i]]
    <3>1. ASSUME NEW i \in 1 .. n + 1 PROVE g[i] = h[i]
      <4>1. CASE i = 1
        BY <4>1
      <4>2. CASE i # 1
        <5>1. f[i - 1] = g[i - 1]
          BY <2>2, <2>3, <4>2
        <5>2. g[i] = f[i - 1] \o strings[i]
          BY <4>2
        <5>3. h[i] = g[i - 1] \o strings[i]
          <6> HIDE DEF g
          <6> QED BY <4>2
        <5> HIDE DEF g, h
        <5> QED BY <5>1, <5>2, <5>3
      <4> QED BY <4>1, <4>2
    <3>2. DOMAIN g = 1 .. n + 1 /\ DOMAIN h = 1 .. n + 1
      OBVIOUS
    <3>3. g = [i \in 1 .. n + 1 |-> g[i]] /\ h = [i \in 1 .. n + 1 |-> h[i]]
      OBVIOUS
    <3>4. g = h
      <4> HIDE DEF g, h
      <4> QED BY <3>1, <3>2, <3>3
    <3> QED BY <3>4
  <2>5. Upto(g, n + 1)
    <3> HIDE DEF g
    <3> QED BY <2>4
  <2> HIDE DEF g, Upto
  <2> QED BY <2>5
<1>3. P = Nat
  <2> HIDE DEF P
  <2> QED BY <1>1, <1>2, AllNumbers DEF P
<1>4. PICK f : Upto(f, Len(strings))
  BY <1>3
<1>5. IsFlat(f, strings)
  BY <1>4, Zenon DEF IsFlat
<1> QED BY <1>5

\* Strings behind do not change what those before are together.
LEMMA FlatAgrees ==
  ASSUME NEW s, NEW t, NEW f, NEW g,
         Len(s) \in Nat, Len(t) \in Nat, Len(s) <= Len(t),
         \A i \in 1 .. Len(s) : s[i] = t[i],
         IsFlat(f, s), IsFlat(g, t)
  PROVE  \A i \in 1 .. Len(s) : f[i] = g[i]
<1> DEFINE P == {n \in Nat : n \in 1 .. Len(s) => f[n] = g[n]}
<1>1. \A i \in 1 .. Len(s) :
        f[i] = IF i = 1 THEN s[i] ELSE f[i - 1] \o s[i]
  <2>1. f = [i \in 1 .. Len(s) |->
               IF i = 1 THEN s[i] ELSE f[i - 1] \o s[i]]
    BY DEF IsFlat
  <2> QED BY <2>1, Zenon
<1>2. \A i \in 1 .. Len(t) :
        g[i] = IF i = 1 THEN t[i] ELSE g[i - 1] \o t[i]
  <2>1. g = [i \in 1 .. Len(t) |->
               IF i = 1 THEN t[i] ELSE g[i - 1] \o t[i]]
    BY DEF IsFlat
  <2> QED BY <2>1, Zenon
<1>3. \A i \in 1 .. Len(s) : i \in 1 .. Len(t)
  OBVIOUS
<1>4. 0 \in P
  OBVIOUS
<1>5. ASSUME NEW n \in P PROVE n + 1 \in P
  <2>1. SUFFICES ASSUME n + 1 \in 1 .. Len(s) PROVE f[n + 1] = g[n + 1]
    OBVIOUS
  <2>2. n \in Nat /\ (n + 1) - 1 = n
    OBVIOUS
  <2>3. CASE n + 1 = 1
    BY <1>1, <1>2, <1>3, <2>1, <2>3
  <2>4. CASE n + 1 # 1
    <3>1. n \in 1 .. Len(s)
      BY <2>1, <2>2, <2>4
    <3>2. f[n] = g[n]
      BY <3>1
    <3>3. f[n + 1] = f[n] \o s[n + 1]
      BY <1>1, <2>1, <2>2, <2>4
    <3>4. g[n + 1] = g[n] \o t[n + 1]
      BY <1>2, <1>3, <2>1, <2>2, <2>4
    <3> QED BY <2>1, <3>2, <3>3, <3>4
  <2> QED BY <2>3, <2>4
<1>6. P = Nat
  <2> HIDE DEF P
  <2> QED BY <1>4, <1>5, AllNumbers DEF P
<1> QED BY <1>6

\* A string more is that string behind the others.
LEMMA FlatOfMore ==
  ASSUME NEW S, NEW s \in Seq(Seq(S)), NEW x \in Seq(S)
  PROVE  FlattenSeq(Append(s, x)) = FlattenSeq(s) \o x
<1> DEFINE t == Append(s, x)
           f == CHOOSE h : IsFlat(h, s)
           g == CHOOSE h : IsFlat(h, t)
           n == Len(s)
<1>1. /\ n \in Nat /\ Len(t) = n + 1 /\ Len(t) # 0 /\ t[n + 1] = x
      /\ \A i \in 1 .. n : s[i] = t[i]
  BY AppendProperties
<1>2. IsFlat(f, s)
  <2>1. \E h : IsFlat(h, s)
    BY <1>1, FlatExists
  <2> QED BY <2>1
<1>3. IsFlat(g, t)
  <2>1. \E h : IsFlat(h, t)
    <3> HIDE DEF t
    <3> QED BY <1>1, FlatExists
  <2> QED BY <2>1
<1>4. FlattenSeq(s) = IF n = 0 THEN s ELSE f[n]
  BY Zenon DEF FlattenSeq, IsFlat
<1>5. FlattenSeq(t) = g[n + 1]
  <2>1. FlattenSeq(t) = IF Len(t) = 0 THEN t ELSE g[Len(t)]
    BY Zenon DEF FlattenSeq, IsFlat
  <2> HIDE DEF t, g
  <2> QED BY <1>1, <2>1
<1> HIDE DEF f, g, t
<1>6. \A i \in 1 .. n : f[i] = g[i]
  <2>1. Len(s) \in Nat /\ Len(t) \in Nat /\ Len(s) <= Len(t)
    BY <1>1
  <2>2. \A i \in 1 .. Len(s) : s[i] = t[i]
    BY <1>1
  <2> QED BY <1>2, <1>3, <2>1, <2>2, FlatAgrees
<1>7. g[n + 1] = IF n + 1 = 1 THEN t[n + 1] ELSE g[(n + 1) - 1] \o t[n + 1]
  <2>1. g = [i \in 1 .. Len(t) |->
               IF i = 1 THEN t[i] ELSE g[i - 1] \o t[i]]
    BY <1>3 DEF IsFlat
  <2>2. n + 1 \in 1 .. Len(t)
    BY <1>1
  <2> QED BY <2>1, <2>2, Zenon
<1>8. CASE n = 0
  <2>1. s = <<>>
    BY <1>8, EmptySeq
  <2>2. <<>> \o x = x
    BY ConcatEmptySeq
  <2>3. g[n + 1] = x
    BY <1>1, <1>7, <1>8
  <2> QED BY <1>4, <1>5, <1>8, <2>1, <2>2, <2>3 DEF t
<1>9. CASE n # 0
  <2>1. (n + 1) - 1 = n /\ n \in 1 .. n /\ n + 1 # 1
    BY <1>1, <1>9
  <2>2. g[n + 1] = g[n] \o x
    BY <1>1, <1>7, <2>1
  <2> QED BY <1>4, <1>5, <1>6, <1>9, <2>1, <2>2 DEF t
<1> QED BY <1>8, <1>9

-----------------------------------------------------------------------------
\* Strings and the splitting of the buffer

\* A function on the positions up to n is a sequence.
LEMMA MakeSeq ==
  ASSUME NEW S, NEW n \in Nat, NEW s \in [1 .. n -> S]
  PROVE  s \in Seq(S) /\ Len(s) = n
BY SeqDef

\* A string is a sequence of bytes that is not too long.
LEMMA StringIsSeq ==
  \A s : s \in String <=> s \in Seq(Bytes) /\ Len(s) <= MaxFile
<1>1. ASSUME NEW s \in String PROVE s \in Seq(Bytes) /\ Len(s) <= MaxFile
  <2>1. PICK n \in 0 .. MaxFile : s \in [1 .. n -> Bytes]
    BY DEF String
  <2>2. n \in Nat /\ n <= MaxFile
    BY SizesArePositive
  <2>3. s \in Seq(Bytes) /\ Len(s) = n
    BY <2>1, <2>2, SeqDef
  <2> QED BY <2>2, <2>3
<1>2. ASSUME NEW s \in Seq(Bytes), Len(s) <= MaxFile PROVE s \in String
  <2>1. Len(s) \in Nat /\ s \in [1 .. Len(s) -> Bytes]
    BY LenProperties
  <2>2. Len(s) \in 0 .. MaxFile
    BY <1>2, <2>1, SizesArePositive
  <2> QED BY <2>1, <2>2 DEF String
<1> QED BY <1>1, <1>2

\* The bytes from m to n.
LEMMA PartOfBytes ==
  ASSUME NEW s \in Seq(Bytes), NEW m \in Nat, NEW n \in Nat,
         m > 0, n <= Len(s), m <= n + 1
  PROVE  /\ SubSeq(s, m, n) \in Seq(Bytes)
         /\ Len(SubSeq(s, m, n)) = (n + 1) - m
         /\ DOMAIN SubSeq(s, m, n) = 1 .. (n + 1) - m
         /\ \A i \in 1 .. (n + 1) - m : SubSeq(s, m, n)[i] = s[(m + i) - 1]
<1>1. Len(s) \in Nat /\ \A i \in 1 .. Len(s) : s[i] \in Bytes
  BY LenProperties
<1>2. \A i \in m .. n : s[i] \in Bytes
  BY <1>1
<1>3. /\ SubSeq(s, m, n) \in Seq(Bytes)
      /\ Len(SubSeq(s, m, n)) = IF m <= n THEN (n - m) + 1 ELSE 0
      /\ \A i \in 1 .. (n - m) + 1 : SubSeq(s, m, n)[i] = s[(m + i) - 1]
  BY <1>2, SubSeqProperties
<1>4. (n + 1) - m = (n - m) + 1 /\ Len(SubSeq(s, m, n)) = (n + 1) - m
  BY <1>3
<1>5. DOMAIN SubSeq(s, m, n) = 1 .. Len(SubSeq(s, m, n))
  BY <1>3, LenProperties
<1> QED BY <1>3, <1>4, <1>5

\* A string is what it starts with and the rest.
LEMMA TwoParts ==
  ASSUME NEW s \in Seq(Bytes), NEW k \in Nat, NEW n \in Nat,
         k <= n, n <= Len(s)
  PROVE  SubSeq(s, 1, k) \o SubSeq(s, k + 1, n) = SubSeq(s, 1, n)
<1>1. Len(s) \in Nat
  BY LenProperties
<1>2. 1 \in 1 .. Len(s) + 1 /\ k \in 1 - 1 .. Len(s) /\ n \in k .. Len(s)
  BY <1>1
<1> QED BY <1>2, ConcatAdjacentSubSeq

\* A string less its last byte and that byte.
LEMMA AllButLast ==
  ASSUME NEW s \in Seq(Bytes), NEW m \in Nat, NEW n \in Nat,
         m > 0, m <= n, n <= Len(s)
  PROVE  Append(SubSeq(s, m, n - 1), s[n]) = SubSeq(s, m, n)
<1>1. n - 1 \in Nat /\ n - 1 <= Len(s) /\ m <= (n - 1) + 1
      /\ m <= n + 1 /\ ((n - 1) + 1) - m = n - m
      /\ (n + 1) - m = (n - m) + 1 /\ n - m \in Nat
      /\ \A i \in 1 .. n - m : i \in 1 .. (n + 1) - m
      /\ (n - m) + 1 \in 1 .. (n + 1) - m
      /\ (m + ((n - m) + 1)) - 1 = n
  BY LenProperties
<1> DEFINE a == SubSeq(s, m, n - 1)
           b == SubSeq(s, m, n)
<1>2. /\ a \in Seq(Bytes) /\ Len(a) = n - m
      /\ \A i \in 1 .. n - m : a[i] = s[(m + i) - 1]
  <2>1. /\ a \in Seq(Bytes) /\ Len(a) = ((n - 1) + 1) - m
        /\ \A i \in 1 .. ((n - 1) + 1) - m : a[i] = s[(m + i) - 1]
    BY <1>1, PartOfBytes
  <2> QED BY <1>1, <2>1
<1>3. /\ b \in Seq(Bytes) /\ Len(b) = (n - m) + 1
      /\ \A i \in 1 .. (n - m) + 1 : b[i] = s[(m + i) - 1]
  <2>1. /\ b \in Seq(Bytes) /\ Len(b) = (n + 1) - m
        /\ \A i \in 1 .. (n + 1) - m : b[i] = s[(m + i) - 1]
    BY <1>1, PartOfBytes
  <2> QED BY <1>1, <2>1
<1>4. s[n] \in Bytes
  BY ElementOfSeq
<1> DEFINE c == Append(a, s[n])
<1> HIDE DEF a, b
<1>5. /\ c \in Seq(Bytes) /\ Len(c) = (n - m) + 1
      /\ \A i \in 1 .. n - m : c[i] = a[i]
      /\ c[(n - m) + 1] = s[n]
  BY <1>2, <1>4, AppendProperties
<1> HIDE DEF c
<1>6. ASSUME NEW i \in 1 .. (n - m) + 1 PROVE c[i] = b[i]
  <2>1. CASE i = (n - m) + 1
    BY <1>1, <1>3, <1>5, <2>1
  <2>2. CASE i # (n - m) + 1
    <3>1. i \in 1 .. n - m
      BY <1>1, <2>2
    <3> QED BY <1>2, <1>3, <1>5, <3>1
  <2> QED BY <2>1, <2>2
<1>7. c = b
  BY <1>3, <1>5, <1>6, SeqEqual
<1> QED BY <1>7 DEF a, b, c

\* The splitting goes on to the next byte that ends a token.
LEMMA NextEndIsNext ==
  ASSUME buffer \in Seq(Bytes), start \in Nat, start < Len(buffer)
  PROVE  /\ NextEnd \in start + 1 .. Len(buffer)
         /\ EndsToken(NextEnd)
         /\ \A j \in start + 1 .. NextEnd - 1 : ~EndsToken(j)
<1> DEFINE S == {i \in start + 1 .. Len(buffer) : EndsToken(i)}
<1>1. Len(buffer) \in Nat
  BY LenProperties
<1>2. S \in SUBSET Nat /\ S # {}
  <2>1. Len(buffer) \in S
    BY <1>1 DEF EndsToken
  <2> QED BY <1>1, <2>1
<1>3. PICK m \in S : \A n \in S : m <= n
  <2> HIDE DEF S
  <2> QED BY <1>2, LeastNumber
<1>4. ASSUME NEW j \in start + 1 .. m - 1 PROVE ~EndsToken(j)
  <2>1. m \in Nat /\ m <= Len(buffer)
    BY <1>1
  <2>2. j \in start + 1 .. Len(buffer) /\ ~(m <= j)
    BY <1>1, <2>1
  <2> QED BY <1>3, <2>2
<1>5. /\ m \in start + 1 .. Len(buffer) /\ EndsToken(m)
      /\ \A j \in start + 1 .. m - 1 : ~EndsToken(j)
  BY <1>4
<1>6. \E i \in start + 1 .. Len(buffer) :
        EndsToken(i) /\ \A j \in start + 1 .. i - 1 : ~EndsToken(j)
  BY <1>5
<1> HIDE DEF S
<1> QED BY <1>6, Zenon DEF NextEnd

\* What a token holds, and that no byte gets lost between two.
LEMMA TokenIsNext ==
  ASSUME buffer \in Seq(Bytes), start \in Nat, start < Len(buffer),
         start > 0 => EndsToken(start)
  PROVE  /\ TokenText \in Seq(Bytes)
         /\ Len(TokenText) <= Len(buffer)
         /\ ~Contains(TokenText, Nul)
         /\ Ended(NextEnd) = Ended(start) \o Append(TokenText, Nul)
<1> DEFINE m == start + 1
           n == NextEnd
           k == IF buffer[n] = Nul THEN n - 1 ELSE n
           a == SubSeq(buffer, 1, start)
           b == SubSeq(buffer, 1, n)
<1>1. /\ n \in m .. Len(buffer) /\ EndsToken(n)
      /\ \A j \in m .. n - 1 : ~EndsToken(j)
  BY NextEndIsNext
<1>2. /\ Len(buffer) \in Nat /\ m \in Nat /\ m > 0 /\ n \in Nat /\ n > 0
      /\ m <= n /\ n <= Len(buffer) /\ n # 0
      /\ k \in Nat /\ k <= Len(buffer) /\ m <= k + 1 /\ k <= n
  BY <1>1, LenProperties
<1>3. TokenText = SubSeq(buffer, m, k)
  BY DEF TokenText
<1> HIDE DEF n, m
<1>4. /\ TokenText \in Seq(Bytes)
      /\ Len(TokenText) = (k + 1) - m
      /\ \A i \in 1 .. (k + 1) - m : TokenText[i] = buffer[(m + i) - 1]
  <2> HIDE DEF k
  <2> QED BY <1>2, <1>3, PartOfBytes
<1>5. Len(TokenText) <= Len(buffer)
  BY <1>2, <1>4
<1>6. ~Contains(TokenText, Nul)
  <2>1. ASSUME NEW i \in 1 .. (k + 1) - m PROVE buffer[(m + i) - 1] # Nul
    <3>1. (m + i) - 1 \in m .. k
      BY <1>2
    <3>2. CASE (m + i) - 1 = n
      BY <1>2, <3>1, <3>2
    <3>3. CASE (m + i) - 1 # n
      <4>1. (m + i) - 1 \in m .. n - 1
        BY <1>2, <3>1, <3>3
      <4> QED BY <1>1, <4>1 DEF EndsToken
    <3> QED BY <3>2, <3>3
  <2> HIDE DEF k
  <2> QED BY <1>4, <2>1 DEF Contains
<1>7. Ended(start) = a
  <2>1. CASE start = 0
    <3>1. a = <<>>
      BY <2>1, SubSeqEmpty
    <3> QED BY <2>1, <3>1 DEF Ended
  <2>2. CASE start # 0
    <3>1. start > 0 /\ start <= Len(buffer) /\ 1 <= start + 1
          /\ (start + 1) - 1 = start /\ start \in 1 .. start
          /\ (1 + start) - 1 = start
      BY <2>2
    <3>2. buffer[start] = Nul
      BY <3>1 DEF EndsToken
    <3>3. Len(a) = start /\ a[start] = buffer[start]
      BY <3>1, PartOfBytes
    <3> HIDE DEF a
    <3>4. Last(a) = Nul
      BY <3>2, <3>3 DEF Last
    <3> QED BY <2>2, <3>4 DEF Ended, Terminated, a
  <2> QED BY <2>1, <2>2
<1>8. a \o SubSeq(buffer, m, n) = b
  <2>1. start <= n /\ m = start + 1
    BY <1>2 DEF m
  <2> QED BY <1>2, <2>1, TwoParts
<1>9. Ended(n) = IF buffer[n] = Nul THEN b ELSE Append(b, Nul)
  <2>1. 1 <= n + 1 /\ (n + 1) - 1 = n /\ n \in 1 .. n /\ (1 + n) - 1 = n
    BY <1>2
  <2>2. Len(b) = n /\ b[n] = buffer[n]
    BY <1>2, <2>1, PartOfBytes
  <2>3. Last(b) = buffer[n]
    BY <2>2 DEF Last
  <2> HIDE DEF b
  <2> QED BY <1>2, <2>3 DEF Ended, Terminated, b
<1>10. CASE buffer[n] = Nul
  <2>1. Append(SubSeq(buffer, m, n - 1), buffer[n]) = SubSeq(buffer, m, n)
    BY <1>2, AllButLast
  <2>2. Append(TokenText, Nul) = SubSeq(buffer, m, n)
    BY <1>3, <1>10, <2>1
  <2>3. Ended(n) = Ended(start) \o Append(TokenText, Nul)
    BY <1>7, <1>8, <1>9, <1>10, <2>2
  <2> QED BY <1>4, <1>5, <1>6, <2>3 DEF n
<1>11. CASE buffer[n] # Nul
  <2> DEFINE c == SubSeq(buffer, m, n)
  <2>1. c = TokenText
    BY <1>3, <1>11
  <2>2. Nul \in Bytes /\ <<Nul>> \in Seq(Bytes)
    BY BytesHaveMarks
  <2>3. a \in Seq(Bytes) /\ b \in Seq(Bytes) /\ c \in Seq(Bytes)
    <3>1. start <= Len(buffer) /\ 1 <= start + 1 /\ 1 <= n + 1 /\ 1 > 0
          /\ m <= n + 1 /\ 1 \in Nat
      BY <1>2
    <3> QED BY <1>2, <3>1, PartOfBytes
  <2> HIDE DEF a, b, c
  <2>4. Append(b, Nul) = b \o <<Nul>> /\ Append(c, Nul) = c \o <<Nul>>
    BY <2>2, <2>3, AppendIsConcat
  <2>5. (a \o c) \o <<Nul>> = a \o (c \o <<Nul>>)
    <3> DEFINE d == <<Nul>>
    <3>1. d \in Seq(Bytes)
      BY <2>2
    <3> HIDE DEF d
    <3>2. (a \o c) \o d = a \o (c \o d)
      BY <2>3, <3>1, ConcatAssociative, SMTT(30)
    <3> QED BY <3>2 DEF d
  <2>6. a \o c = b
    BY <1>8 DEF c
  <2>7. Ended(n) = Ended(start) \o Append(TokenText, Nul)
    BY <1>7, <1>9, <1>11, <2>1, <2>4, <2>5, <2>6
  <2> QED BY <1>4, <1>5, <1>6, <2>7 DEF n
<1> QED BY <1>10, <1>11

\* Tokens are counted by their ends.
LEMMA OneEndMore ==
  ASSUME buffer \in Seq(Bytes), start \in Nat, start < Len(buffer)
  PROVE  /\ Cardinality({i \in 1 .. NextEnd : EndsToken(i)})
              = Cardinality({i \in 1 .. start : EndsToken(i)}) + 1
         /\ Cardinality({i \in 1 .. NextEnd : EndsToken(i)}) <= CountTokens
<1> DEFINE n == NextEnd
           S == {i \in 1 .. start : EndsToken(i)}
           T == {i \in 1 .. n : EndsToken(i)}
           U == {i \in DOMAIN buffer : EndsToken(i)}
<1>1. /\ n \in start + 1 .. Len(buffer) /\ EndsToken(n)
      /\ \A j \in start + 1 .. n - 1 : ~EndsToken(j)
  BY NextEndIsNext
<1>2. Len(buffer) \in Nat /\ DOMAIN buffer = 1 .. Len(buffer)
  BY LenProperties
<1> HIDE DEF n
<1>3. T = S \cup {n} /\ n \notin S
  <2>1. \A i \in 1 .. n : i \in 1 .. start \/ i \in start + 1 .. n - 1 \/ i = n
    BY <1>1, <1>2
  <2>2. \A i \in 1 .. start : i \in 1 .. n /\ i # n
    BY <1>1, <1>2
  <2>3. n \in 1 .. n
    BY <1>1, <1>2
  <2> QED BY <1>1, <2>1, <2>2, <2>3
<1>4. T \subseteq U
  <2>1. \A i \in 1 .. n : i \in DOMAIN buffer
    BY <1>1, <1>2
  <2> QED BY <2>1
<1>5. IsFiniteSet(S) /\ IsFiniteSet(U)
  <2>1. IsFiniteSet(1 .. start) /\ IsFiniteSet(1 .. Len(buffer))
    BY <1>2, FS_Interval
  <2>2. S \subseteq 1 .. start /\ U \subseteq 1 .. Len(buffer)
    BY <1>2
  <2> HIDE DEF S, U
  <2> QED BY <2>1, <2>2, FS_Subset
<1> HIDE DEF S, T, U
<1>6. Cardinality(T) = Cardinality(S) + 1
  BY <1>3, <1>5, FS_AddElement
<1>7. Cardinality(T) <= Cardinality(U)
  BY <1>4, <1>5, FS_Subset
<1> QED BY <1>6, <1>7 DEF n, S, T, U, CountTokens

\* There are at most as many tokens as bytes, and one if there is a byte.
LEMMA TokensAreFew ==
  ASSUME buffer \in Seq(Bytes)
  PROVE  /\ CountTokens \in Nat /\ CountTokens <= Len(buffer)
         /\ buffer # <<>> => CountTokens > 0
<1> DEFINE U == {i \in DOMAIN buffer : EndsToken(i)}
<1>1. Len(buffer) \in Nat /\ DOMAIN buffer = 1 .. Len(buffer)
  BY LenProperties
<1>2. /\ IsFiniteSet(1 .. Len(buffer))
      /\ Cardinality(1 .. Len(buffer)) = Len(buffer)
  <2>1. Cardinality(1 .. Len(buffer))
          = IF 1 > Len(buffer) THEN 0 ELSE (Len(buffer) - 1) + 1
    BY <1>1, FS_Interval
  <2>2. IsFiniteSet(1 .. Len(buffer))
    BY <1>1, FS_Interval
  <2> QED BY <1>1, <2>1, <2>2
<1>3. U \subseteq 1 .. Len(buffer)
  BY <1>1
<1>4. buffer # <<>> => Len(buffer) \in U
  BY <1>1, EmptySeq DEF EndsToken
<1>5. CountTokens = Cardinality(U)
  BY DEF CountTokens
<1> HIDE DEF U
<1>6. /\ IsFiniteSet(U) /\ Cardinality(U) <= Len(buffer)
      /\ Cardinality(U) \in Nat
  BY <1>2, <1>3, FS_Subset, FS_CardinalityType
<1>7. U # {} => Cardinality(U) > 0
  <2>1. Cardinality(U) = 0 <=> U = {}
    BY <1>6, FS_EmptySet
  <2> QED BY <1>6, <2>1
<1> QED BY <1>4, <1>5, <1>6, <1>7

\* A list of strings with one more.
LEMMA JoinedMore ==
  ASSUME NEW s \in Seq(Seq(Bytes)), NEW x \in Seq(Bytes)
  PROVE  Joined(Append(s, x)) = Joined(s) \o Append(x, Nul)
<1> DEFINE t == Append(s, x)
           a == [i \in DOMAIN s |-> Append(s[i], Nul)]
           b == [i \in DOMAIN t |-> Append(t[i], Nul)]
           y == Append(x, Nul)
<1>1. /\ Len(s) \in Nat /\ Len(t) = Len(s) + 1
      /\ t \in Seq(Seq(Bytes))
      /\ \A i \in 1 .. Len(s) : t[i] = s[i]
      /\ t[Len(s) + 1] = x
      /\ DOMAIN s = 1 .. Len(s) /\ \A i \in 1 .. Len(s) : s[i] \in Seq(Bytes)
  BY AppendProperties, LenProperties
<1>2. DOMAIN t = 1 .. Len(s) + 1
  <2> HIDE DEF t
  <2> QED BY <1>1, LenProperties
<1>3. \A z \in Seq(Bytes) : Append(z, Nul) \in Seq(Bytes)
  BY BytesHaveMarks, AppendProperties
<1> HIDE DEF t
<1>4. y \in Seq(Bytes)
  BY <1>3
<1>5. a \in Seq(Seq(Bytes)) /\ Len(a) = Len(s)
  <2>1. a \in [1 .. Len(s) -> Seq(Bytes)]
    BY <1>1, <1>3
  <2> HIDE DEF a
  <2> QED BY <1>1, <2>1, MakeSeq
<1>6. b \in Seq(Seq(Bytes)) /\ Len(b) = Len(s) + 1
  <2>1. \A i \in 1 .. Len(s) + 1 : t[i] \in Seq(Bytes)
    BY <1>1, LenProperties
  <2>2. b \in [1 .. Len(s) + 1 -> Seq(Bytes)] /\ Len(s) + 1 \in Nat
    BY <1>1, <1>2, <1>3, <2>1
  <2> HIDE DEF b
  <2> QED BY <2>2, MakeSeq
<1>7. \A i \in 1 .. Len(s) : b[i] = a[i]
  <2>1. \A i \in 1 .. Len(s) : i \in DOMAIN t /\ i \in DOMAIN s
    BY <1>1, <1>2
  <2> QED BY <1>1, <2>1
<1>8. b[Len(s) + 1] = y
  <2>1. Len(s) + 1 \in DOMAIN t
    BY <1>1, <1>2
  <2> QED BY <1>1, <2>1
<1>9. FlattenSeq(b) = Joined(t) /\ FlattenSeq(a) = Joined(s)
  BY DEF Joined
<1> HIDE DEF a, b, y
<1>10. b = Append(a, y)
  <2> DEFINE c == Append(a, y)
  <2>1. /\ c \in Seq(Seq(Bytes)) /\ Len(c) = Len(s) + 1
        /\ \A i \in 1 .. Len(s) : c[i] = a[i]
        /\ c[Len(s) + 1] = y
    BY <1>4, <1>5, AppendProperties
  <2> HIDE DEF c
  <2>2. \A i \in 1 .. Len(s) + 1 : i \in 1 .. Len(s) \/ i = Len(s) + 1
    BY <1>1
  <2>3. \A i \in 1 .. Len(s) + 1 : b[i] = c[i]
    BY <1>7, <1>8, <2>1, <2>2
  <2>4. b = c
    BY <1>6, <2>1, <2>3, SeqEqual
  <2> QED BY <2>4 DEF c
<1>11. FlattenSeq(b) = FlattenSeq(a) \o y
  BY <1>4, <1>5, <1>10, FlatOfMore
<1> QED BY <1>9, <1>11 DEF t, y

-----------------------------------------------------------------------------
\* Blocks

\* A block of a kind is none of another kind.
LEMMA KindsOfBlocks ==
  /\ Stream[1] = "stream" /\ Buffer[1] = "buffer"
  /\ TokenArray[1] = "tokens" /\ VarArray[1] = "vars"
  /\ \A b \in Lines : b[1] \in {"tokens", "token"}
  /\ call = "environ" =>
       \A b \in Result : b[1] \in {"vars", "name", "value"}
<1>1. \A b \in OwnTokens : b[1] = "token"
  BY DEF OwnTokens, Token
<1>2. \A b \in Lines : b[1] \in {"tokens", "token"}
  BY <1>1 DEF Lines, TokenArray
<1>3. ASSUME NEW i, NEW var, NEW b \in Own(i, var)
      PROVE  b[1] \in {"name", "value"}
  BY <1>3 DEF Own, Name, Value
<1>4. ASSUME call = "environ", NEW b \in Result
      PROVE  b[1] \in {"vars", "name", "value"}
  <2>1. b = VarArray \/ \E i \in DOMAIN env : b \in Own(i, env[i])
    BY <1>4 DEF Result
  <2> QED BY <1>3, <2>1 DEF VarArray
<1> QED BY <1>2, <1>4 DEF Stream, Buffer, TokenArray, VarArray

\* Without tokens there are no lines.
LEMMA NoLines ==
  numTokens = 0 => Lines = {} /\ (call = "cmdline" => Result = {})
BY DEF Lines, Result

\* The empty string and the empty list.
LEMMA EmptyString ==
  /\ <<>> \in String /\ <<>> \in Seq(Bytes) /\ Len(<<>>) = 0
  /\ \A S : <<>> \in Seq(S)
  /\ DOMAIN <<>> = {}
<1>1. \A S : <<>> \in Seq(S)
  BY EmptySeq
<1>2. Len(<<>>) = 0 /\ Len(<<>>) <= MaxFile
  BY SizesArePositive
<1>3. <<>> \in Seq(Bytes)
  BY <1>1
<1>4. <<>> \in String
  BY <1>2, <1>3, StringIsSeq, Zenon
<1>5. DOMAIN <<>> = {}
  OBVIOUS
<1> QED BY <1>1, <1>2, <1>3, <1>4, <1>5

\* Two numbers have a least one.
LEMMA MinOfTwo ==
  ASSUME NEW m \in Int, NEW n \in Int
  PROVE  Min({m, n}) \in {m, n} /\ Min({m, n}) <= m /\ Min({m, n}) <= n
<1>1. \E x \in {m, n} : \A y \in {m, n} : x <= y
  <2>1. CASE m <= n
    BY <2>1
  <2>2. CASE n <= m
    BY <2>2
  <2> QED BY <2>1, <2>2
<1>2. Min({m, n}) \in {m, n} /\ \A y \in {m, n} : Min({m, n}) <= y
  BY <1>1 DEF Min
<1> QED BY <1>2

\* Two strings in a row.
LEMMA LongerString ==
  ASSUME NEW s \in Seq(Bytes), NEW n \in Nat, NEW t \in [1 .. n -> Bytes],
         Len(s) + n <= MaxFile
  PROVE  s \o t \in String /\ Len(s \o t) = Len(s) + n
<1>1. t \in Seq(Bytes) /\ Len(t) = n
  BY MakeSeq
<1>2. s \o t \in Seq(Bytes) /\ Len(s \o t) = Len(s) + n
  BY <1>1, ConcatProperties
<1> QED BY <1>2, StringIsSeq

-----------------------------------------------------------------------------
\* Each step of a call for a command line or an environment keeps what is
\* known.

\* A call begins.
LEMMA CallKeeps ==
  ASSUME StringsInv, NEW which \in {"cmdline", "environ"}, Call(which)
  PROVE  StringsInv'
<1> USE DEF StringsInv, Call
<1>1. TypeOK'
  <2>1. <<>> \in Seq(String \cup {NULL})
    BY EmptyString, Zenon
  <2>2. /\ <<>> \in String /\ Len(<<>>) = 0 /\ 0 \in 0 .. InitialCapacity
        /\ 0 \in 0 .. MaxFile /\ 0 <= 0 /\ 0 \in 0 .. 0
    BY EmptyString, SizesArePositive
  <2>3. /\ pc' = "open" /\ capacity' = InitialCapacity /\ buffer' = <<>>
        /\ numTokens' = 0 /\ tokens' = <<>> /\ start' = 0 /\ env' = NULL
        /\ status' = "NONE" /\ refused' = FALSE /\ call' = which
    OBVIOUS
  <2> HIDE DEF Call, StringsInv
  <2> QED BY <2>1, <2>2, <2>3 DEF TypeOK
<1>2. Counted'
  BY EmptyString, SizesArePositive DEF TypeOK, Counted, Before, Splitting
<1>3. heap' = Held'
  BY DEF Held
<1>4. Whole'
  BY DEF Whole, Splitting
<1> QED BY <1>1, <1>2, <1>3, <1>4

\* A chunk is read.
LEMMA ReadChunkKeeps ==
  ASSUME StringsInv, ReadChunk
  PROVE  StringsInv'
<1> USE DEF StringsInv, ReadChunk
<1>1. TypeOK' /\ start' = 0
  <2>1. /\ buffer \in Seq(Bytes) /\ Len(buffer) \in Nat
        /\ Len(buffer) <= MaxFile /\ Len(buffer) <= capacity
        /\ capacity \in Nat /\ start = 0 /\ MaxFile \in Nat
    BY StringIsSeq, LenProperties, SizesArePositive DEF TypeOK, Counted, Before
  <2> DEFINE rest == MaxFile - Len(buffer)
             most == Min({Room, rest})
  <2>2. Room \in Nat /\ rest \in Nat /\ Room + Len(buffer) = capacity
        /\ rest + Len(buffer) = MaxFile
    BY <2>1 DEF Room
  <2> HIDE DEF rest
  <2>3. most \in Nat /\ most <= Room /\ most <= rest
    <3>1. Room \in Int /\ rest \in Int
      BY <2>2
    <3>2. most \in {Room, rest} /\ most <= Room /\ most <= rest
      BY <3>1, MinOfTwo, Zenon
    <3> HIDE DEF most
    <3> QED BY <2>2, <3>2
  <2>4. PICK n \in 0 .. most : \E chunk \in [1 .. n -> Bytes] :
                                  buffer' = buffer \o chunk
    BY DEF rest
  <2> HIDE DEF most
  <2>5. n \in Nat /\ n <= Room /\ Len(buffer) + n <= MaxFile
    BY <2>1, <2>2, <2>3
  <2>6. PICK chunk \in [1 .. n -> Bytes] : buffer' = buffer \o chunk
    BY <2>4
  <2>7. buffer' \in String /\ Len(buffer') = Len(buffer) + n
    BY <2>1, <2>5, <2>6, LongerString
  <2>8. Len(buffer') \in 0 .. capacity
    BY <2>1, <2>2, <2>5, <2>7
  <2>9. pc' \in {"grow", "readEnd"}
    OBVIOUS
  <2> QED BY <2>1, <2>7, <2>8, <2>9 DEF TypeOK
<1>2. Counted'
  BY <1>1 DEF Counted, Before, Splitting
<1>3. heap' = Held'
  BY DEF Held
<1>4. Whole'
  BY <1>1 DEF Whole, Counted, Before, Splitting
<1> QED BY <1>1, <1>2, <1>3, <1>4

\* The buffer grows.
LEMMA GrowKeeps ==
  ASSUME StringsInv, Grow
  PROVE  StringsInv'
<1> USE DEF StringsInv, Grow
<1>1. TypeOK'
  <2>1. Len(buffer) \in 0 .. capacity * 2 /\ 0 \in 0 .. capacity
    BY DEF TypeOK, Counted
  <2>2. start = 0 /\ numTokens = 0
    BY DEF Counted, Before
  <2>3. CASE buffer' = buffer /\ capacity' = capacity * 2 /\ pc' = "read"
    BY <2>1, <2>2, <2>3 DEF TypeOK
  <2>4. CASE buffer' = <<>> /\ capacity' = capacity /\ pc' = "close"
    BY <2>1, <2>2, <2>4, EmptyString DEF TypeOK
  <2> QED BY <2>3, <2>4
<1>2. Counted'
  BY EmptyString DEF TypeOK, Counted, Before, Splitting
<1>3. heap' = Held'
  BY NoLines, KindsOfBlocks DEF Counted, Before, Held, Lines
<1>4. Whole'
  BY DEF Whole, Counted, Before, Splitting
<1> QED BY <1>1, <1>2, <1>3, <1>4

\* The file ends, or the last read failed.
LEMMA ReadEndKeeps ==
  ASSUME StringsInv, ReadEnd
  PROVE  StringsInv'
<1> USE DEF StringsInv, ReadEnd
<1>1. TypeOK'
  BY EmptyString DEF TypeOK, Counted
<1>2. Counted'
  BY EmptyString DEF TypeOK, Counted, Before, Splitting
<1>3. heap' = Held'
  BY NoLines, KindsOfBlocks DEF Counted, Before, Held, Lines
<1>4. Whole'
  BY DEF Whole, Counted, Before, Splitting
<1> QED BY <1>1, <1>2, <1>3, <1>4

\* The tokens are counted and their array is allocated.
LEMMA SplitKeeps ==
  ASSUME StringsInv, Split
  PROVE  StringsInv'
<1> USE DEF StringsInv, Split
<1>1. /\ buffer \in Seq(Bytes) /\ Len(buffer) \in Nat
      /\ Len(buffer) <= MaxFile /\ numTokens = 0
      /\ start = 0 /\ MaxFile \in Nat /\ env = NULL /\ status = "NONE"
      /\ buffer # <<>> => Len(buffer) > 0
  BY StringIsSeq, EmptySeq, LenProperties, SizesArePositive
     DEF TypeOK, Counted, Before
<1>2. /\ CountTokens \in 0 .. MaxFile
      /\ buffer # <<>> => CountTokens > 0
  BY <1>1, TokensAreFew
<1>3. tokens = <<>>
  <2>1. tokens \in Seq(String \cup {NULL}) /\ Len(tokens) = 0
    <3>1. tokens \in Seq(String \cup {NULL}) /\ Len(tokens) <= 0
      BY <1>1 DEF TypeOK
    <3> QED BY <3>1, LenProperties
  <2> QED BY <2>1, EmptySeq
<1>4. TypeOK'
  <2>1. pc' \in {"close", "tokens"} /\ (pc' = "tokens" => buffer # <<>>)
    OBVIOUS
  <2>2. numTokens' \in 0 .. MaxFile
    BY <1>1, <1>2
  <2>3. Len(tokens) = 0 /\ UNCHANGED tokens
    BY <1>3, EmptyString
  <2>4. UNCHANGED <<call, capacity, buffer, tokens, start, env>>
    OBVIOUS
  <2>5. status' \in {"NONE", "INVALID_ARGUMENT", "OUT_OF_MEMORY"}
        /\ refused' \in BOOLEAN
    BY <1>1 DEF TypeOK
  <2> HIDE DEF Split
  <2>6. Len(tokens)' <= numTokens'
    BY <2>2, <2>3, <2>4
  <2>7. ~(pc' = "tokens" /\ start' = Len(buffer'))
    BY <1>1, <2>1, <2>4
  <2> QED BY <1>1, <2>1, <2>2, <2>4, <2>5, <2>6, <2>7 DEF TypeOK
<1>5. Counted'
  <2>1. {i \in 1 .. 0 : EndsToken(i)} = {}
    OBVIOUS
  <2>2. Cardinality({i \in 1 .. start : EndsToken(i)}) = Len(tokens)
    BY <1>1, <1>3, <2>1, FS_EmptySet, EmptyString
  <2>3. capacity \in Nat \ {0}
    BY DEF Counted
  <2>4. UNCHANGED <<capacity, buffer, start, tokens, env, call>>
    OBVIOUS
  <2>5. CountTokens' = CountTokens
    BY DEF CountTokens, EndsToken
  <2>6. Cardinality({i \in 1 .. start : EndsToken(i)})'
        = Cardinality({i \in 1 .. start : EndsToken(i)})
    BY DEF EndsToken
  <2>7. \/ pc' = "close" /\ status' # "NONE" /\ numTokens' = 0
        \/ /\ pc' = "tokens" /\ status' = "NONE" /\ buffer # <<>>
           /\ numTokens' = CountTokens
    BY <1>1
  <2> HIDE DEF Split
  <2> QED BY <1>1, <2>2, <2>3, <2>4, <2>5, <2>6, <2>7
          DEF Counted, Before, Splitting
<1>6. heap' = Held'
  <2>1. heap = {Stream, Buffer}
    BY DEF Held
  <2>2. OwnTokens' = {}
    BY <1>3, EmptyString DEF OwnTokens
  <2>3. CASE pc' = "close"
    <3>1. heap' = heap \ {Buffer} /\ numTokens' = 0
      BY <1>1, <2>3
    <3> QED BY <2>1, <2>3, <3>1, KindsOfBlocks DEF Held, Lines
  <2>4. CASE pc' # "close"
    <3>1. /\ heap' = heap \cup {TokenArray} /\ pc' = "tokens"
          /\ numTokens' = CountTokens /\ CountTokens > 0
      BY <1>2, <2>4
    <3> QED BY <2>1, <2>2, <3>1 DEF Held, Lines
  <2> QED BY <2>3, <2>4
<1>7. Whole'
  <2>1. Joined(<<>>) = <<>>
    <3>1. [i \in DOMAIN <<>> |-> Append(<<>>[i], Nul)] = <<>>
      BY EmptyString
    <3> QED BY <3>1, EmptyString DEF Joined, FlattenSeq
  <2>2. UNCHANGED <<tokens, start, env, buffer>>
    OBVIOUS
  <2>3. pc' = "close" => status' # "NONE"
    OBVIOUS
  <2>4. pc' \in {"close", "tokens"}
    OBVIOUS
  <2> HIDE DEF Split
  <2> QED BY <1>1, <1>3, <2>1, <2>2, <2>3, <2>4, EmptyString
          DEF Whole, Splitting, Ended
<1> QED BY <1>4, <1>5, <1>6, <1>7

\* A token is copied.
LEMMA DupTokenKeeps ==
  ASSUME StringsInv, DupToken
  PROVE  StringsInv'
<1> DEFINE Ends(n) == {i \in 1 .. n : EndsToken(i)}
<1>1. /\ pc = "tokens" /\ pc' = "tokens" /\ start < Len(buffer)
      /\ start' = NextEnd
      /\ UNCHANGED <<call, capacity, buffer, numTokens, env, status>>
      /\ \/ /\ tokens' = Append(tokens, TokenText)
            /\ heap' = heap \cup {Token(Len(tokens) + 1)}
            /\ UNCHANGED refused
         \/ /\ tokens' = Append(tokens, NULL)
            /\ refused' = TRUE
            /\ UNCHANGED heap
  BY DEF DupToken
<1>2. /\ buffer \in Seq(Bytes) /\ Len(buffer) \in Nat /\ start \in Nat
      /\ Len(buffer) <= MaxFile /\ buffer # <<>>
      /\ start > 0 => EndsToken(start)
      /\ numTokens = CountTokens /\ Len(tokens) = Cardinality(Ends(start))
      /\ tokens \in Seq(String \cup {NULL}) /\ Len(tokens) \in Nat
      /\ numTokens \in Nat /\ numTokens > 0
  BY <1>1, StringIsSeq, LenProperties, TokensAreFew
     DEF StringsInv, TypeOK, Counted
<1>3. /\ NextEnd \in start + 1 .. Len(buffer)
      /\ EndsToken(NextEnd)
  BY <1>1, <1>2, NextEndIsNext
<1>4. /\ TokenText \in Seq(Bytes) /\ Len(TokenText) <= Len(buffer)
      /\ ~Contains(TokenText, Nul)
      /\ Ended(NextEnd) = Ended(start) \o Append(TokenText, Nul)
  BY <1>1, <1>2, TokenIsNext
<1>5. /\ Cardinality(Ends(NextEnd)) = Len(tokens) + 1
      /\ Cardinality(Ends(NextEnd)) <= numTokens
  BY <1>1, <1>2, OneEndMore
<1>6. TokenText \in String /\ TokenText # NULL
  <2>1. Len(TokenText) <= MaxFile
    BY <1>2, <1>4, LenProperties, SizesArePositive
  <2> QED BY <1>4, <2>1, StringIsSeq, NullIsNoString
<1>7. /\ tokens' \in Seq(String \cup {NULL}) /\ Len(tokens') = Len(tokens) + 1
      /\ \A i \in 1 .. Len(tokens) : tokens'[i] = tokens[i]
      /\ DOMAIN tokens = 1 .. Len(tokens)
      /\ DOMAIN tokens' = 1 .. Len(tokens) + 1
      /\ \/ /\ tokens'[Len(tokens) + 1] = TokenText
            /\ tokens' = Append(tokens, TokenText)
            /\ heap' = heap \cup {Token(Len(tokens) + 1)}
            /\ UNCHANGED refused
         \/ /\ tokens'[Len(tokens) + 1] = NULL
            /\ refused' = TRUE
            /\ UNCHANGED heap
  <2>1. PICK x \in String \cup {NULL} :
          /\ tokens' = Append(tokens, x)
          /\ \/ /\ x = TokenText
                /\ heap' = heap \cup {Token(Len(tokens) + 1)}
                /\ UNCHANGED refused
             \/ /\ x = NULL
                /\ refused' = TRUE
                /\ UNCHANGED heap
    BY <1>1, <1>6
  <2>2. /\ Append(tokens, x) \in Seq(String \cup {NULL})
        /\ Len(Append(tokens, x)) = Len(tokens) + 1
        /\ \A i \in 1 .. Len(tokens) : Append(tokens, x)[i] = tokens[i]
        /\ Append(tokens, x)[Len(tokens) + 1] = x
    <3> DEFINE S == String \cup {NULL}
    <3>1. tokens \in Seq(S) /\ x \in S
      BY <1>2
    <3> HIDE DEF S
    <3>2. /\ Append(tokens, x) \in Seq(S)
          /\ Len(Append(tokens, x)) = Len(tokens) + 1
          /\ \A i \in 1 .. Len(tokens) : Append(tokens, x)[i] = tokens[i]
          /\ Append(tokens, x)[Len(tokens) + 1] = x
      BY <3>1, AppendProperties
    <3> QED BY <3>2 DEF S
  <2>3. DOMAIN tokens = 1 .. Len(tokens)
        /\ DOMAIN Append(tokens, x) = 1 .. Len(Append(tokens, x))
    BY <1>2, <2>2, LenProperties
  <2> QED BY <2>1, <2>2, <2>3
<1>8. \A i \in 1 .. Len(buffer) : EndsToken(i)' <=> EndsToken(i)
  BY <1>1 DEF EndsToken
<1>9. CountTokens' = CountTokens
  BY <1>1 DEF CountTokens, EndsToken
<1>10. Len(tokens') = Cardinality(Ends(start))'
  <2>1. Cardinality(Ends(start))' = Cardinality(Ends(NextEnd))
    BY <1>1 DEF EndsToken
  <2> QED BY <1>5, <1>7, <2>1
<1>11. TypeOK'
  <2>1. start' \in 0 .. Len(buffer)
    BY <1>1, <1>2, <1>3
  <2>2. start' = Len(buffer) => Len(tokens') = numTokens
    <3>1. DOMAIN buffer = 1 .. Len(buffer)
      BY <1>2, LenProperties
    <3>2. CountTokens = Cardinality(Ends(Len(buffer)))
      BY <3>1 DEF CountTokens
    <3>3. NextEnd = Len(buffer) => Cardinality(Ends(NextEnd)) = CountTokens
      BY <3>2, Zenon
    <3> HIDE DEF Ends
    <3> QED BY <1>1, <1>2, <1>5, <1>7, <3>3
  <2>3. Len(tokens') <= numTokens
    BY <1>5, <1>7
  <2>4. refused' \in BOOLEAN
    BY <1>7 DEF StringsInv, TypeOK
  <2> HIDE DEF Ends
  <2> QED BY <1>1, <1>7, <2>1, <2>2, <2>3, <2>4 DEF StringsInv, TypeOK
<1>12. Counted'
  <2>1. EndsToken(start)'
    BY <1>1, <1>3 DEF EndsToken
  <2> HIDE DEF Ends
  <2>2. Len(tokens') = Cardinality({i \in 1 .. start : EndsToken(i)})'
    BY <1>10 DEF Ends
  <2> QED BY <1>1, <1>2, <1>9, <2>1, <2>2
          DEF StringsInv, Counted, Before, Splitting
<1>13. heap' = Held'
  <2>1. heap = {Stream, Buffer} \cup {TokenArray} \cup OwnTokens
    BY <1>1, <1>2 DEF StringsInv, Held, Lines
  <2>2. Held' = {Stream, Buffer} \cup {TokenArray} \cup OwnTokens'
    BY <1>1, <1>2 DEF Held, Lines
  <2> DEFINE J == {j \in 1 .. Len(tokens) : tokens[j] # NULL}
             K == {j \in 1 .. Len(tokens) + 1 : tokens'[j] # NULL}
             n == Len(tokens) + 1
  <2>3. OwnTokens = {Token(i) : i \in J} /\ OwnTokens' = {Token(i) : i \in K}
    BY <1>7 DEF OwnTokens
  <2>4. \A j \in 1 .. n : j \in 1 .. Len(tokens) \/ j = n
    BY <1>2
  <2>5. n \in 1 .. n /\ \A j \in 1 .. Len(tokens) : j \in 1 .. n
    <3>1. Len(tokens) \in Nat
      BY <1>2
    <3> QED BY <3>1
  <2>6. CASE tokens'[n] = NULL
    <3>1. K = J
      BY <1>7, <2>4, <2>5, <2>6
    <3>2. UNCHANGED heap
      BY <1>6, <1>7, <2>6
    <3> QED BY <2>1, <2>2, <2>3, <3>1, <3>2
  <2>7. CASE tokens'[n] # NULL
    <3>1. K = J \cup {n}
      BY <1>7, <2>4, <2>5, <2>7
    <3>2. heap' = heap \cup {Token(n)}
      BY <1>7, <2>7
    <3> HIDE DEF J, K, n
    <3> QED BY <2>1, <2>2, <2>3, <3>1, <3>2
  <2> QED BY <2>6, <2>7
<1>14. Whole'
  <2>1. env = NULL /\ env' = NULL
    BY <1>1 DEF StringsInv, Counted, Before
  <2>2. SUFFICES ASSUME ~refused'
                 PROVE  /\ \A i \in DOMAIN tokens' :
                             tokens'[i] # NULL /\ ~Contains(tokens'[i], Nul)
                        /\ Joined(tokens') = Ended(start)'
    BY <2>1 DEF Whole
  <2>3. ~refused /\ tokens' = Append(tokens, TokenText)
        /\ tokens'[Len(tokens) + 1] = TokenText
    BY <1>7, <2>2
  <2>4. /\ \A i \in 1 .. Len(tokens) :
             tokens[i] # NULL /\ ~Contains(tokens[i], Nul)
        /\ Joined(tokens) = Ended(start)
    BY <1>1, <1>7, <2>3 DEF StringsInv, Whole
  <2>5. tokens \in Seq(Seq(Bytes))
    <3>1. \A i \in 1 .. Len(tokens) : tokens[i] \in String \cup {NULL}
      BY <1>2, LenProperties
    <3>2. \A i \in 1 .. Len(tokens) : tokens[i] \in Seq(Bytes)
      BY <2>4, <3>1, StringIsSeq
    <3>3. tokens \in [1 .. Len(tokens) -> Seq(Bytes)]
      BY <1>2, <3>2, LenProperties
    <3> QED BY <1>2, <3>3, MakeSeq
  <2>6. Joined(tokens') = Joined(tokens) \o Append(TokenText, Nul)
    BY <1>4, <2>3, <2>5, JoinedMore
  <2>7. Ended(start)' = Ended(NextEnd)
    BY <1>1 DEF Ended
  <2>8. ASSUME NEW i \in DOMAIN tokens'
        PROVE  tokens'[i] # NULL /\ ~Contains(tokens'[i], Nul)
    <3>1. i \in 1 .. Len(tokens) \/ i = Len(tokens) + 1
      BY <1>2, <1>7
    <3>2. CASE i \in 1 .. Len(tokens)
      BY <1>7, <2>4, <3>2
    <3>3. CASE i = Len(tokens) + 1
      BY <1>4, <1>6, <2>3, <3>3
    <3> QED BY <3>1, <3>2, <3>3
  <2> QED BY <1>4, <2>4, <2>6, <2>7, <2>8
<1> QED BY <1>11, <1>12, <1>13, <1>14 DEF StringsInv

\* There are no more tokens.
LEMMA TokensDoneKeeps ==
  ASSUME StringsInv, TokensDone
  PROVE  StringsInv'
<1> USE DEF StringsInv, TokensDone
<1>1. TypeOK'
  BY DEF TypeOK
<1>2. Counted'
  <2>1. /\ buffer # <<>> /\ numTokens > 0 /\ Len(tokens) = numTokens
        /\ start = Len(buffer) /\ env = NULL /\ status = "NONE"
    <3>1. buffer \in Seq(Bytes) /\ buffer # <<>> /\ numTokens = CountTokens
      BY StringIsSeq DEF TypeOK, Counted
    <3> QED BY <3>1, TokensAreFew DEF TypeOK, Counted, Before
  <2>2. EndsToken(start)' <=> EndsToken(start)
    BY DEF EndsToken
  <2> QED BY <2>1, <2>2 DEF Counted, Before, Splitting
<1>3. heap' = Held'
  BY KindsOfBlocks DEF Held, Lines, OwnTokens
<1>4. Whole'
  BY DEF Counted, Before, Whole, Splitting, Ended
<1> QED BY <1>1, <1>2, <1>3, <1>4

\* The file is closed.
LEMMA CloseKeeps ==
  ASSUME StringsInv, Close
  PROVE  StringsInv'
<1> USE DEF StringsInv, Close
<1>1. TypeOK'
  BY DEF TypeOK
<1>2. Counted'
  BY DEF TypeOK, Counted, Before, Splitting, EndsToken
<1>3. heap' = Held'
  <2>1. heap' = Lines /\ env = NULL
    BY KindsOfBlocks DEF Held, Counted, Before
  <2>2. Lines' = Lines
    BY DEF Lines, OwnTokens
  <2>3. CASE call = "cmdline"
    <3>1. pc' = "returned" /\ Result' = Lines
      BY <2>3 DEF Result, Lines, OwnTokens
    <3> QED BY <2>1, <3>1 DEF Held
  <2>4. CASE call # "cmdline"
    <3>1. pc' \in {"allocVars", "dropLines"} /\ Result' = {}
      BY <2>1, <2>4 DEF TypeOK, Result
    <3> QED BY <2>1, <2>2, <3>1 DEF Held
  <2> QED BY <2>3, <2>4
<1>4. Whole'
  BY DEF TypeOK, Counted, Before, Whole, Splitting, Ended
<1> QED BY <1>1, <1>2, <1>3, <1>4

\* The array of variables is allocated.
LEMMA AllocVarsKeeps ==
  ASSUME StringsInv, AllocVars
  PROVE  StringsInv'
<1> USE DEF StringsInv, AllocVars
<1>1. /\ <<>> \in Seq(Variables) /\ <<>> # NULL
      /\ Len(<<>>) = 0 /\ DOMAIN <<>> = {}
  <2>1. <<>> \in Seq(Variables)
    BY EmptyString, Zenon
  <2> QED BY <2>1, EmptyString, NullIsNoString
<1>2. TypeOK'
  <2>1. Len(<<>>) \in 0 .. numTokens
    BY <1>1 DEF TypeOK
  <2> QED BY <1>1, <2>1 DEF TypeOK
<1>3. Counted'
  BY <1>1 DEF TypeOK, Counted, Before, Splitting, EndsToken
<1>4. heap' = Held'
  <2>1. heap = Lines /\ env = NULL /\ call = "environ"
    BY DEF Held, Counted, Before
  <2>2. Lines' = Lines
    BY DEF Lines, OwnTokens
  <2>3. CASE env' = <<>>
    <3>1. Result' = {VarArray} /\ pc' = "vars"
      <4>1. UNION {Own(i, <<>>[i]) : i \in DOMAIN <<>>} = {}
        BY <1>1
      <4> QED BY <1>1, <2>1, <2>3, <4>1 DEF Result
    <3>2. heap' = heap \cup {VarArray}
      BY <1>1, <2>1, <2>3
    <3> QED BY <2>1, <2>2, <3>1, <3>2 DEF Held
  <2>4. CASE env' # <<>>
    <3>1. Result' = {} /\ pc' = "dropLines" /\ heap' = heap
      BY <2>1, <2>4 DEF Result
    <3> QED BY <2>1, <2>2, <3>1 DEF Held
  <2> QED BY <2>3, <2>4
<1>5. Whole'
  BY <1>1 DEF Counted, Before, Whole, Splitting, Ended
<1> QED BY <1>2, <1>3, <1>4, <1>5

\* A variable is its line again, and its name holds no delimiter.
LEMMA VariableIsLine ==
  ASSUME Line \in Seq(Bytes)
  PROVE  /\ VarOf \in Variables
         /\ LineOf(VarOf) = Line
         /\ ~Contains(VarOf.name, Equals)
<1> DEFINE s == Line
           d == Delim
<1>1. Len(s) \in Nat /\ DOMAIN s = 1 .. Len(s)
  BY LenProperties
<1>2. CASE Delims = {}
  <2>1. VarOf = [name |-> s, value |-> NULL]
    BY <1>2 DEF VarOf
  <2>2. ~Contains(s, Equals)
    BY <1>1, <1>2 DEF Delims, Contains
  <2> HIDE DEF s
  <2>3. VarOf.name = s /\ VarOf.value = NULL
    BY <2>1
  <2> QED BY <2>1, <2>2, <2>3 DEF Variables, LineOf, s
<1>3. CASE Delims # {}
  <2>1. d \in Delims /\ \A j \in Delims : d <= j
    <3>1. Delims \in SUBSET Nat
      BY <1>1 DEF Delims
    <3>2. \E i \in Delims : \A j \in Delims : i <= j
      BY <1>3, <3>1, LeastNumber
    <3> QED BY <3>2 DEF Delim
  <2>2. /\ d \in Nat /\ d > 0 /\ d - 1 \in Nat /\ d - 1 <= Len(s)
        /\ 1 <= (d - 1) + 1 /\ d + 1 \in Nat /\ d + 1 > 0 /\ d <= Len(s)
        /\ d + 1 <= Len(s) + 1 /\ ((d - 1) + 1) - 1 = d - 1
        /\ s[d] = Equals
    BY <1>1, <2>1 DEF Delims
  <2> DEFINE a == SubSeq(s, 1, d - 1)
             b == SubSeq(s, d + 1, Len(s))
  <2>3. VarOf = [name |-> a, value |-> b]
    BY <1>3 DEF VarOf
  <2> HIDE DEF d
  <2>4. /\ a \in Seq(Bytes) /\ Len(a) = d - 1
        /\ \A i \in 1 .. d - 1 : a[i] = s[(1 + i) - 1]
    <3>1. /\ a \in Seq(Bytes) /\ Len(a) = ((d - 1) + 1) - 1
          /\ \A i \in 1 .. ((d - 1) + 1) - 1 : a[i] = s[(1 + i) - 1]
      BY <2>2, PartOfBytes
    <3> QED BY <2>2, <3>1
  <2>5. b \in Seq(Bytes)
    BY <1>1, <2>2, PartOfBytes
  <2>6. \A i \in 1 .. d - 1 : a[i] # Equals
    <3>1. ASSUME NEW i \in 1 .. d - 1 PROVE s[i] # Equals
      <4>1. i \in DOMAIN s /\ ~(d <= i)
        BY <1>1, <2>2
      <4> QED BY <2>1, <4>1 DEF Delims
    <3>2. \A i \in 1 .. d - 1 : (1 + i) - 1 = i
      BY <2>2
    <3> HIDE DEF a
    <3> QED BY <2>4, <3>1, <3>2
  <2>7. ~Contains(a, Equals)
    BY <2>4, <2>6 DEF Contains
  <2>8. (a \o <<Equals>>) \o b = s
    <3>1. Append(a, s[d]) = SubSeq(s, 1, d)
      BY <1>1, <2>2, AllButLast
    <3>2. Equals \in Bytes
      BY BytesHaveMarks
    <3>3. a \o <<Equals>> = Append(a, Equals)
      <4> HIDE DEF a
      <4> QED BY <2>4, <3>2, AppendIsConcat
    <3>4. SubSeq(s, 1, d) \o b = SubSeq(s, 1, Len(s))
      <4>1. s \in Seq(Bytes) /\ Len(s) <= Len(s)
        BY <1>1
      <4> HIDE DEF s
      <4> QED BY <1>1, <2>2, <4>1, TwoParts
    <3>5. SubSeq(s, 1, Len(s)) = s
      BY SubSeqFull
    <3> QED BY <2>2, <3>1, <3>3, <3>4, <3>5
  <2>9. b # NULL
    BY <2>5, NullIsNoString
  <2> HIDE DEF a, b, s
  <2>10. VarOf.name = a /\ VarOf.value = b
    BY <2>3
  <2> QED BY <2>3, <2>4, <2>5, <2>7, <2>8, <2>9, <2>10
          DEF Variables, LineOf, s
<1> QED BY <1>2, <1>3

\* A line becomes a variable.
LEMMA SetVarKeeps ==
  ASSUME StringsInv, SetVar
  PROVE  StringsInv'
<1> DEFINE n == Len(env) + 1
<1>1. /\ pc = "vars" /\ Len(env) < numTokens /\ Line # NULL
      /\ env' = Append(env, VarOf)
      /\ heap' = heap \cup Own(n, VarOf)
      /\ UNCHANGED <<call, pc, capacity, buffer, numTokens, tokens, start,
                     status, refused>>
  BY DEF SetVar
<1>2. /\ env \in Seq(Variables) /\ env # NULL /\ call = "environ"
      /\ status = "NONE" /\ Len(tokens) = numTokens /\ numTokens > 0
      /\ tokens \in Seq(String \cup {NULL}) /\ numTokens \in Nat
  BY <1>1, SizesArePositive DEF StringsInv, TypeOK, Counted, Splitting
<1>3. Len(env) \in Nat /\ n \in 1 .. Len(tokens) /\ Line = tokens[n]
  BY <1>1, <1>2, LenProperties DEF Line
<1>4. Line \in Seq(Bytes)
  <2>1. tokens[n] \in String \cup {NULL}
    BY <1>2, <1>3, LenProperties
  <2> QED BY <1>1, <1>3, <2>1, StringIsSeq
<1>5. /\ VarOf \in Variables /\ LineOf(VarOf) = Line
      /\ ~Contains(VarOf.name, Equals)
  BY <1>4, VariableIsLine
<1>6. /\ env' \in Seq(Variables) /\ Len(env') = n
      /\ \A i \in 1 .. Len(env) : env'[i] = env[i]
      /\ env'[n] = VarOf
      /\ DOMAIN env = 1 .. Len(env) /\ DOMAIN env' = 1 .. n
      /\ env' # NULL
  <2>1. /\ Append(env, VarOf) \in Seq(Variables)
        /\ Len(Append(env, VarOf)) = n
        /\ \A i \in 1 .. Len(env) : Append(env, VarOf)[i] = env[i]
        /\ Append(env, VarOf)[n] = VarOf
    BY <1>2, <1>5, AppendProperties
  <2>2. DOMAIN env = 1 .. Len(env)
        /\ DOMAIN Append(env, VarOf) = 1 .. Len(Append(env, VarOf))
    BY <1>2, <2>1, LenProperties
  <2>3. Append(env, VarOf) # NULL
    BY <2>1, NullIsNoString
  <2> QED BY <1>1, <2>1, <2>2, <2>3
<1>7. TypeOK'
  <2>1. Len(env') \in 0 .. numTokens
    BY <1>1, <1>2, <1>3, <1>6
  <2> QED BY <1>1, <2>1 DEF StringsInv, TypeOK
<1>8. Counted'
  BY <1>1, <1>2, <1>6 DEF StringsInv, Counted, Before, Splitting, EndsToken
<1>9. heap' = Held'
  <2>1. heap = Lines \cup Result /\ Lines' = Lines
    BY <1>1 DEF StringsInv, Held, Lines, OwnTokens
  <2>2. Held' = Lines \cup Result'
    BY <1>1, <2>1 DEF Held
  <2>3. Result = {VarArray} \cup UNION {Own(i, env[i]) : i \in 1 .. Len(env)}
    BY <1>2, <1>6 DEF Result
  <2>4. Result' = {VarArray} \cup UNION {Own(i, env'[i]) : i \in 1 .. n}
    BY <1>1, <1>2, <1>6 DEF Result, Own
  <2>5. \A i \in 1 .. n : i \in 1 .. Len(env) \/ i = n
    BY <1>3
  <2>6. n \in 1 .. n /\ \A i \in 1 .. Len(env) : i \in 1 .. n
    BY <1>3
  <2>7. {Own(i, env'[i]) : i \in 1 .. n}
          = {Own(i, env[i]) : i \in 1 .. Len(env)} \cup {Own(n, VarOf)}
    <3> HIDE DEF n
    <3> QED BY <1>6, <2>5, <2>6
  <2>8. Result' = Result \cup Own(n, VarOf)
    <3> HIDE DEF n
    <3> QED BY <2>3, <2>4, <2>7
  <2> QED BY <1>1, <2>1, <2>2, <2>8
<1>10. Whole'
  <2>1. ASSUME ~refused, NEW i \in DOMAIN env'
        PROVE  LineOf(env'[i]) = tokens[i] /\ ~Contains(env'[i].name, Equals)
    <3>1. i \in 1 .. Len(env) \/ i = n
      BY <1>3, <1>6
    <3>2. CASE i \in 1 .. Len(env)
      <4>1. LineOf(env[i]) = tokens[i] /\ ~Contains(env[i].name, Equals)
        BY <1>2, <1>6, <2>1, <3>2 DEF StringsInv, Whole
      <4> QED BY <1>6, <3>2, <4>1
    <3>3. CASE i = n
      BY <1>3, <1>5, <1>6, <3>3
    <3> QED BY <3>1, <3>2, <3>3
  <2>2. Ended(start)' = Ended(start)
    BY <1>1 DEF Ended
  <2>3. Whole
    BY DEF StringsInv
  <2> HIDE DEF n
  <2> QED BY <1>1, <2>1, <2>2, <2>3 DEF Whole
<1> QED BY <1>7, <1>8, <1>9, <1>10 DEF StringsInv

\* The lines are freed.
LEMMA DropLinesKeeps ==
  ASSUME StringsInv, DropLines
  PROVE  StringsInv'
<1> USE DEF StringsInv, DropLines
<1>1. TypeOK'
  BY DEF TypeOK
<1>2. Counted'
  BY DEF TypeOK, Counted, Before, Splitting, EndsToken
<1>3. heap' = Held'
  <2>1. heap = Lines \cup Result /\ call = "environ"
    BY DEF Held, Counted
  <2>2. Result' = Result
    BY DEF Result, OwnTokens, Own
  <2>3. Lines \subseteq {TokenArray} \cup OwnTokens
    BY DEF Lines
  <2>4. \A b \in OwnTokens : b[1] = "token"
    BY DEF OwnTokens, Token
  <2>5. heap' = Result
    BY <2>1, <2>3, <2>4, KindsOfBlocks
  <2> QED BY <2>2, <2>5 DEF Held
<1>4. Whole'
  BY DEF Counted, Whole, Splitting, Ended
<1> QED BY <1>1, <1>2, <1>3, <1>4

\* The caller frees the result.
LEMMA FreeResultKeeps ==
  ASSUME StringsInv, FreeResult
  PROVE  StringsInv'
<1> USE DEF StringsInv, FreeResult
<1>1. TypeOK'
  <2>1. <<>> \in Seq(String \cup {NULL})
    BY EmptyString, Zenon
  <2>2. 0 \in 0 .. MaxFile /\ Len(<<>>) <= 0
    BY EmptyString, SizesArePositive
  <2> QED BY <2>1, <2>2 DEF TypeOK
<1>2. Counted'
  BY DEF TypeOK, Counted, Before, Splitting, EndsToken
<1>3. heap' = Held'
  BY DEF Held
<1>4. Whole'
  BY DEF Whole, Splitting
<1> QED BY <1>1, <1>2, <1>3, <1>4

\* The file cannot be opened.
LEMMA OpenFailsKeeps ==
  ASSUME StringsInv, OpenFails
  PROVE  StringsInv'
<1> USE DEF StringsInv, OpenFails
<1>1. TypeOK'
  BY DEF TypeOK, Counted, Before
<1>2. Counted'
  BY DEF TypeOK, Counted, Before, Splitting, EndsToken
<1>3. heap' = Held'
  BY DEF TypeOK, Counted, Before, Held, Lines, OwnTokens, Result, Own
<1>4. Whole'
  BY DEF Counted, Before, Splitting, Whole, Ended
<1> QED BY <1>1, <1>2, <1>3, <1>4

\* The file is opened, and the buffer allocated.
LEMMA OpenFileKeeps ==
  ASSUME StringsInv, OpenFile
  PROVE  StringsInv'
<1> USE DEF StringsInv, OpenFile
<1>1. TypeOK'
  BY DEF TypeOK, Counted, Before
<1>2. Counted'
  BY DEF TypeOK, Counted, Before, Splitting, EndsToken
<1>3. heap' = Held'
  BY DEF TypeOK, Counted, Before, Held, Lines, OwnTokens, Result, Own
<1>4. Whole'
  BY DEF Counted, Before, Splitting, Whole, Ended
<1> QED BY <1>1, <1>2, <1>3, <1>4

\* A variable could not be copied.
LEMMA SetVarFailsKeeps ==
  ASSUME StringsInv, SetVarFails
  PROVE  StringsInv'
<1> USE DEF StringsInv, SetVarFails
<1>1. TypeOK'
  BY DEF TypeOK, Counted, Before
<1>2. Counted'
  BY DEF TypeOK, Counted, Before, Splitting, EndsToken
<1>3. heap' = Held'
  BY DEF TypeOK, Counted, Before, Held, Lines, OwnTokens, Result, Own
<1>4. Whole'
  BY DEF Counted, Before, Splitting, Whole, Ended
<1> QED BY <1>1, <1>2, <1>3, <1>4

\* A line is missing.
LEMMA CrashKeeps ==
  ASSUME StringsInv, Crash
  PROVE  StringsInv'
<1> USE DEF StringsInv, Crash
<1>1. TypeOK'
  BY DEF TypeOK, Counted, Before
<1>2. Counted'
  BY DEF TypeOK, Counted, Before, Splitting, EndsToken
<1>3. heap' = Held'
  BY DEF TypeOK, Counted, Before, Held, Lines, OwnTokens, Result, Own
<1>4. Whole'
  BY DEF Counted, Before, Splitting, Whole, Ended
<1> QED BY <1>1, <1>2, <1>3, <1>4

\* There are no more lines.
LEMMA VarsDoneKeeps ==
  ASSUME StringsInv, VarsDone
  PROVE  StringsInv'
<1> USE DEF StringsInv, VarsDone
<1>1. TypeOK'
  BY DEF TypeOK, Counted, Before
<1>2. Counted'
  BY DEF TypeOK, Counted, Before, Splitting, EndsToken
<1>3. heap' = Held'
  BY DEF TypeOK, Counted, Before, Held, Lines, OwnTokens, Result, Own
<1>4. Whole'
  BY DEF Counted, Before, Splitting, Whole, Ended
<1> QED BY <1>1, <1>2, <1>3, <1>4

\* So does every step of a program that makes such calls.
LEMMA StringsStep == StringsInv /\ [Next]_vars => StringsInv'
<1> SUFFICES ASSUME StringsInv, [Next]_vars PROVE StringsInv'
  OBVIOUS
<1>1. ASSUME NEW which \in {"cmdline", "environ"}, Call(which)
      PROVE  StringsInv'
  BY <1>1, CallKeeps
<1>2. CASE CallStep
  BY <1>2, OpenFailsKeeps, OpenFileKeeps, ReadChunkKeeps, GrowKeeps,
     ReadEndKeeps, SplitKeeps, DupTokenKeeps, TokensDoneKeeps, CloseKeeps,
     AllocVarsKeeps, SetVarKeeps, SetVarFailsKeeps, CrashKeeps, VarsDoneKeeps,
     DropLinesKeeps DEF CallStep
<1>3. CASE FreeResult
  BY <1>3, FreeResultKeeps
<1>4. CASE UNCHANGED vars
  BY <1>4 DEF vars, StringsInv, TypeOK, Counted, EndsToken, CountTokens,
     Held, Lines, OwnTokens, Result, Own, Whole, Ended
<1> QED BY <1>1, <1>2, <1>3, <1>4 DEF Next

\* It is known at first.
LEMMA StringsStart == Init => StringsInv
<1> SUFFICES ASSUME Init PROVE StringsInv
  OBVIOUS
<1> USE DEF Init
<1>1. TypeOK
  <2>1. <<>> \in Seq(String \cup {NULL})
    BY EmptyString, Zenon
  <2>2. /\ 0 \in 0 .. MaxFile /\ 0 \in 0 .. InitialCapacity
        /\ 0 \in 0 .. 0 /\ 0 <= 0
    BY SizesArePositive
  <2>3. /\ call \in {"cmdline", "environ"} /\ pc = "idle"
        /\ capacity = InitialCapacity /\ buffer = <<>> /\ numTokens = 0
        /\ tokens = <<>> /\ start = 0 /\ env = NULL /\ status = "NONE"
        /\ refused = FALSE
    OBVIOUS
  <2>4. Len(<<>>) = 0 /\ <<>> \in String
    BY EmptyString
  <2> HIDE DEF Init
  <2> QED BY <2>1, <2>2, <2>3, <2>4 DEF TypeOK
<1>2. Counted
  BY EmptyString, SizesArePositive DEF Counted, Before, Splitting
<1>3. heap = Held
  BY DEF Held
<1>4. Whole
  BY DEF Whole, Splitting
<1> QED BY <1>1, <1>2, <1>3, <1>4 DEF StringsInv

\* What is known makes a returned result own its blocks and hold the file.
LEMMA StringsSafe ==
  ASSUME StringsInv
  PROVE  ResultOwnsTheHeap /\ StringsAreTheFile
<1>1. ResultOwnsTheHeap
  <2>1. pc = "returned" => heap = Result
    BY DEF StringsInv, Held
  <2>2. pc = "idle" => heap = {}
    BY DEF StringsInv, Held
  <2>3. pc = "returned" /\ call = "cmdline" /\ status # "NONE" => Result = {}
    BY NoLines DEF StringsInv, Counted
  <2> QED BY <2>1, <2>2, <2>3 DEF ResultOwnsTheHeap
<1>2. ASSUME Succeeded PROVE StringsAreTheFile
  <2>1. /\ pc = "returned" /\ status = "NONE" /\ ~refused
        /\ buffer # <<>> /\ start = Len(buffer) /\ numTokens > 0
        /\ Len(tokens) = numTokens /\ buffer \in Seq(Bytes)
        /\ tokens \in Seq(String \cup {NULL})
        /\ \A i \in DOMAIN tokens :
             tokens[i] # NULL /\ ~Contains(tokens[i], Nul)
        /\ Joined(tokens) = Ended(start)
    BY <1>2, StringIsSeq
       DEF Succeeded, StringsInv, TypeOK, Counted, Whole, Splitting
  <2>2. Ended(start) = Terminated(buffer)
    <3>1. Len(buffer) # 0
      BY <2>1, EmptySeq
    <3>2. SubSeq(buffer, 1, Len(buffer)) = buffer
      BY <2>1, SubSeqFull
    <3> QED BY <2>1, <3>1, <3>2 DEF Ended
  <2>3. CASE call = "cmdline"
    BY <2>1, <2>2, <2>3 DEF StringsAreTheFile
  <2>4. CASE call # "cmdline"
    <3>1. call = "environ"
      BY <2>4 DEF StringsInv, TypeOK
    <3>2. /\ env # NULL /\ env \in Seq(Variables) /\ Len(env) = Len(tokens)
          /\ \A i \in DOMAIN env : /\ LineOf(env[i]) = tokens[i]
                                   /\ ~Contains(env[i].name, Equals)
      BY <2>1, <3>1 DEF StringsInv, Counted, Whole
    <3>3. DOMAIN env = DOMAIN tokens
      <4>1. DOMAIN env = 1 .. Len(env)
        BY <3>2, LenProperties
      <4>2. DOMAIN tokens = 1 .. Len(tokens)
        BY <2>1, LenProperties
      <4> QED BY <3>2, <4>1, <4>2
    <3>4. [i \in DOMAIN env |-> LineOf(env[i])] = tokens
      <4>1. [i \in DOMAIN env |-> LineOf(env[i])]
              = [i \in DOMAIN tokens |-> tokens[i]]
        BY <3>2, <3>3
      <4>2. tokens = [i \in DOMAIN tokens |-> tokens[i]]
        BY <2>1, LenProperties
      <4> QED BY <4>1, <4>2
    <3> QED BY <2>1, <2>2, <2>4, <3>2, <3>4 DEF StringsAreTheFile
  <2> QED BY <2>3, <2>4
<1> QED BY <1>1, <1>2 DEF StringsAreTheFile

-----------------------------------------------------------------------------
\* Lines and paths

Chars == {Letter, RParen, Newline} \cup Nat

\* The queries take the same least and largest numbers.
LEMMA QueryMinMax == \A S : Query!Min(S) = Min(S) /\ Query!Max(S) = Max(S)
BY DEF Query!Min, Min, Query!Max, Max

\* A sequence that agrees with another as far as it goes.
LEMMA PrefixOf ==
  ASSUME NEW S, NEW s \in Seq(S), NEW t \in Seq(S), Len(s) <= Len(t),
         \A i \in 1 .. Len(s) : s[i] = t[i]
  PROVE  /\ Query!IsPrefix(s, t)
         /\ Len(s) = Len(t) => s = t
<1> DEFINE n == Len(s)
<1>1. n \in Nat /\ Len(t) \in Nat
  BY LenProperties
<1>2. SubSeq(s, 1, n) = s
  BY SubSeqFull
<1>3. SubSeq(t, 1, n) = s
  <2>1. \A i \in 1 .. n : t[i] \in S
    BY <1>1, LenProperties
  <2>2. /\ SubSeq(t, 1, n) \in Seq(S)
        /\ Len(SubSeq(t, 1, n)) = IF 1 <= n THEN (n - 1) + 1 ELSE 0
        /\ \A i \in 1 .. (n - 1) + 1 : SubSeq(t, 1, n)[i] = t[(1 + i) - 1]
    BY <1>1, <2>1, SubSeqProperties
  <2> DEFINE u == SubSeq(t, 1, n)
  <2>3. \A i \in 1 .. n : i \in 1 .. (n - 1) + 1 /\ (1 + i) - 1 = i
    BY <1>1
  <2>4. Len(u) = n /\ \A i \in 1 .. n : u[i] = t[i]
    BY <1>1, <2>2, <2>3
  <2> HIDE DEF u
  <2>5. u \in Seq(S)
    BY <2>2 DEF u
  <2>6. u = s
    BY <2>4, <2>5, SeqEqual
  <2> QED BY <2>6 DEF u
<1>4. Len(s) = Len(t) => s = t
  BY SeqEqual
<1> QED BY <1>2, <1>3, <1>4 DEF Query!IsPrefix

\* The start of a sequence.
LEMMA StartOf ==
  ASSUME NEW S, NEW s \in Seq(S), NEW n \in Nat, n <= Len(s)
  PROVE  /\ SubSeq(s, 1, n) \in Seq(S)
         /\ Len(SubSeq(s, 1, n)) = n
         /\ \A i \in 1 .. n : SubSeq(s, 1, n)[i] = s[i]
<1>1. Len(s) \in Nat /\ \A i \in 1 .. Len(s) : s[i] \in S
  BY LenProperties
<1>2. \A i \in 1 .. n : s[i] \in S
  BY <1>1
<1>3. /\ SubSeq(s, 1, n) \in Seq(S)
      /\ Len(SubSeq(s, 1, n)) = IF 1 <= n THEN (n - 1) + 1 ELSE 0
      /\ \A i \in 1 .. (n - 1) + 1 : SubSeq(s, 1, n)[i] = s[(1 + i) - 1]
  BY <1>2, SubSeqProperties
<1>4. \A i \in 1 .. n : i \in 1 .. (n - 1) + 1 /\ (1 + i) - 1 = i
  OBVIOUS
<1> QED BY <1>3, <1>4

\* What a buffer of the caller holds.
LEMMA CutIsStart ==
  ASSUME NEW S, NEW s \in Seq(S)
  PROVE  \E n \in Nat : /\ n <= Len(s) /\ n < BufferLength
                        /\ n = Len(s) \/ n = BufferLength - 1
                        /\ Query!Cut(s) = SubSeq(s, 1, n)
                        /\ Query!Cut(s) \in Seq(S)
                        /\ Len(Query!Cut(s)) = n
                        /\ \A i \in 1 .. n : Query!Cut(s)[i] = s[i]
<1> DEFINE k == BufferLength - 1
           n == Min({Len(s), k})
<1>1. Len(s) \in Nat /\ k \in Nat /\ k < BufferLength
  BY LenProperties, LengthsArePositive
<1>2. n \in {Len(s), k} /\ n <= Len(s) /\ n <= k
  <2>1. Len(s) \in Int /\ k \in Int
    BY <1>1
  <2> HIDE DEF k
  <2> QED BY <2>1, MinOfTwo, Zenon
<1>3. Query!Cut(s) = SubSeq(s, 1, n)
  BY QueryMinMax DEF Query!Cut
<1> HIDE DEF n
<1>4. n \in Nat /\ n <= Len(s) /\ n < BufferLength
      /\ (n = Len(s) \/ n = BufferLength - 1)
  BY <1>1, <1>2, LengthsArePositive
<1> QED BY <1>3, <1>4, StartOf

\* A line without a newline is read as it is.
LEMMA FiguresRead ==
  ASSUME query # "name", NEW line, Len(line) \in Nat,
         \A i \in 1 .. Len(line) : line[i] # Newline
  PROVE  Query!LineRead(line) = line
BY DEF Query!LineRead, Query!SelectInSeq

\* A name is read up to a newline or the end of the buffer.
LEMMA NameRead ==
  ASSUME query = "name", NEW name \in Seq(Chars)
  PROVE  LET read == Query!LineRead(name \o <<Newline>>)
         IN  /\ Query!IsPrefix(read, name)
             /\ Len(read) < BufferLength
             /\ \/ Len(read) = BufferLength - 1 \/ read = name
                \/ name[Len(read) + 1] = Newline
<1> DEFINE line == name \o <<Newline>>
           size == Len(name)
           fits == Query!Cut(line)
           I == {i \in 1 .. Len(fits) : fits[i] = Newline}
           read == Query!LineRead(line)
<1>1. size \in Nat /\ Newline \in Chars
  BY LenProperties DEF Chars
<1>2. /\ line \in Seq(Chars) /\ Len(line) = size + 1
      /\ \A i \in 1 .. size : line[i] = name[i]
      /\ line[size + 1] = Newline
  <2> DEFINE end == Append(name, Newline)
  <2>1. line = end
    BY <1>1, AppendIsConcat
  <2> HIDE DEF line
  <2>2. /\ end \in Seq(Chars) /\ Len(end) = size + 1
        /\ \A i \in 1 .. size : end[i] = name[i]
        /\ end[size + 1] = Newline
    BY <1>1, AppendProperties
  <2> QED BY <2>1, <2>2
<1>3. PICK n \in Nat : /\ n <= size + 1 /\ n < BufferLength
                       /\ n = size + 1 \/ n = BufferLength - 1
                       /\ fits \in Seq(Chars) /\ Len(fits) = n
                       /\ \A i \in 1 .. n : fits[i] = line[i]
  <2> HIDE DEF line
  <2> QED BY <1>2, CutIsStart
<1>4. read = IF I = {} THEN fits ELSE SubSeq(fits, 1, Min(I) - 1)
  <2> DEFINE k == IF I # {} THEN Min(I) ELSE 0
  <2>1. read = IF k = 0 THEN fits ELSE SubSeq(fits, 1, k - 1)
    BY QueryMinMax DEF Query!LineRead, Query!SelectInSeq
  <2>2. I # {} => k \in I
    <3>1. I \in SUBSET Nat
      BY <1>3
    <3> HIDE DEF I
    <3> QED BY <3>1, LeastNumber
  <2>3. I # {} => k # 0
    BY <1>3, <2>2
  <2> HIDE DEF I, fits, read
  <2> QED BY <2>1, <2>3
<1> HIDE DEF line, fits, read
<1>5. CASE I = {}
  <2>1. n # size + 1
    <3>1. n = size + 1 => n \in I
      BY <1>1, <1>2, <1>3
    <3> QED BY <1>5, <3>1
  <2>2. n <= size /\ n = BufferLength - 1
    BY <1>1, <1>3, <2>1
  <2>3. \A i \in 1 .. n : fits[i] = name[i]
    BY <1>1, <1>2, <1>3, <2>2
  <2>4. read = fits
    BY <1>4, <1>5
  <2>5. Query!IsPrefix(read, name)
    BY <1>3, <2>2, <2>3, <2>4, PrefixOf
  <2> HIDE DEF I
  <2> QED BY <1>3, <2>2, <2>4, <2>5 DEF read, line
<1>6. CASE I # {}
  <2> DEFINE k == Min(I)
             m == k - 1
  <2>1. k \in I /\ read = SubSeq(fits, 1, m)
    <3>1. I \in SUBSET Nat
      BY <1>3
    <3> HIDE DEF I
    <3> QED BY <1>4, <1>6, <3>1, LeastNumber
  <2> HIDE DEF k
  <2>2. /\ k \in 1 .. n /\ fits[k] = Newline /\ m \in Nat /\ m <= n
        /\ m <= size /\ m + 1 = k /\ m < BufferLength
    BY <1>1, <1>3, <2>1, LengthsArePositive
  <2>3. line[k] = Newline
    BY <1>3, <2>2
  <2> HIDE DEF m
  <2>4. /\ read \in Seq(Chars) /\ Len(read) = m
        /\ \A i \in 1 .. m : read[i] = fits[i]
    BY <1>3, <2>1, <2>2, StartOf
  <2>5. \A i \in 1 .. m : read[i] = name[i]
    <3>1. \A i \in 1 .. m : i \in 1 .. n /\ i \in 1 .. size
      BY <1>1, <1>3, <2>2
    <3> QED BY <1>2, <1>3, <2>4, <3>1
  <2>6. Query!IsPrefix(read, name) /\ (m = size => read = name)
    BY <2>2, <2>4, <2>5, PrefixOf
  <2>7. m # size => name[m + 1] = Newline
    <3>1. m # size => k \in 1 .. size
      BY <1>1, <2>2
    <3> QED BY <1>2, <2>2, <2>3, <3>1
  <2> HIDE DEF I
  <2> QED BY <2>2, <2>4, <2>6, <2>7 DEF read, line
<1> QED BY <1>5, <1>6

\* A sequence of one.
LEMMA SeqOfOne ==
  ASSUME NEW S, NEW s \in Seq(S), Len(s) = 1
  PROVE  s = <<s[1]>>
<1>1. s[1] \in S
  BY LenProperties
<1> DEFINE t == <<s[1]>>
<1>2. t \in Seq(S) /\ Len(t) = 1 /\ t[1] = s[1]
  BY <1>1
<1>3. \A i \in 1 .. 1 : s[i] = t[i]
  <2>1. \A i \in 1 .. 1 : i = 1
    OBVIOUS
  <2> HIDE DEF t
  <2> QED BY <1>2, <2>1
<1> HIDE DEF t
<1>4. s = t
  BY <1>2, <1>3, SeqEqual
<1> QED BY <1>4 DEF t

\* The fields behind a name, whatever it holds, begin after the last
\* parenthesis.
LEMMA FieldsBehind ==
  ASSUME NEW name \in Seq(Chars), NEW a \in Nat, NEW b \in Nat
  PROVE  LET line == Query!Escaped(name) \o <<RParen, Letter, a, b>>
             fields == Query!AfterName(line)
         IN  /\ Len(line) \in Nat
             /\ \A i \in 1 .. Len(line) : line[i] # Newline
             /\ fields[2] = a
             /\ SubSeq(fields, 3, 3) = <<b>>
<1> DEFINE e == Query!Escaped(name)
           t == <<RParen, Letter, a, b>>
           line == e \o t
           fields == Query!AfterName(line)
           size == Len(name)
           I == {i \in 1 .. Len(line) : line[i] = RParen}
<1>1. /\ size \in Nat /\ DOMAIN name = 1 .. size
      /\ \A i \in 1 .. size : name[i] \in Chars
  BY LenProperties
<1>2. /\ RParen # Letter /\ RParen # Newline /\ Letter # Newline
      /\ \A k \in Nat : k # RParen /\ k # Newline
      /\ RParen \in Chars /\ Letter \in Chars /\ Newline \in Chars
      /\ a \in Chars /\ b \in Chars
  BY CharactersDiffer DEF Chars
<1>3. /\ e \in Seq(Chars) /\ Len(e) = size
      /\ \A i \in 1 .. size : e[i] # Newline
  <2>1. e = [i \in 1 .. size |-> IF name[i] = Newline THEN Letter ELSE name[i]]
    BY <1>1 DEF Query!Escaped
  <2>2. e \in [1 .. size -> Chars] /\ \A i \in 1 .. size : e[i] # Newline
    <3> HIDE DEF e
    <3> QED BY <1>1, <1>2, <2>1
  <2> HIDE DEF e, size
  <2> QED BY <1>1, <2>2, MakeSeq
<1>4. /\ t \in Seq(Chars) /\ Len(t) = 4
      /\ t[1] = RParen /\ t[2] = Letter /\ t[3] = a /\ t[4] = b
  BY <1>2
<1> HIDE DEF e, t
<1>5. /\ line \in Seq(Chars) /\ Len(line) = size + 4
      /\ \A i \in 1 .. size : line[i] = e[i]
      /\ line[size + 1] = RParen /\ line[size + 2] = Letter
      /\ line[size + 3] = a /\ line[size + 4] = b
  <2>1. /\ line \in Seq(Chars) /\ Len(line) = Len(e) + Len(t)
        /\ \A i \in 1 .. Len(e) + Len(t) :
             line[i] = IF i <= Len(e) THEN e[i] ELSE t[i - Len(e)]
    <3> DEFINE S == Chars
    <3>1. e \in Seq(S) /\ t \in Seq(S)
      BY <1>3, <1>4
    <3> HIDE DEF S
    <3>2. e \o t \in Seq(S)
      BY <3>1, ConcatProperties
    <3>3. Len(e \o t) = Len(e) + Len(t)
      BY <3>1, ConcatProperties
    <3>4. \A i \in 1 .. Len(e) + Len(t) :
            (e \o t)[i] = IF i <= Len(e) THEN e[i] ELSE t[i - Len(e)]
      BY <3>1, ConcatProperties
    <3> QED BY <3>2, <3>3, <3>4 DEF S
  <2> HIDE DEF line, size
  <2>2. \A i \in 1 .. size : line[i] = e[i]
    BY <1>1, <1>3, <1>4, <2>1
  <2>3. \A k \in 1 .. 4 : line[size + k] = t[k]
    <3>1. \A k \in 1 .. 4 : /\ size + k \in 1 .. size + 4
                            /\ ~(size + k <= size) /\ (size + k) - size = k
      BY <1>1
    <3> QED BY <1>3, <1>4, <2>1, <3>1
  <2> QED BY <1>3, <1>4, <2>1, <2>2, <2>3
<1> HIDE DEF line
<1>6. \A i \in 1 .. size + 4 : \/ i \in 1 .. size \/ i = size + 1
                               \/ i = size + 2 \/ i = size + 3 \/ i = size + 4
  <2> HIDE DEF size
  <2> QED BY <1>1
<1>7. \A i \in 1 .. Len(line) : line[i] # Newline
  BY <1>2, <1>3, <1>5, <1>6
<1>8. Max(I) = size + 1
  <2>1. \A i \in I : i <= size + 1
    <3>1. \A i \in I : i \in 1 .. size \/ i = size + 1
      BY <1>2, <1>5, <1>6
    <3> HIDE DEF I, size
    <3> QED BY <1>1, <3>1
  <2>2. size + 1 \in I
    <3> HIDE DEF size
    <3> QED BY <1>1, <1>5
  <2>3. I \in SUBSET (1 .. Len(line)) /\ Len(line) \in Nat
    BY <1>1, <1>5
  <2> HIDE DEF I, size
  <2>4. Max(I) \in I /\ \A i \in I : i <= Max(I)
    BY <2>2, <2>3, LastPosition
  <2> DEFINE m == Max(I)
  <2>5. m \in 1 .. Len(line) /\ m <= size + 1 /\ size + 1 <= m
    BY <2>1, <2>2, <2>3, <2>4, Zenon
  <2> HIDE DEF m
  <2>6. m = size + 1
    BY <1>1, <2>3, <2>5
  <2> QED BY <2>6 DEF m
<1>9. fields = SubSeq(line, size + 2, size + 4)
  <2>1. I # {}
    <3>1. size + 1 \in I
      <4> HIDE DEF size
      <4> QED BY <1>1, <1>5
    <3> QED BY <3>1
  <2>2. fields = SubSeq(line, Max(I) + 1, Len(line))
    BY <2>1, QueryMinMax DEF Query!AfterName, Query!SelectLastInSeq
  <2> HIDE DEF I, size, fields
  <2>3. (size + 1) + 1 = size + 2
    BY <1>1
  <2> QED BY <1>5, <1>8, <2>2, <2>3
<1> HIDE DEF fields, I
<1>10. /\ fields \in Seq(Chars) /\ Len(fields) = 3
       /\ fields[2] = a /\ fields[3] = b
  <2> HIDE DEF size
  <2> DEFINE m == size + 2
             n == size + 4
  <2>1. /\ m \in Int /\ n \in Int /\ m <= n /\ (n - m) + 1 = 3
        /\ m \in 1 .. size + 4 /\ \A i \in m .. n : i \in 1 .. Len(line)
        /\ (m + 2) - 1 = size + 3 /\ (m + 3) - 1 = size + 4
    BY <1>1, <1>5
  <2>2. \A i \in m .. n : line[i] \in Chars
    BY <1>5, <2>1, LenProperties
  <2> HIDE DEF m, n
  <2>3. /\ SubSeq(line, m, n) \in Seq(Chars)
        /\ Len(SubSeq(line, m, n)) = IF m <= n THEN (n - m) + 1 ELSE 0
        /\ \A i \in 1 .. (n - m) + 1 :
             SubSeq(line, m, n)[i] = line[(m + i) - 1]
    BY <2>1, <2>2, SubSeqProperties
  <2>4. fields = SubSeq(line, m, n)
    BY <1>9 DEF m, n
  <2>5. 2 \in 1 .. 3 /\ 3 \in 1 .. 3
    OBVIOUS
  <2> QED BY <1>5, <2>1, <2>3, <2>4, <2>5
<1>11. SubSeq(fields, 3, 3) = <<b>>
  <2> DEFINE s == SubSeq(fields, 3, 3)
  <2>1. \A i \in 3 .. 3 : fields[i] \in Chars
    BY <1>2, <1>10
  <2>2. /\ s \in Seq(Chars)
        /\ Len(s) = IF 3 <= 3 THEN (3 - 3) + 1 ELSE 0
        /\ \A i \in 1 .. (3 - 3) + 1 : s[i] = fields[(3 + i) - 1]
    BY <2>1, SubSeqProperties
  <2> HIDE DEF s
  <2>3. Len(s) = 1 /\ s[1] = fields[3]
    BY <2>2
  <2>4. s = <<s[1]>>
    BY <2>2, <2>3, SeqOfOne
  <2> QED BY <1>10, <2>3, <2>4 DEF s
<1>12. Len(line) \in Nat
  BY <1>5, LenProperties
<1> QED BY <1>7, <1>10, <1>11, <1>12 DEF line, fields, e, t

-----------------------------------------------------------------------------
\* Processes

\* A process is not nobody, and has its fields.
LEMMA Somebody ==
  /\ \A x \in Existing : x # Query!Nobody /\ x.born \in Nat \ {0}
  /\ \A x \in OfTarget : /\ x \in Existing /\ x.born \in Nat \ {0}
                         /\ x.comm \in Names /\ x.parent \in Pids \cup {0}
  /\ Query!Nobody.born = 0
<1>1. Query!Nobody.born = 0
  BY DEF Query!Nobody
<1>2. ASSUME NEW x \in Existing PROVE x # Query!Nobody /\ x.born \in Nat \ {0}
  <2>1. PICK n \in Nat \ {0}, name \in Names \cup {<<>>},
             ppid \in Pids \cup {0} : x = Query!Process(n, name, ppid)
    BY DEF Existing
  <2>2. x.born = n
    BY <2>1 DEF Query!Process
  <2> QED BY <1>1, <2>2
<1>3. ASSUME NEW x \in OfTarget
      PROVE  /\ x \in Existing /\ x.born \in Nat \ {0}
             /\ x.comm \in Names /\ x.parent \in Pids \cup {0}
  <2>1. PICK n \in Nat \ {0}, name \in Names, ppid \in Pids \cup {0} :
          x = Query!Process(n, name, ppid)
    BY DEF OfTarget
  <2>2. x.born = n /\ x.comm = name /\ x.parent = ppid
    BY <2>1 DEF Query!Process
  <2>3. x \in Existing
    BY <2>1 DEF Existing
  <2> QED BY <2>2, <2>3
<1> QED BY <1>1, <1>2, <1>3

\* A process that starts is one.
LEMMA StartedIsOne ==
  ASSUME NEW p \in Pids, NEW n \in Nat \ {0}, NEW x \in Query!Processes(p, n)
  PROVE  x \in Existing /\ (p = Target => x \in OfTarget)
<1>1. CASE p = Target
  <2>1. PICK name \in Names, ppid \in Pids \ {p} :
          x = Query!Process(n, name, ppid)
    BY <1>1 DEF Query!Processes
  <2>2. x \in OfTarget
    BY <2>1 DEF OfTarget
  <2> QED BY <2>2, Somebody
<1>2. CASE p # Target
  <2>1. x = Query!Process(n, <<>>, 0)
    BY <1>2 DEF Query!Processes, Query!NoParent
  <2>2. x \in Existing
    BY <2>1 DEF Existing
  <2> QED BY <1>2, <2>2
<1> QED BY <1>1, <1>2

\* A process whose parent exits is still one.
LEMMA OrphanIsOne ==
  /\ \A x \in Existing : [x EXCEPT !.parent = Query!NoParent] \in Existing
  /\ \A x \in OfTarget : [x EXCEPT !.parent = Query!NoParent] \in OfTarget
<1>1. \A n, name, ppid :
        [Query!Process(n, name, ppid) EXCEPT !.parent = Query!NoParent]
          = Query!Process(n, name, 0)
  BY DEF Query!Process, Query!NoParent
<1>2. ASSUME NEW x \in Existing
      PROVE  [x EXCEPT !.parent = Query!NoParent] \in Existing
  <2>1. PICK n \in Nat \ {0}, name \in Names \cup {<<>>},
             ppid \in Pids \cup {0} : x = Query!Process(n, name, ppid)
    BY DEF Existing
  <2>2. [x EXCEPT !.parent = Query!NoParent] = Query!Process(n, name, 0)
    BY <1>1, <2>1
  <2> QED BY <2>2 DEF Existing
<1>3. ASSUME NEW x \in OfTarget
      PROVE  [x EXCEPT !.parent = Query!NoParent] \in OfTarget
  <2>1. PICK n \in Nat \ {0}, name \in Names, ppid \in Pids \cup {0} :
          x = Query!Process(n, name, ppid)
    BY DEF OfTarget
  <2>2. [x EXCEPT !.parent = Query!NoParent] = Query!Process(n, name, 0)
    BY <1>1, <2>1
  <2> QED BY <2>2 DEF OfTarget
<1> QED BY <1>2, <1>3

-----------------------------------------------------------------------------
\* Each step of a query, and of the processes meanwhile, keeps what is known.

\* A process starts.
LEMMA StartKeeps ==
  ASSUME QueryInv, NEW p \in Pids, Query!Start(p)
  PROVE  QueryInv'
<1>1. PICK x \in Query!Processes(p, p + starts') :
        table' = [table EXCEPT ![p] = x]
  BY DEF Query!Start, Query!Cardinality, Cardinality
<1>2. /\ step \notin {"idle", "answered"} /\ starts' = starts + 1
      /\ everSeen' = everSeen \cup {p}
      /\ UNCHANGED <<stayed, failed, query, step, file, seen, block, out,
                     result>>
  BY DEF Query!Start, Query!Local
<1>3. p + starts' \in Nat \ {0} /\ starts' \in Nat
  <2>1. p \in Nat \ {0} /\ starts \in Nat
    BY PidsAreNumbers DEF QueryInv, Tracked
  <2> QED BY <1>2, <2>1
<1>4. x \in Existing /\ (p = Target => x \in OfTarget)
  BY <1>3, StartedIsOne
<1>5. Tracked'
  <2>1. table' \in [Pids -> {Query!Nobody} \cup Existing]
    BY <1>1, <1>4 DEF QueryInv, Tracked
  <2>2. table'[Target] \in {Query!Nobody} \cup OfTarget
    BY <1>1, <1>4, PidsAreNumbers DEF QueryInv, Tracked
  <2>3. Query!InUse(table') = Query!InUse(table) \cup {p}
    BY <1>1, <1>4, Somebody DEF QueryInv, Tracked, Query!InUse
  <2> QED BY <1>2, <1>3, <2>1, <2>2, <2>3 DEF QueryInv, Tracked
<1>6. Asking'
  BY <1>2 DEF QueryInv, Asking
<1>7. Listing'
  BY <1>2 DEF QueryInv, Listing
<1>8. AnswersAreOfTheProcess' /\ ListIsBracketed'
  BY <1>2 DEF AnswersAreOfTheProcess, ListIsBracketed,
     Query!AnswersAreOfTheProcess, Query!ListIsBracketed, Query!Answered
<1> QED BY <1>5, <1>6, <1>7, <1>8 DEF QueryInv

\* A process exits.
LEMMA ExitKeeps ==
  ASSUME QueryInv, NEW p \in Pids, Query!Exit(p)
  PROVE  QueryInv'
<1>1. /\ step \notin {"idle", "answered"} /\ stayed' = stayed \ {p}
      /\ UNCHANGED <<starts, everSeen, failed, query, step, file, seen,
                     block, out, result>>
  BY DEF Query!Exit, Query!Local
<1>2. table \in [Pids -> {Query!Nobody} \cup Existing]
      /\ table[Target] \in {Query!Nobody} \cup OfTarget
  BY DEF QueryInv, Tracked
<1>3. ASSUME NEW q \in Pids
      PROVE  /\ table'[q] \in {Query!Nobody} \cup Existing
             /\ q = Target => table'[q] \in {Query!Nobody} \cup OfTarget
             /\ table'[q] # Query!Nobody <=> q # p /\ table[q] # Query!Nobody
  <2>1. table'[q] = CASE q = p -> Query!Nobody
                      [] q # p /\ table[q] # Query!Nobody
                               /\ table[q].parent = p ->
                           [table[q] EXCEPT !.parent = Query!NoParent]
                      [] OTHER -> table[q]
    BY DEF Query!Exit
  <2>2. CASE q = p
    BY <2>1, <2>2
  <2>3. CASE q # p /\ table[q] # Query!Nobody /\ table[q].parent = p
    <3>1. table'[q] = [table[q] EXCEPT !.parent = Query!NoParent]
      BY <2>1, <2>3
    <3>2. table[q] \in Existing /\ (q = Target => table[q] \in OfTarget)
      BY <1>2, <2>3
    <3>3. table'[q] \in Existing /\ (q = Target => table'[q] \in OfTarget)
      BY <3>1, <3>2, OrphanIsOne
    <3> QED BY <2>3, <3>3, Somebody
  <2>4. CASE q # p /\ (table[q] = Query!Nobody \/ table[q].parent # p)
    <3>1. table'[q] = table[q]
      BY <2>1, <2>4
    <3> QED BY <1>2, <2>4, <3>1
  <2> QED BY <2>2, <2>3, <2>4
<1>4. Tracked'
  <2>1. table' = [q \in Pids |-> table'[q]]
    BY DEF Query!Exit
  <2>2. table' \in [Pids -> {Query!Nobody} \cup Existing]
    BY <1>3, <2>1
  <2>3. Query!InUse(table') = Query!InUse(table) \ {p}
    BY <1>3 DEF Query!InUse
  <2> QED BY <1>1, <1>3, <2>2, <2>3, PidsAreNumbers DEF QueryInv, Tracked
<1>5. Asking'
  BY <1>1 DEF QueryInv, Asking
<1>6. Listing'
  BY <1>1 DEF QueryInv, Listing
<1>7. AnswersAreOfTheProcess' /\ ListIsBracketed'
  BY <1>1 DEF AnswersAreOfTheProcess, ListIsBracketed,
     Query!AnswersAreOfTheProcess, Query!ListIsBracketed, Query!Answered
<1> QED BY <1>4, <1>5, <1>6, <1>7 DEF QueryInv

\* A query begins.
LEMMA AskKeeps ==
  ASSUME QueryInv, NEW which \in Query!Queries, Query!Ask(which)
  PROVE  QueryInv'
<1>1. /\ step = "idle" /\ query' = which /\ table' \in Query!Tables
      /\ starts' = 0 /\ stayed' = Query!InUse(table')
      /\ everSeen' = Query!InUse(table') /\ failed' = FALSE /\ seen' = <<>>
      /\ UNCHANGED block
      /\ step' = CASE which = "list_pids" -> "glob"
                   [] which = "pid_exists" -> "kill"
                   [] which \in Query!LinkCalls -> "link"
                   [] OTHER -> "openLine"
  BY DEF Query!Ask
<1>2. Tracked'
  <2>1. table' \in [Pids -> {Query!Nobody}
                              \cup UNION {Query!Processes(p, p) : p \in Pids}]
    BY <1>1 DEF Query!Tables
  <2>2. \A p \in Pids : table'[p] \in {Query!Nobody} \cup Query!Processes(p, p)
    BY <1>1 DEF Query!Tables
  <2>3. ASSUME NEW p \in Pids
        PROVE  /\ table'[p] \in {Query!Nobody} \cup Existing
               /\ p = Target => table'[p] \in {Query!Nobody} \cup OfTarget
    <3>1. p \in Nat \ {0}
      BY PidsAreNumbers
    <3> QED BY <2>2, <3>1, StartedIsOne
  <2>4. table' \in [Pids -> {Query!Nobody} \cup Existing]
    BY <2>1, <2>3
  <2>5. Query!InUse(table') \subseteq Pids
    BY DEF Query!InUse
  <2> QED BY <1>1, <2>3, <2>4, <2>5, PidsAreNumbers DEF Tracked
<1>3. /\ step' \in {"openLine", "link", "kill", "glob"}
      /\ step' = "openLine" => which \in Query!LineCalls
      /\ step' = "link" => which \in Query!LinkCalls
      /\ step' = "kill" => which = "pid_exists"
      /\ step' = "glob" => which = "list_pids"
  BY <1>1 DEF Query!Queries, Query!LineCalls, Query!LinkCalls
<1>4. Asking'
  BY <1>1, <1>3 DEF QueryInv, Asking
<1>5. Listing'
  <2>1. <<>> \in Seq(Pids) /\ DOMAIN <<>> = {}
    BY EmptySeq
  <2> QED BY <1>1, <1>3, <2>1 DEF Listing
<1>6. AnswersAreOfTheProcess' /\ ListIsBracketed'
  BY <1>3 DEF AnswersAreOfTheProcess, ListIsBracketed,
     Query!AnswersAreOfTheProcess, Query!ListIsBracketed, Query!Answered
<1> QED BY <1>2, <1>4, <1>5, <1>6 DEF QueryInv

\* The file of a process is opened, or there is none.
LEMMA OpenLineKeeps ==
  ASSUME QueryInv, Query!OpenLine
  PROVE  QueryInv'
<1>1. /\ step = "openLine" /\ query \in Query!LineCalls /\ ~block
      /\ UNCHANGED <<table, starts, stayed, everSeen, query, seen, block>>
  BY DEF Query!OpenLine, Query!kernel, QueryInv, Asking
<1>2. CASE /\ table[Target] # Query!Nobody /\ file' = table[Target]
           /\ step' = "readLine" /\ UNCHANGED <<out, result, failed>>
  <2>1. file' \in OfTarget /\ Target \in everSeen
    BY <1>2, PidsAreNumbers DEF QueryInv, Tracked, Query!InUse
  <2>2. Tracked' /\ Listing'
    BY <1>1, <1>2 DEF QueryInv, Tracked, Listing
  <2>3. Asking'
    BY <1>1, <1>2, <2>1 DEF QueryInv, Asking
  <2>4. AnswersAreOfTheProcess' /\ ListIsBracketed'
    BY <1>2 DEF AnswersAreOfTheProcess, ListIsBracketed,
       Query!AnswersAreOfTheProcess, Query!ListIsBracketed, Query!Answered
  <2> QED BY <2>2, <2>3, <2>4 DEF QueryInv
<1>3. CASE /\ failed' = TRUE /\ step' = "answered" /\ UNCHANGED file
  <2>1. Tracked' /\ Listing'
    BY <1>1, <1>3 DEF QueryInv, Tracked, Listing
  <2>2. Asking'
    BY <1>1, <1>3 DEF QueryInv, Asking, Query!LineCalls
  <2>3. AnswersAreOfTheProcess' /\ ListIsBracketed'
    BY <1>3 DEF AnswersAreOfTheProcess, ListIsBracketed,
       Query!AnswersAreOfTheProcess, Query!ListIsBracketed, Query!Answered
  <2> QED BY <2>1, <2>2, <2>3 DEF QueryInv
<1> QED BY <1>2, <1>3 DEF Query!OpenLine, Query!Answer

\* The line of a process is read and parsed.
LEMMA ReadLineKeeps ==
  ASSUME QueryInv, Query!ReadLine
  PROVE  QueryInv'
<1> DEFINE fields == Query!Parsed(Query!LineRead(Query!LineOf(file')))
<1>1. /\ step = "readLine" /\ query \in Query!LineCalls /\ ~block
      /\ step' = "answered"
      /\ file' = table[Target] /\ table[Target].born = file.born
      /\ UNCHANGED <<table, starts, stayed, everSeen, failed, query, seen,
                     block>>
      /\ result' = "NONE" => out' = fields
  BY DEF Query!ReadLine, Query!kernel, Query!past, Query!Answer, QueryInv,
     Asking
<1>2. file' \in OfTarget /\ Target \in everSeen
  <2>1. file \in OfTarget /\ Target \in everSeen
    BY <1>1 DEF QueryInv, Asking
  <2>2. table[Target] # Query!Nobody
    BY <1>1, <2>1, Somebody
  <2> QED BY <1>1, <2>1, <2>2 DEF QueryInv, Tracked
<1>3. PICK n \in Nat \ {0}, name \in Names, ppid \in Pids \cup {0} :
        file' = Query!Process(n, name, ppid)
  BY <1>2 DEF OfTarget
<1>4. /\ file'.born = n /\ file'.comm = name /\ file'.parent = ppid
      /\ n \in Nat /\ ppid \in Nat /\ name \in Seq(Chars)
  BY <1>3, PidsAreNumbers, NamesAreText DEF Query!Process, Chars
<1>5. ASSUME query = "name"
      PROVE  /\ Query!IsPrefix(fields, file'.comm)
             /\ Len(fields) < BufferLength
             /\ \/ Len(fields) = BufferLength - 1 \/ fields = file'.comm
                \/ file'.comm[Len(fields) + 1] = Newline
  <2>1. fields = Query!LineRead(name \o <<Newline>>)
    BY <1>4, <1>5 DEF Query!Parsed, Query!LineOf
  <2> HIDE DEF fields
  <2> QED BY <1>4, <1>5, <2>1, NameRead
<1>6. ASSUME query = "memory_info" PROVE fields = <<file'.born>>
  <2> DEFINE line == <<n>>
  <2>1. Query!LineOf(file') = line
    BY <1>4, <1>6 DEF Query!LineOf
  <2>2. Len(line) \in Nat /\ \A i \in 1 .. Len(line) : line[i] # Newline
    <3>1. Len(line) = 1 /\ line[1] = n /\ n # Newline
      BY <1>4, CharactersDiffer
    <3>2. \A i \in 1 .. 1 : i = 1
      OBVIOUS
    <3> HIDE DEF line
    <3> QED BY <3>1, <3>2
  <2> HIDE DEF line
  <2>3. Query!LineRead(line) = line
    BY <1>6, <2>2, FiguresRead
  <2>4. fields = line
    BY <1>6, <2>1, <2>3 DEF Query!Parsed
  <2> HIDE DEF fields
  <2> QED BY <1>4, <2>4 DEF line
<1>7. ASSUME query \in {"parent_pid", "cpu_times"}
      PROVE  fields = IF query = "parent_pid" THEN <<file'.parent>>
                                              ELSE <<file'.born>>
  <2> DEFINE line == Query!Escaped(name) \o <<RParen, Letter, ppid, n>>
             behind == Query!AfterName(line)
  <2>1. Query!LineOf(file') = line
    BY <1>4, <1>7 DEF Query!LineOf
  <2>2. /\ Len(line) \in Nat
        /\ \A i \in 1 .. Len(line) : line[i] # Newline
        /\ behind[2] = ppid /\ SubSeq(behind, 3, 3) = <<n>>
    BY <1>4, FieldsBehind
  <2> HIDE DEF line
  <2>3. Query!LineRead(line) = line
    BY <1>7, <2>2, FiguresRead
  <2>4. fields = IF query = "parent_pid" THEN <<behind[2]>>
                                         ELSE SubSeq(behind, 3, 3)
    BY <1>7, <2>1, <2>3 DEF Query!Parsed
  <2> HIDE DEF fields, behind
  <2> QED BY <1>4, <2>2, <2>4
<1> HIDE DEF fields
<1>8. query \in {"name", "memory_info", "parent_pid", "cpu_times"}
  BY <1>1 DEF Query!LineCalls
<1>9. AnswersAreOfTheProcess' /\ ListIsBracketed'
  <2>1. query' = query /\ query \notin Query!LinkCalls /\ query # "list_pids"
        /\ everSeen' = everSeen
    BY <1>1, <1>8 DEF Query!LinkCalls
  <2>2. query = "name" /\ result' = "NONE" =>
          /\ Query!IsPrefix(out', file'.comm)
          /\ Len(out') < BufferLength
          /\ \/ Len(out') = BufferLength - 1 \/ out' = file'.comm
             \/ file'.comm[Len(out') + 1] = Newline
    BY <1>1, <1>5
  <2>3. query \in {"cpu_times", "memory_info"} /\ result' = "NONE" =>
          out' = <<file'.born>>
    BY <1>1, <1>6, <1>7
  <2>4. query = "parent_pid" /\ result' = "NONE" => out' = <<file'.parent>>
    BY <1>1, <1>7
  <2> QED BY <1>2, <2>1, <2>2, <2>3, <2>4 DEF AnswersAreOfTheProcess,
     ListIsBracketed, Query!AnswersAreOfTheProcess, Query!ListIsBracketed,
     Query!Answered
<1>10. Tracked' /\ Listing'
  BY <1>1 DEF QueryInv, Tracked, Listing
<1>11. Asking'
  BY <1>1, <1>8 DEF QueryInv, Asking
<1> QED BY <1>9, <1>10, <1>11 DEF QueryInv

\* The line could not be read.
LEMMA ReadLineFailsKeeps ==
  ASSUME QueryInv, Query!ReadLineFails
  PROVE  QueryInv'
<1>1. /\ query \in Query!LineCalls /\ step' = "answered" /\ failed' = TRUE
      /\ ~block
      /\ UNCHANGED <<table, starts, stayed, everSeen, query, file, seen,
                     block>>
  BY DEF Query!ReadLineFails, Query!kernel, Query!Answer, QueryInv, Asking
<1>2. Tracked' /\ Listing'
  BY <1>1 DEF QueryInv, Tracked, Listing
<1>3. Asking'
  BY <1>1 DEF QueryInv, Asking, Query!LineCalls
<1>4. AnswersAreOfTheProcess' /\ ListIsBracketed'
  BY <1>1 DEF AnswersAreOfTheProcess, ListIsBracketed,
     Query!AnswersAreOfTheProcess, Query!ListIsBracketed, Query!Answered
<1> QED BY <1>2, <1>3, <1>4 DEF QueryInv

\* A link of a process is followed.
LEMMA ReadLinkKeeps ==
  ASSUME QueryInv, Query!ReadLink
  PROVE  QueryInv'
<1>1. /\ query \in Query!LinkCalls /\ step' = "answered" /\ ~block
      /\ table[Target] # Query!Nobody /\ file' = table[Target]
      /\ out' = Query!Cut(Query!Path(file'))
      /\ UNCHANGED <<table, starts, stayed, everSeen, failed, query, seen,
                     block>>
  BY DEF Query!ReadLink, Query!kernel, Query!past, Query!Answer, QueryInv,
     Asking
<1>2. file' \in OfTarget /\ Target \in everSeen
  BY <1>1, PidsAreNumbers DEF QueryInv, Tracked, Query!InUse
<1>3. Len(out') < BufferLength /\ Query!IsPrefix(out', Query!Path(file'))
  <2> DEFINE path == Query!Path(file')
  <2>1. path \in [1 .. PathLength -> Nat] /\ PathLength \in Nat
    BY <1>2, Somebody, LengthsArePositive DEF Query!Path
  <2> HIDE DEF path
  <2>2. path \in Seq(Nat)
    BY <2>1, MakeSeq
  <2>3. PICK n \in Nat : /\ n <= Len(path) /\ n < BufferLength
                         /\ Query!Cut(path) \in Seq(Nat)
                         /\ Len(Query!Cut(path)) = n
                         /\ \A i \in 1 .. n : Query!Cut(path)[i] = path[i]
    BY <2>2, CutIsStart
  <2>4. Query!IsPrefix(Query!Cut(path), path)
    BY <2>2, <2>3, PrefixOf
  <2>5. out' = Query!Cut(path)
    BY <1>1 DEF path
  <2> QED BY <2>3, <2>4, <2>5 DEF path
<1>4. Tracked' /\ Listing'
  BY <1>1 DEF QueryInv, Tracked, Listing
<1>5. Asking'
  BY <1>1 DEF QueryInv, Asking, Query!LinkCalls
<1>6. AnswersAreOfTheProcess' /\ ListIsBracketed'
  <2>1. query' = query /\ everSeen' = everSeen
        /\ query \notin {"parent_pid", "cpu_times", "memory_info", "name",
                         "list_pids"}
    BY <1>1 DEF Query!LinkCalls
  <2>2. Query!Path(file)' = Query!Path(file')
    BY DEF Query!Path
  <2> QED BY <1>2, <1>3, <2>1, <2>2 DEF AnswersAreOfTheProcess,
     ListIsBracketed, Query!AnswersAreOfTheProcess, Query!ListIsBracketed,
     Query!Answered
<1> QED BY <1>4, <1>5, <1>6 DEF QueryInv

\* The link could not be followed.
LEMMA ReadLinkFailsKeeps ==
  ASSUME QueryInv, Query!ReadLinkFails
  PROVE  QueryInv'
<1>1. /\ query \in Query!LinkCalls /\ step' \in {"answered", "crashed"}
      /\ failed' = TRUE /\ ~block
      /\ UNCHANGED <<table, starts, stayed, everSeen, query, file, seen,
                     block>>
  BY DEF Query!ReadLinkFails, Query!kernel, Query!Answer, QueryInv, Asking
<1>2. Tracked' /\ Listing'
  BY <1>1 DEF QueryInv, Tracked, Listing
<1>3. Asking'
  BY <1>1 DEF QueryInv, Asking, Query!LinkCalls
<1>4. AnswersAreOfTheProcess' /\ ListIsBracketed'
  BY <1>1 DEF AnswersAreOfTheProcess, ListIsBracketed,
     Query!AnswersAreOfTheProcess, Query!ListIsBracketed, Query!Answered
<1> QED BY <1>2, <1>3, <1>4 DEF QueryInv

\* A process is asked whether it exists.
LEMMA KillKeeps ==
  ASSUME QueryInv, Query!Kill
  PROVE  QueryInv'
<1>1. /\ query = "pid_exists" /\ step' = "answered" /\ ~block
      /\ UNCHANGED <<table, starts, stayed, everSeen, failed, query, file,
                     seen, block>>
  BY DEF Query!Kill, Query!kernel, Query!past, Query!Answer, QueryInv, Asking
<1>2. Tracked' /\ Listing'
  BY <1>1 DEF QueryInv, Tracked, Listing
<1>3. Asking'
  BY <1>1 DEF QueryInv, Asking
<1>4. AnswersAreOfTheProcess' /\ ListIsBracketed'
  BY <1>1 DEF AnswersAreOfTheProcess, ListIsBracketed, Query!LineCalls,
     Query!LinkCalls, Query!AnswersAreOfTheProcess, Query!ListIsBracketed,
     Query!Answered
<1> QED BY <1>2, <1>3, <1>4 DEF QueryInv

\* The next entry of /proc is read.
LEMMA ReadEntryKeeps ==
  ASSUME QueryInv, Query!ReadEntry
  PROVE  QueryInv'
<1> DEFINE n == Len(seen) + 1
<1>1. /\ step = "glob" /\ step' = "glob"
      /\ UNCHANGED <<table, starts, stayed, everSeen, failed, query, file,
                     block, out, result>>
  BY DEF Query!ReadEntry, Query!kernel, Query!past
<1>2. PICK p \in Query!Ahead : /\ \A q \in Query!Ahead : p <= q
                               /\ seen' = Append(seen, p)
  BY DEF Query!ReadEntry
<1>3. /\ p \in Pids /\ p \in everSeen
      /\ \A i \in DOMAIN seen : seen[i] < p
      /\ seen \in Seq(Pids)
  BY DEF Query!Ahead, Query!InUse, QueryInv, Tracked, Listing
<1>4. /\ seen' \in Seq(Pids) /\ Len(seen') = n /\ seen'[n] = p
      /\ \A i \in 1 .. Len(seen) : seen'[i] = seen[i]
      /\ DOMAIN seen = 1 .. Len(seen) /\ DOMAIN seen' = 1 .. n
      /\ Len(seen) \in Nat
  <2>1. /\ Append(seen, p) \in Seq(Pids) /\ Len(Append(seen, p)) = n
        /\ Append(seen, p)[n] = p
        /\ \A i \in 1 .. Len(seen) : Append(seen, p)[i] = seen[i]
    BY <1>3, AppendProperties
  <2>2. /\ DOMAIN Append(seen, p) = 1 .. Len(Append(seen, p))
        /\ DOMAIN seen = 1 .. Len(seen) /\ Len(seen) \in Nat
    BY <1>3, <2>1, LenProperties
  <2> QED BY <1>2, <2>1, <2>2
<1>5. \A i \in DOMAIN seen' : i \in DOMAIN seen \/ i = n
  BY <1>4
<1>6. n \in DOMAIN seen' /\ \A i \in DOMAIN seen : i \in DOMAIN seen' /\ i < n
  BY <1>4
<1>7. \A i \in DOMAIN seen : seen'[i] = seen[i]
  BY <1>4
<1> HIDE DEF n
<1>8. Listing'
  <2>1. \A i \in DOMAIN seen' : seen'[i] \in everSeen
    BY <1>3, <1>4, <1>5, <1>7 DEF QueryInv, Listing
  <2>2. ASSUME NEW s \in stayed
        PROVE  \/ \E i \in DOMAIN seen' : seen'[i] = s
               \/ \A i \in DOMAIN seen' : seen'[i] < s
    <3>1. CASE \E i \in DOMAIN seen : seen[i] = s
      BY <1>6, <1>7, <3>1
    <3>2. CASE ~ \E i \in DOMAIN seen : seen[i] = s
      <4>1. \A i \in DOMAIN seen : seen[i] < s
        BY <1>1, <3>2 DEF QueryInv, Listing
      <4>2. s \in Query!Ahead
        BY <4>1 DEF Query!Ahead, QueryInv, Tracked
      <4>3. p <= s
        BY <1>2, <4>2
      <4>4. p = s \/ p < s
        <5>1. p \in Nat /\ s \in Nat
          BY <1>3, PidsAreNumbers DEF QueryInv, Tracked
        <5> QED BY <4>3, <5>1
      <4>5. CASE p = s
        BY <1>4, <1>6, <4>5
      <4>6. CASE p < s
        BY <1>4, <1>5, <1>7, <4>1, <4>6
      <4> QED BY <4>4, <4>5, <4>6
    <3> QED BY <3>1, <3>2
  <2>3. UNCHANGED <<everSeen, stayed>> /\ step' = "glob"
    BY <1>1
  <2> QED BY <1>4, <2>1, <2>2, <2>3 DEF Listing
<1>9. Tracked' /\ Asking'
  BY <1>1 DEF QueryInv, Tracked, Asking
<1>10. AnswersAreOfTheProcess' /\ ListIsBracketed'
  BY <1>1 DEF AnswersAreOfTheProcess, ListIsBracketed,
     Query!AnswersAreOfTheProcess, Query!ListIsBracketed, Query!Answered
<1> QED BY <1>8, <1>9, <1>10 DEF QueryInv

\* IDs that are sorted are the same IDs, each once.
LEMMA SortedIsTheSame ==
  ASSUME NEW pids \in Seq(Pids), NEW s \in Query!SortedAsText(pids)
  PROVE  /\ s \in Seq(Pids)
         /\ Query!ToSet(s) = Query!ToSet(pids)
         /\ \A i, j \in DOMAIN s : i # j => s[i] # s[j]
<1>1. /\ s \in [DOMAIN pids -> Query!ToSet(pids)]
      /\ Query!ToSet(s) = Query!ToSet(pids)
      /\ \A i, j \in DOMAIN s : i < j => TextPlace[s[i]] < TextPlace[s[j]]
  BY DEF Query!SortedAsText
<1>2. Len(pids) \in Nat /\ DOMAIN pids = 1 .. Len(pids)
  BY LenProperties
<1>3. Query!ToSet(pids) \subseteq Pids
  BY DEF Query!ToSet
<1>4. s \in Seq(Pids) /\ DOMAIN s = 1 .. Len(pids)
  <2> DEFINE n == Len(pids)
  <2>1. n \in Nat /\ s \in [1 .. n -> Pids]
    BY <1>1, <1>2, <1>3
  <2>2. DOMAIN s = 1 .. n
    BY <2>1
  <2> HIDE DEF n
  <2>3. s \in Seq(Pids)
    BY <2>1, MakeSeq
  <2> QED BY <2>2, <2>3 DEF n
<1>5. ASSUME NEW i \in DOMAIN s, NEW j \in DOMAIN s, i # j
      PROVE  s[i] # s[j]
  <2>1. i \in Nat /\ j \in Nat
    BY <1>2, <1>4
  <2>2. i < j \/ j < i
    BY <1>5, <2>1
  <2>3. s[i] \in Pids /\ s[j] \in Pids
    BY <1>1, <1>3
  <2>4. TextPlace[s[i]] \in Nat /\ TextPlace[s[j]] \in Nat
    BY <2>3, TextPlaceIsAnOrder
  <2>5. TextPlace[s[i]] < TextPlace[s[j]] \/ TextPlace[s[j]] < TextPlace[s[i]]
    BY <1>1, <2>2
  <2> QED BY <2>4, <2>5
<1> QED BY <1>1, <1>4, <1>5

\* There are no more entries.
LEMMA GlobEndsKeeps ==
  ASSUME QueryInv, Query!GlobEnds
  PROVE  QueryInv'
<1>1. /\ step = "glob" /\ step' = "calloc" /\ Query!Ahead = {}
      /\ UNCHANGED <<table, starts, stayed, everSeen, failed, query, file,
                     block, out, result>>
      /\ seen' \in Query!SortedAsText(seen)
  BY DEF Query!GlobEnds, Query!kernel, Query!past
<1>2. Listing'
  <2>1. seen \in Seq(Pids) /\ Query!ToSet(seen) \subseteq everSeen
    BY DEF QueryInv, Listing, Query!ToSet
  <2>2. stayed \subseteq Query!ToSet(seen)
    <3>1. ASSUME NEW s \in stayed PROVE \E i \in DOMAIN seen : seen[i] = s
      <4>1. s \in Query!InUse(table) /\ s \notin Query!Ahead
        BY <1>1 DEF QueryInv, Tracked
      <4>2. ~ \A i \in DOMAIN seen : seen[i] < s
        BY <4>1 DEF Query!Ahead
      <4> QED BY <1>1, <4>2 DEF QueryInv, Listing
    <3> QED BY <3>1 DEF Query!ToSet
  <2>3. /\ seen' \in Seq(Pids) /\ Query!ToSet(seen') = Query!ToSet(seen)
        /\ \A i, j \in DOMAIN seen' : i # j => seen'[i] # seen'[j]
    BY <1>1, <2>1, SortedIsTheSame
  <2>4. \A i \in DOMAIN seen' : seen'[i] \in everSeen
    BY <2>1, <2>3 DEF Query!ToSet
  <2>5. \A p \in stayed : \E i \in DOMAIN seen' : seen'[i] = p
    BY <2>2, <2>3 DEF Query!ToSet
  <2>6. UNCHANGED <<everSeen, stayed>> /\ step' = "calloc"
    BY <1>1
  <2> QED BY <2>3, <2>4, <2>5, <2>6 DEF Listing
<1>3. Tracked' /\ Asking'
  BY <1>1 DEF QueryInv, Tracked, Asking
<1>4. AnswersAreOfTheProcess' /\ ListIsBracketed'
  BY <1>1 DEF AnswersAreOfTheProcess, ListIsBracketed,
     Query!AnswersAreOfTheProcess, Query!ListIsBracketed, Query!Answered
<1> QED BY <1>2, <1>3, <1>4 DEF QueryInv

\* There are no entries, or no memory for them.
LEMMA GlobFailsKeeps ==
  ASSUME QueryInv, Query!GlobFails
  PROVE  QueryInv'
<1>1. /\ query = "list_pids" /\ step' = "answered" /\ failed' = TRUE
      /\ out' = <<>>
      /\ UNCHANGED <<table, starts, stayed, everSeen, query, file, seen,
                     block>>
  BY DEF Query!GlobFails, Query!kernel, Query!Answer, QueryInv, Asking
<1>2. Tracked' /\ Listing'
  BY <1>1 DEF QueryInv, Tracked, Listing
<1>3. Asking'
  <2>1. <<>> \in Seq(Nat)
    BY EmptySeq
  <2> QED BY <1>1, <2>1 DEF QueryInv, Asking
<1>4. AnswersAreOfTheProcess' /\ ListIsBracketed'
  BY <1>1 DEF AnswersAreOfTheProcess, ListIsBracketed,
     Query!AnswersAreOfTheProcess, Query!ListIsBracketed, Query!Answered
<1> QED BY <1>2, <1>3, <1>4 DEF QueryInv

\* The array is allocated, or not.
LEMMA CallocPidsKeeps ==
  ASSUME QueryInv, Query!CallocPids
  PROVE  QueryInv'
<1>1. /\ step = "calloc" /\ query = "list_pids"
      /\ UNCHANGED <<table, starts, stayed, everSeen, query, file, seen>>
      /\ \/ block' = TRUE /\ step' = "fill" /\ UNCHANGED failed
         \/ /\ failed' = TRUE /\ step' = "answered" /\ out' = <<>>
            /\ UNCHANGED block
  BY DEF Query!CallocPids, Query!kernel, Query!Answer, QueryInv, Asking
<1>2. Tracked' /\ Listing'
  BY <1>1 DEF QueryInv, Tracked, Listing
<1>3. Asking'
  <2>1. <<>> \in Seq(Nat)
    BY EmptySeq
  <2> QED BY <1>1, <2>1 DEF QueryInv, Asking
<1>4. AnswersAreOfTheProcess' /\ ListIsBracketed'
  BY <1>1 DEF AnswersAreOfTheProcess, ListIsBracketed,
     Query!AnswersAreOfTheProcess, Query!ListIsBracketed, Query!Answered
<1> QED BY <1>2, <1>3, <1>4 DEF QueryInv

\* The array is filled.
LEMMA FillPidsKeeps ==
  ASSUME QueryInv, Query!FillPids
  PROVE  QueryInv'
<1>1. PICK odd \in SUBSET DOMAIN seen :
        /\ failed' = (odd # {})
        /\ out' = [i \in DOMAIN seen |-> IF i \in odd THEN 0 ELSE seen[i]]
  BY DEF Query!FillPids, Query!Answer
<1>2. /\ step = "fill" /\ query = "list_pids" /\ step' = "answered"
      /\ UNCHANGED <<table, starts, stayed, everSeen, query, file, seen,
                     block>>
  BY DEF Query!FillPids, Query!kernel, Query!Answer, QueryInv, Asking
<1>3. seen \in Seq(Pids)
  BY DEF QueryInv, Listing
<1>4. out' \in Seq(Nat) /\ DOMAIN out' = DOMAIN seen
  <2> DEFINE n == Len(seen)
             o == [i \in DOMAIN seen |-> IF i \in odd THEN 0 ELSE seen[i]]
  <2>1. n \in Nat /\ DOMAIN seen = 1 .. n /\ \A i \in 1 .. n : seen[i] \in Nat
    BY <1>3, LenProperties, PidsAreNumbers
  <2>2. o \in [1 .. n -> Nat]
    <3> HIDE DEF n
    <3> QED BY <2>1
  <2>3. DOMAIN o = DOMAIN seen
    OBVIOUS
  <2> HIDE DEF n, o
  <2>4. o \in Seq(Nat)
    BY <2>1, <2>2, MakeSeq
  <2> QED BY <1>1, <2>3, <2>4 DEF o
<1>5. /\ failed' \in BOOLEAN
      /\ ~failed' => \A i \in DOMAIN seen : out'[i] = seen[i]
  BY <1>1
<1>6. Tracked' /\ Listing'
  BY <1>2, <1>5 DEF QueryInv, Tracked, Listing
<1>7. Asking'
  BY <1>2, <1>4 DEF QueryInv, Asking
<1>8. AnswersAreOfTheProcess'
  BY <1>2 DEF AnswersAreOfTheProcess, Query!AnswersAreOfTheProcess,
     Query!Answered, Query!LineCalls, Query!LinkCalls
<1>9. ListIsBracketed'
  <2>1. SUFFICES ASSUME ~failed'
                 PROVE  /\ stayed \subseteq Query!ToSet(out')
                        /\ Query!ToSet(out') \subseteq everSeen
                        /\ \A i, j \in DOMAIN out' : i # j => out'[i] # out'[j]
    BY <1>2 DEF ListIsBracketed, Query!ListIsBracketed, Query!Answered
  <2>2. \A i \in DOMAIN seen : out'[i] = seen[i]
    BY <1>5, <2>1
  <2>3. \A p \in stayed : \E i \in DOMAIN seen : seen[i] = p
    BY <1>2 DEF QueryInv, Listing
  <2>4. \A i, j \in DOMAIN seen : i # j => seen[i] # seen[j]
    BY <1>2 DEF QueryInv, Listing
  <2> QED BY <1>4, <2>2, <2>3, <2>4 DEF QueryInv, Listing, Query!ToSet
<1> QED BY <1>6, <1>7, <1>8, <1>9 DEF QueryInv

\* Between two queries nothing is known.
LEMMA AtRest ==
  /\ Query!Untracked \in [Pids -> {Query!Nobody} \cup Existing]
  /\ Query!Untracked[Target] = Query!Nobody
  /\ Query!InUse(Query!Untracked) = {}
  /\ <<>> \in Seq(Pids) /\ DOMAIN <<>> = {}
<1>1. <<>> \in Seq(Pids) /\ DOMAIN <<>> = {}
  BY EmptySeq
<1> QED BY <1>1, PidsAreNumbers DEF Query!Untracked, Query!InUse

\* The caller is done with the answer.
LEMMA DismissKeeps ==
  ASSUME QueryInv, Query!Dismiss
  PROVE  QueryInv'
<1>1. /\ step' = "idle" /\ block' = FALSE /\ table' = Query!Untracked
      /\ starts' = 0 /\ stayed' = {} /\ everSeen' = {} /\ failed' = FALSE
      /\ seen' = <<>> /\ UNCHANGED query
  BY DEF Query!Dismiss
<1>2. Tracked' /\ Listing'
  BY <1>1, AtRest DEF Tracked, Listing
<1>3. Asking'
  BY <1>1 DEF QueryInv, Asking
<1>4. AnswersAreOfTheProcess' /\ ListIsBracketed'
  BY <1>1 DEF AnswersAreOfTheProcess, ListIsBracketed,
     Query!AnswersAreOfTheProcess, Query!ListIsBracketed, Query!Answered
<1> QED BY <1>2, <1>3, <1>4 DEF QueryInv

\* So does every step of a program that asks, whatever the processes do.
LEMMA QuerySteps ==
  ASSUME QueryInv, QueryNext \/ UNCHANGED queryVars
  PROVE  QueryInv'
<1>1. ASSUME NEW which \in Query!Queries, Query!Ask(which)
      PROVE  QueryInv'
  BY <1>1, AskKeeps
<1>2. CASE Query!QueryStep
  BY <1>2, OpenLineKeeps, ReadLineKeeps, ReadLineFailsKeeps, ReadLinkKeeps,
     ReadLinkFailsKeeps, KillKeeps, ReadEntryKeeps, GlobEndsKeeps,
     GlobFailsKeeps, CallocPidsKeeps, FillPidsKeeps DEF Query!QueryStep
<1>3. CASE Query!Kernel
  BY <1>3, StartKeeps, ExitKeeps DEF Query!Kernel
<1>4. CASE Query!Dismiss
  BY <1>4, DismissKeeps
<1>5. CASE UNCHANGED queryVars
  <2>1. UNCHANGED <<table, starts, stayed, everSeen, failed, query, step,
                    file, seen, block, out, result>>
    BY <1>5 DEF queryVars
  <2>2. Tracked' /\ Asking' /\ Listing'
    BY <2>1 DEF QueryInv, Tracked, Asking, Listing
  <2>3. AnswersAreOfTheProcess' /\ ListIsBracketed'
    BY <2>1 DEF QueryInv, AnswersAreOfTheProcess, ListIsBracketed,
       Query!AnswersAreOfTheProcess, Query!ListIsBracketed, Query!Answered,
       Query!Path
  <2> QED BY <2>2, <2>3 DEF QueryInv
<1> QED BY <1>1, <1>2, <1>3, <1>4, <1>5 DEF QueryNext

\* It is known at first.
LEMMA QueryStarts ==
  ASSUME Query!Init
  PROVE  QueryInv
<1>1. Tracked /\ Listing
  BY AtRest DEF Query!Init, Tracked, Listing
<1>2. Asking
  BY DEF Query!Init, Asking
<1>3. AnswersAreOfTheProcess /\ ListIsBracketed
  BY DEF Query!Init, AnswersAreOfTheProcess, ListIsBracketed,
     Query!AnswersAreOfTheProcess, Query!ListIsBracketed, Query!Answered
<1> QED BY <1>1, <1>2, <1>3 DEF QueryInv

-----------------------------------------------------------------------------
\* Objects

\* References are functions: those to nothing, a new one and one dropped.
LEMMA OnesChange ==
  ASSUME NEW S, NEW x
  PROVE  /\ DOMAIN Ones(S) = S /\ \A o \in S : Ones(S)[o] = 1
         /\ New(Ones(S), x) = Ones(S \cup {x})
         /\ x \in S => Decref(Ones(S), x) = Ones(S \ {x})
<1>1. DOMAIN Ones(S) = S /\ \A o \in S : Ones(S)[o] = 1
  BY DEF Ones
<1>2. New(Ones(S), x) = Ones(S \cup {x})
  BY DEF New, With, Ones
<1>3. ASSUME x \in S PROVE Decref(Ones(S), x) = Ones(S \ {x})
  <2>1. Decref(Ones(S), x) = Restrict(Ones(S), S \ {x})
    BY <1>1, <1>3 DEF Decref
  <2>2. Restrict(Ones(S), S \ {x}) = [o \in S \ {x} |-> Ones(S)[o]]
    BY DEF Restrict
  <2>3. \A o \in S \ {x} : Ones(S)[o] = 1
    BY <1>1
  <2> QED BY <2>1, <2>2, <2>3 DEF Ones
<1> QED BY <1>1, <1>2, <1>3

\* An item that is made, put in a dict and let go has one reference, and the
\* one it replaces has none.
LEMMA ItemReplaces ==
  ASSUME NEW S, NEW y, y \notin S
  PROVE  /\ Decref(Incref(New(Ones(S), y), y), y) = Ones(S \cup {y})
         /\ \A x \in S : Decref(Decref(Incref(New(Ones(S), y), y), x), y)
                         = Ones((S \ {x}) \cup {y})
<1> DEFINE stored == Incref(New(Ones(S), y), y)
           T == S \cup {y}
<1>1. stored = [o \in T |-> IF o = y THEN 2 ELSE 1]
  <2>1. New(Ones(S), y) = Ones(T)
    BY OnesChange
  <2>2. Incref(Ones(T), y) = [Ones(T) EXCEPT ![y] = Ones(T)[y] + 1]
    BY DEF Incref
  <2>3. DOMAIN Ones(T) = T /\ \A o \in T : Ones(T)[o] = 1
    BY OnesChange
  <2>4. Ones(T)[y] + 1 = 2
    BY <2>3
  <2>5. [Ones(T) EXCEPT ![y] = 2] = [o \in T |-> IF o = y THEN 2 ELSE 1]
    BY DEF Ones
  <2> HIDE DEF T
  <2> QED BY <2>1, <2>2, <2>4, <2>5
<1>2. Decref(stored, y) = Ones(T)
  <2>1. stored[y] = 2
    BY <1>1
  <2>2. Decref(stored, y) = [stored EXCEPT ![y] = stored[y] - 1]
    <3> HIDE DEF stored
    <3> QED BY <2>1 DEF Decref
  <2>3. [stored EXCEPT ![y] = 1] = [o \in T |-> 1]
    <3> HIDE DEF stored
    <3> QED BY <1>1
  <2>4. stored[y] - 1 = 1
    BY <2>1
  <2> HIDE DEF stored, T
  <2> QED BY <2>2, <2>3, <2>4 DEF Ones
<1>3. ASSUME NEW x \in S
      PROVE  Decref(Decref(stored, x), y) = Ones((S \ {x}) \cup {y})
  <2> DEFINE U == (S \ {x}) \cup {y}
             left == Restrict(stored, T \ {x})
  <2>1. stored[x] = 1 /\ DOMAIN stored = T /\ x # y
    BY <1>1
  <2>2. Decref(stored, x) = left
    <3> HIDE DEF stored, T
    <3> QED BY <2>1 DEF Decref
  <2>3. T \ {x} = U
    BY <2>1
  <2>4. left = [o \in U |-> IF o = y THEN 2 ELSE 1]
    <3>1. left = [o \in U |-> stored[o]]
      <4> HIDE DEF stored, T, U
      <4> QED BY <2>3 DEF Restrict
    <3>2. \A o \in U : stored[o] = IF o = y THEN 2 ELSE 1
      <4>1. \A o \in U : o \in T
        OBVIOUS
      <4> HIDE DEF stored, T, U
      <4> QED BY <1>1, <4>1
    <3> HIDE DEF stored, T, U, left
    <3> QED BY <3>1, <3>2
  <2>5. left[y] = 2
    <3>1. y \in U
      OBVIOUS
    <3> HIDE DEF left, U
    <3> QED BY <2>4, <3>1
  <2>6. Decref(left, y) = [left EXCEPT ![y] = left[y] - 1]
    <3> HIDE DEF left
    <3> QED BY <2>5 DEF Decref
  <2>7. [left EXCEPT ![y] = 1] = [o \in U |-> 1]
    <3> HIDE DEF left, U
    <3> QED BY <2>4
  <2>8. left[y] - 1 = 1
    BY <2>5
  <2> HIDE DEF left, U, stored, T
  <2>9. Decref(left, y) = Ones(U)
    BY <2>6, <2>7, <2>8 DEF Ones
  <2> QED BY <2>2, <2>9 DEF U
<1> QED BY <1>2, <1>3

\* A result without items is alone, and no result is nothing.
LEMMA NoItems ==
  /\ DOMAIN None = {} /\ ItemsOf(None) = {}
  /\ None = Ones({}) /\ Owned(None) = Ones({Object})
  /\ New(None, Object) = Owned(None)
  /\ Decref(Owned(None), Object) = None
  /\ [i \in 1 .. 0 |-> i] = None
<1>1. DOMAIN None = {} /\ None = Ones({}) /\ [i \in 1 .. 0 |-> i] = None
  BY DEF None, Ones
<1>2. ItemsOf(None) = {}
  BY <1>1 DEF ItemsOf
<1>3. Owned(None) = Ones({Object})
  <2>1. {Object} \cup {} = {Object}
    OBVIOUS
  <2> QED BY <1>2, <2>1 DEF Owned
<1>4. New(Ones({}), Object) = Ones({Object})
  <2>1. {} \cup {Object} = {Object}
    OBVIOUS
  <2> QED BY <2>1, OnesChange
<1>5. Decref(Ones({Object}), Object) = Ones({})
  <2>1. {Object} \ {Object} = {} /\ Object \in {Object}
    OBVIOUS
  <2> QED BY <2>1, OnesChange
<1> QED BY <1>1, <1>2, <1>3, <1>4, <1>5

\* Items are neither results nor each other.
LEMMA ItemsDiffer ==
  /\ \A i : Item(i) # Object
  /\ \A i, j : Item(i) = Item(j) => i = j
BY DEF Item, Object

\* What is owned: one reference each, and none to anything else.
LEMMA OwnedIsTheResult ==
  ASSUME NEW list
  PROVE  /\ OnlyTheResult(Owned(list), list, TRUE)
         /\ OnlyTheResult(None, None, FALSE)
         /\ \A o \in DOMAIN Owned(list) : Owned(list)[o] > 0
         /\ \A k \in DOMAIN list : Item(list[k]) \in DOMAIN Owned(list)
         /\ \A o \in DOMAIN None : None[o] > 0
         /\ \A k \in DOMAIN None : Item(None[k]) \in DOMAIN None
<1>1. /\ DOMAIN Owned(list) = {Object} \cup ItemsOf(list)
      /\ \A o \in {Object} \cup ItemsOf(list) : Owned(list)[o] = 1
  BY OnesChange DEF Owned
<1>2. OnlyTheResult(Owned(list), list, TRUE)
  BY <1>1 DEF OnlyTheResult, ItemsOf
<1>3. DOMAIN None = {}
  BY NoItems
<1>4. OnlyTheResult(None, None, FALSE)
  BY <1>3 DEF OnlyTheResult
<1>5. \A o \in DOMAIN Owned(list) : Owned(list)[o] > 0
  BY <1>1
<1>6. \A k \in DOMAIN list : Item(list[k]) \in DOMAIN Owned(list)
  BY <1>1 DEF ItemsOf
<1> QED BY <1>2, <1>3, <1>4, <1>5, <1>6

\* Dropping a result drops its items, each once.
LEMMA ResultDropped ==
  ASSUME NEW list, IsFiniteSet(DOMAIN list),
         \A k, l \in DOMAIN list : list[k] = list[l] => k = l
  PROVE  DropObject(Owned(list), list) = None
<1> DEFINE S == DOMAIN list
           Left(T) == Ones({Object} \cup {Item(list[k]) : k \in S \ T})
           Like(it) == it = [s \in SUBSET S |->
                               IF s = {} THEN Owned(list)
                               ELSE LET x == CHOOSE x \in s : TRUE
                                    IN  Decref(it[s \ {x}], Item(list[x]))]
           witness == [T \in SUBSET S |-> Left(T)]
           iter == CHOOSE it : Like(it)
<1>1. ASSUME NEW T \in SUBSET S, NEW x \in T
      PROVE  Decref(Left(T \ {x}), Item(list[x])) = Left(T)
  <2> DEFINE before == {Object} \cup {Item(list[k]) : k \in S \ (T \ {x})}
             after == {Object} \cup {Item(list[k]) : k \in S \ T}
  <2>1. Item(list[x]) \in before
    OBVIOUS
  <2>2. before \ {Item(list[x])} = after
    <3>1. Item(list[x]) \notin after
      BY ItemsDiffer
    <3>2. before = after \cup {Item(list[x])}
      OBVIOUS
    <3> HIDE DEF before, after
    <3> QED BY <3>1, <3>2
  <2> HIDE DEF before, after
  <2>3. Decref(Ones(before), Item(list[x])) = Ones(after)
    BY <2>1, <2>2, OnesChange
  <2> QED BY <2>3 DEF before, after
<1>2. Left({}) = Owned(list)
  <2>1. S \ {} = S
    OBVIOUS
  <2> HIDE DEF S
  <2> QED BY <2>1, Zenon DEF Owned, ItemsOf, S
<1>3. Like(witness)
  <2>1. ASSUME NEW s \in SUBSET S, s # {}
        PROVE  Left(s) = Decref(witness[s \ {CHOOSE x \in s : TRUE}],
                                Item(list[CHOOSE x \in s : TRUE]))
    <3>1. PICK x \in s : x = CHOOSE y \in s : TRUE
      BY <2>1
    <3>2. witness[s \ {x}] = Left(s \ {x})
      <4> HIDE DEF Left
      <4> QED OBVIOUS
    <3> HIDE DEF Left, witness
    <3> QED BY <1>1, <3>1, <3>2
  <2>2. witness = [s \in SUBSET S |->
                     IF s = {} THEN Owned(list)
                     ELSE LET x == CHOOSE x \in s : TRUE
                          IN  Decref(witness[s \ {x}], Item(list[x]))]
    <3>1. witness = [s \in SUBSET S |-> Left(s)]
      OBVIOUS
    <3> HIDE DEF Left, witness, S
    <3> QED BY <1>2, <2>1, <3>1
  <2> HIDE DEF witness
  <2> QED BY <2>2
<1>4. Like(iter)
  <2> HIDE DEF Like, witness
  <2> QED BY <1>3
<1> DEFINE P == {m \in Nat : \A T \in SUBSET S :
                               Cardinality(T) = m => iter[T] = Left(T)}
<1>5. \A T \in SUBSET S : /\ IsFiniteSet(T) /\ Cardinality(T) \in Nat
                          /\ Cardinality(T) = 0 <=> T = {}
  BY FS_Subset, FS_EmptySet, FS_CardinalityType
<1>6. \A T \in SUBSET S :
        iter[T] = IF T = {} THEN Owned(list)
                  ELSE LET x == CHOOSE x \in T : TRUE
                       IN  Decref(iter[T \ {x}], Item(list[x]))
  <2> HIDE DEF iter, S
  <2> QED BY <1>4, Zenon
<1> HIDE DEF Like, iter, Left, S
<1>7. 0 \in P
  BY <1>2, <1>5, <1>6
<1>8. ASSUME NEW m \in P PROVE m + 1 \in P
  <2>1. ASSUME NEW T \in SUBSET S, Cardinality(T) = m + 1
        PROVE  iter[T] = Left(T)
    <3>1. T # {}
      BY <1>5, <2>1
    <3>2. PICK x \in T : iter[T] = Decref(iter[T \ {x}], Item(list[x]))
      <4>1. iter[T] = LET x == CHOOSE x \in T : TRUE
                      IN  Decref(iter[T \ {x}], Item(list[x]))
        BY <1>6, <3>1, Zenon
      <4>2. (CHOOSE x \in T : TRUE) \in T
        BY <3>1
      <4> QED BY <4>1, <4>2, Zenon
    <3>3. T \ {x} \in SUBSET S /\ Cardinality(T \ {x}) = m
      <4>1. Cardinality(T \ {x}) = Cardinality(T) - 1 /\ m \in Nat
        BY <1>5, FS_RemoveElement
      <4> HIDE DEF P
      <4> QED BY <2>1, <4>1
    <3>4. iter[T \ {x}] = Left(T \ {x})
      BY <3>3
    <3> HIDE DEF P
    <3> QED BY <1>1, <3>2, <3>4
  <2> QED BY <2>1
<1>9. P = Nat
  <2> HIDE DEF P
  <2> QED BY <1>7, <1>8, AllNumbers DEF P
<1>10. iter[S] = Left(S)
  <2>1. Cardinality(S) \in P
    BY <1>5, <1>9
  <2> QED BY <2>1
<1>11. Left(S) = Owned(None)
  <2>1. {Object} \cup {Item(list[k]) : k \in S \ S} = {Object}
    OBVIOUS
  <2> QED BY <2>1, NoItems DEF Left
<1>12. DropObject(Owned(list), list) = Decref(iter[S], Object)
  BY DEF DropObject, FoldSet, MapThenFoldSet, iter, Like, S
<1> QED BY <1>10, <1>11, <1>12, NoItems

\* A dict with one value more, under a new name or one it has.
LEMMA NamedItem ==
  ASSUME NEW list, NEW n, NEW name,
         \A k, l \in DOMAIN list : list[k] = list[l] => k = l,
         \A k \in DOMAIN list : list[k] # n
  PROVE  LET stored == Incref(New(Owned(list), Item(n)), Item(n))
         IN Decref(IF name \in DOMAIN list
                   THEN Decref(stored, Item(list[name])) ELSE stored, Item(n))
            = Owned(With(list, name, n))
<1> DEFINE S == {Object} \cup ItemsOf(list)
           more == With(list, name, n)
           stored == Incref(New(Owned(list), Item(n)), Item(n))
<1>1. Item(n) \notin S
  BY ItemsDiffer DEF ItemsOf
<1>2. /\ DOMAIN more = DOMAIN list \cup {name} /\ more[name] = n
      /\ \A k \in DOMAIN list \ {name} : more[k] = list[k]
  BY DEF With
<1>3. ItemsOf(more)
        = {Item(list[k]) : k \in DOMAIN list \ {name}} \cup {Item(n)}
  <2> HIDE DEF more
  <2> QED BY <1>2 DEF ItemsOf
<1> HIDE DEF more
<1>4. CASE name \in DOMAIN list
  <2>1. Item(list[name]) \in S
    BY <1>4 DEF ItemsOf
  <2>2. (S \ {Item(list[name])}) \cup {Item(n)} = {Object} \cup ItemsOf(more)
    <3>1. ItemsOf(list) \ {Item(list[name])}
            = {Item(list[k]) : k \in DOMAIN list \ {name}}
      BY <1>4, ItemsDiffer DEF ItemsOf
    <3>2. Object # Item(list[name])
      BY ItemsDiffer
    <3> QED BY <1>3, <3>1, <3>2
  <2>3. Decref(Decref(Incref(New(Ones(S), Item(n)), Item(n)),
                      Item(list[name])), Item(n))
        = Ones((S \ {Item(list[name])}) \cup {Item(n)})
    <3> DEFINE y == Item(n)
               x == Item(list[name])
    <3>1. y \notin S /\ x \in S
      BY <1>1, <2>1
    <3> HIDE DEF S, x, y
    <3>2. \A z \in S : Decref(Decref(Incref(New(Ones(S), y), y), z), y)
                      = Ones((S \ {z}) \cup {y})
      BY <3>1, ItemReplaces
    <3>3. Decref(Decref(Incref(New(Ones(S), y), y), x), y)
          = Ones((S \ {x}) \cup {y})
      BY <3>1, <3>2, Zenon
    <3> QED BY <3>3 DEF x, y
  <2>4. Decref(Decref(stored, Item(list[name])), Item(n)) = Owned(more)
    BY <2>2, <2>3, Zenon DEF Owned
  <2> HIDE DEF stored
  <2> QED BY <1>4, <2>4 DEF stored, more
<1>5. CASE name \notin DOMAIN list
  <2>1. S \cup {Item(n)} = {Object} \cup ItemsOf(more)
    BY <1>3, <1>5 DEF ItemsOf
  <2>2. Decref(Incref(New(Ones(S), Item(n)), Item(n)), Item(n))
        = Ones(S \cup {Item(n)})
    <3> HIDE DEF S
    <3> QED BY <1>1, ItemReplaces
  <2>3. Decref(stored, Item(n)) = Owned(more)
    BY <2>1, <2>2, Zenon DEF Owned
  <2> HIDE DEF stored
  <2> QED BY <1>5, <2>3 DEF stored, more
<1> QED BY <1>4, <1>5

\* A list with one item more.
LEMMA ListedItem ==
  ASSUME NEW n \in Nat
  PROVE  LET list == [i \in 1 .. n |-> i]
         IN /\ With(list, n + 1, n + 1) = [i \in 1 .. n + 1 |-> i]
            /\ New(Owned(list), Item(n + 1))
                 = Owned([i \in 1 .. n + 1 |-> i])
<1> DEFINE list == [i \in 1 .. n |-> i]
           more == [i \in 1 .. n + 1 |-> i]
<1>1. 1 .. n + 1 = (1 .. n) \cup {n + 1}
  OBVIOUS
<1>2. With(list, n + 1, n + 1) = more
  BY <1>1 DEF With
<1>3. ItemsOf(more) = ItemsOf(list) \cup {Item(n + 1)}
  BY <1>1 DEF ItemsOf
<1> HIDE DEF list, more
<1>4. New(Owned(list), Item(n + 1)) = Owned(more)
  <2>1. ({Object} \cup ItemsOf(list)) \cup {Item(n + 1)}
          = {Object} \cup ItemsOf(more)
    BY <1>3
  <2> DEFINE S == {Object} \cup ItemsOf(list)
             y == Item(n + 1)
  <2>2. New(Ones(S), y) = Ones(S \cup {y})
    <3> HIDE DEF S, y
    <3> QED BY OnesChange
  <2> QED BY <2>1, <2>2, Zenon DEF Owned
<1> QED BY <1>2, <1>4 DEF list, more

-----------------------------------------------------------------------------
\* Methods

\* The parts below a method take only their own steps.
LEMMA PartsStep ==
  ASSUME PyInv, [PyNext]_allVars
  PROVE  StringsInv' /\ QueryInv'
<1>1. SUFFICES [Next]_vars /\ (QueryNext \/ UNCHANGED queryVars)
  BY StringsStep, QuerySteps DEF PyInv
<1>2. ASSUME FreeNative PROVE [Next]_vars /\ (QueryNext \/ UNCHANGED queryVars)
  BY <1>2 DEF FreeNative, Next, QueryNext
<1>3. CASE CallLibrary
  <2>1. CASE method \in TextMethods
    BY <1>3, <2>1 DEF CallLibrary, Next, TextMethods
  <2>2. CASE method \notin TextMethods
    <3>1. method \in Query!Queries
      BY <2>2 DEF PyInv, MethodInv, Phases, Methods
    <3> QED BY <1>3, <2>2, <3>1 DEF CallLibrary, QueryNext
  <2> QED BY <2>1, <2>2
<1>4. CASE Library
  BY <1>4 DEF Library, Next, QueryNext
<1>5. CASE LibraryFailed \/ NewValue \/ NewContainerFails \/ FreeAndReturn
  BY <1>2, <1>5
     DEF LibraryFailed, NewValue, NewContainerFails, FreeAndReturn
<1>6. CASE MethodCall \/ Arguments \/ NewWrapper \/ NewContainer
  BY <1>6 DEF MethodCall, Arguments, NewWrapper, NewContainer
<1>7. CASE AddToList \/ AddToDict \/ SkipVariable \/ AddFails
  BY <1>7 DEF AddToList, AddToDict, SkipVariable, AddFails
<1>8. CASE PyCrash \/ Filled \/ Release
  BY <1>8 DEF PyCrash, Filled, Release
<1>9. CASE UNCHANGED allVars
  BY <1>9 DEF allVars
<1> QED BY <1>3, <1>4, <1>5, <1>6, <1>7, <1>8, <1>9 DEF PyNext

\* To free a result is to leave the library.
LEMMA Freed ==
  ASSUME PyInv, FreeNative, pyPc \in {"library", "free"}
  PROVE  Asleep'
BY DEF FreeNative, FreeResult, Query!Dismiss, Asleep, PyInv, MethodInv, Phases,
   vars, queryVars

\* The list a method converts has as many items as it counts.
LEMMA Counts ==
  ASSUME PyInv, Answered, pyPc \in {"library", "fill", "free"}
  PROVE  /\ Count \in Nat
         /\ method = "cmdline" =>
              Count = Len(tokens) /\ DOMAIN tokens = 1 .. Count
         /\ method = "environ" =>
              env # NULL /\ Count = Len(env) /\ DOMAIN env = 1 .. Count
         /\ method = "list_pids" =>
              Count = Len(out) /\ DOMAIN out = 1 .. Count
<1>1. CASE method = "cmdline"
  <2>1. pc = "returned" /\ status = "NONE"
    BY <1>1 DEF Answered, Code, TextMethods
  <2>2. Len(tokens) = numTokens /\ tokens \in Seq(String \cup {NULL})
    BY <2>1 DEF PyInv, StringsInv, TypeOK, Counted, Splitting
  <2>3. Len(tokens) \in Nat /\ DOMAIN tokens = 1 .. Len(tokens)
    BY <2>2, LenProperties
  <2> QED BY <1>1, <2>2, <2>3 DEF Count
<1>2. CASE method = "environ"
  <2>1. pc = "returned" /\ status = "NONE" /\ call = "environ"
    <3>1. pc = "returned" /\ status = "NONE"
      BY <1>2 DEF Answered, Code, TextMethods
    <3>2. pc # "idle" => call = "environ"
      BY <1>2 DEF PyInv, MethodInv, Phases, Answered, Asleep, TextMethods
    <3> QED BY <3>1, <3>2
  <2>2. env # NULL /\ env \in Seq(Variables)
    BY <2>1 DEF PyInv, StringsInv, TypeOK, Counted, Splitting
  <2>3. Len(env) \in Nat /\ DOMAIN env = 1 .. Len(env)
    BY <2>2, LenProperties
  <2> QED BY <1>2, <2>2, <2>3 DEF Count
<1>3. CASE method = "list_pids"
  <2>1. out \in Seq(Nat)
    BY <1>3 DEF PyInv, MethodInv, Phases, QueryInv, Asking, Answered,
       TextMethods
  <2>2. Len(out) \in Nat /\ DOMAIN out = 1 .. Len(out)
    BY <2>1, LenProperties
  <2> QED BY <1>3, <2>2 DEF Count
<1> QED BY <1>1, <1>2, <1>3 DEF Answered, Containers, TextMethods

\* The method is called.
LEMMA MethodCallKeeps ==
  ASSUME PyInv, MethodCall
  PROVE  MethodInv'
BY DEF PyInv, MethodInv, Phases, Asleep, Objects, Filling, MethodCall, vars,
   queryVars, object

\* Its arguments are parsed.
LEMMA ArgumentsKeep ==
  ASSUME PyInv, Arguments
  PROVE  MethodInv'
<1>1. /\ pyPc = "parse" /\ refs = None /\ slots = None /\ next = 1 /\ Asleep
      /\ method \in Methods /\ given \in {"NULL", "object"}
      /\ exception = FALSE
  BY DEF Arguments, PyInv, MethodInv, Phases, Objects
<1>2. /\ Asleep' /\ UNCHANGED <<method, refs, slots, next>>
      /\ \/ /\ pyPc' = IF method \in Wrappers THEN "wrapper" ELSE "call"
            /\ UNCHANGED given /\ exception' = FALSE
         \/ given' = "NULL" /\ exception' = TRUE /\ pyPc' = "returned"
  BY <1>1 DEF Arguments, ReturnNull, object, vars, queryVars, Asleep
<1>3. Phases'
  BY <1>1, <1>2 DEF Phases
<1>4. Objects'
  BY <1>1, <1>2 DEF Objects
<1>5. Filling'
  BY <1>1, <1>2 DEF Filling
<1> QED BY <1>3, <1>4, <1>5 DEF MethodInv

\* A wrapper is made.
LEMMA NewWrapperKeeps ==
  ASSUME PyInv, NewWrapper
  PROVE  MethodInv'
<1>1. /\ pyPc = "wrapper" /\ refs = None /\ slots = None /\ next = 1
      /\ Asleep /\ method \in Wrappers
      /\ method \in Methods /\ given \in {"NULL", "object"}
      /\ exception = FALSE
  BY DEF NewWrapper, PyInv, MethodInv, Phases, Objects
<1>2. /\ Asleep' /\ UNCHANGED <<method, slots, next>>
      /\ \/ /\ pyPc' = "call" /\ refs' = Owned(None)
            /\ UNCHANGED given /\ exception' = FALSE
         \/ /\ given' = "NULL" /\ exception' = TRUE /\ pyPc' = "returned"
            /\ UNCHANGED refs
  BY <1>1, NoItems DEF NewWrapper, ReturnNull, vars, queryVars, Asleep
<1>3. Phases'
  BY <1>1, <1>2 DEF Phases
<1>4. Objects'
  BY <1>1, <1>2 DEF Objects
<1>5. Filling'
  BY <1>1, <1>2 DEF Filling
<1> QED BY <1>3, <1>4, <1>5 DEF MethodInv

\* The library is called.
LEMMA CallLibraryKeeps ==
  ASSUME PyInv, CallLibrary
  PROVE  MethodInv'
<1>1. /\ pyPc = "call" /\ Asleep
      /\ method \in Methods /\ given \in {"NULL", "object"}
      /\ exception = FALSE
      /\ refs = (IF method \in Wrappers THEN Owned(None) ELSE None)
      /\ slots = None /\ next = 1
  BY DEF CallLibrary, PyInv, MethodInv, Phases, Objects
<1>2. /\ pyPc' = "library"
      /\ UNCHANGED <<method, refs, slots, next, given>>
      /\ exception' = FALSE
  BY <1>1 DEF CallLibrary, object
<1>3. IF method \in TextMethods THEN call' = method /\ step' = "idle"
                                ELSE query' = method /\ pc' = "idle"
  BY <1>1 DEF CallLibrary, Call, Query!Ask, Asleep, vars, queryVars
<1>4. Phases'
  BY <1>1, <1>2, <1>3 DEF Phases
<1>5. Objects'
  BY <1>1, <1>2, <1>3 DEF Objects
<1>6. Filling'
  BY <1>1, <1>2, <1>3 DEF Filling
<1> QED BY <1>4, <1>5, <1>6 DEF MethodInv

\* The library works.
LEMMA LibraryKeeps ==
  ASSUME PyInv, Library
  PROVE  MethodInv'
<1>1. /\ pyPc = "library" /\ method \in Methods
      /\ given \in {"NULL", "object"} /\ exception = FALSE
      /\ refs = (IF method \in Wrappers THEN Owned(None) ELSE None)
      /\ slots = None /\ next = 1
      /\ IF method \in TextMethods THEN call = method /\ step = "idle"
                                   ELSE query = method /\ pc = "idle"
  BY DEF Library, PyInv, MethodInv, Phases, Objects
<1>2. /\ UNCHANGED <<method, pyPc, refs, slots, next, given>>
      /\ exception' = FALSE
  BY <1>1 DEF Library, pyVars, object
<1>3. CASE CallStep /\ UNCHANGED queryVars
  <2>1. call' = call /\ pc # "idle"
    BY <1>3 DEF CallStep, OpenFails, OpenFile, ReadChunk, Grow, ReadEnd,
       Split, DupToken, TokensDone, Close, AllocVars, SetVar, SetVarFails,
       Crash, VarsDone, DropLines
  <2>2. step' = step
    BY <1>3 DEF queryVars
  <2>3. Phases'
    BY <1>1, <1>2, <2>1, <2>2 DEF Phases
  <2>4. Objects'
    BY <1>1, <1>2, <2>1, <2>2 DEF Objects
  <2>5. Filling'
    BY <1>1, <1>2, <2>1, <2>2 DEF Filling
  <2> QED BY <2>3, <2>4, <2>5 DEF MethodInv
<1>4. CASE (Query!QueryStep \/ Query!Kernel) /\ UNCHANGED vars
  <2>1. query' = query /\ step # "idle"
    <3>1. CASE Query!QueryStep
      BY <3>1 DEF Query!QueryStep, Query!OpenLine, Query!ReadLine,
         Query!ReadLineFails, Query!ReadLink, Query!ReadLinkFails,
         Query!Kill, Query!ReadEntry, Query!GlobEnds, Query!GlobFails,
         Query!CallocPids, Query!FillPids
    <3>2. CASE Query!Kernel
      BY <3>2 DEF Query!Kernel, Query!Start, Query!Exit, Query!Local
    <3> QED BY <1>4, <3>1, <3>2
  <2>2. pc' = pc
    BY <1>4 DEF vars
  <2>3. Phases'
    BY <1>1, <1>2, <2>1, <2>2 DEF Phases
  <2>4. Objects'
    BY <1>1, <1>2, <2>1, <2>2 DEF Objects
  <2>5. Filling'
    BY <1>1, <1>2, <2>1, <2>2 DEF Filling
  <2> QED BY <2>3, <2>4, <2>5 DEF MethodInv
<1> QED BY <1>3, <1>4 DEF Library

\* It failed.
LEMMA LibraryFailedKeeps ==
  ASSUME PyInv, LibraryFailed
  PROVE  MethodInv'
<1>1. /\ pyPc = "library" /\ method \in Methods
      /\ refs = (IF method \in Wrappers THEN Owned(None) ELSE None)
      /\ slots = None /\ next = 1
  BY DEF LibraryFailed, LibraryDone, PyInv, MethodInv, Phases, Objects
<1>2. Asleep'
  BY <1>1, Freed DEF LibraryFailed
<1>3. /\ refs' = None /\ UNCHANGED <<method, slots, next>>
      /\ given' = "NULL" /\ exception' = TRUE /\ pyPc' = "returned"
  BY <1>1, NoItems DEF LibraryFailed, ReturnNull
<1>4. Phases'
  BY <1>1, <1>2, <1>3 DEF Phases
<1>5. Objects'
  BY <1>1, <1>2, <1>3 DEF Objects
<1>6. Filling'
  BY <1>1, <1>2, <1>3 DEF Filling
<1> QED BY <1>4, <1>5, <1>6 DEF MethodInv

\* One value is made of what it returned.
LEMMA NewValueKeeps ==
  ASSUME PyInv, NewValue
  PROVE  MethodInv'
<1>1. /\ pyPc = "library" /\ method \in Methods /\ exception = FALSE
      /\ refs = (IF method \in Wrappers THEN Owned(None) ELSE None)
      /\ slots = None /\ next = 1
  BY DEF NewValue, LibraryDone, PyInv, MethodInv, Phases, Objects
<1>2. Asleep'
  BY <1>1, Freed DEF NewValue
<1>3. /\ pyPc' = "returned" /\ UNCHANGED <<method, slots, next>>
      /\ \/ /\ refs' = Owned(None) /\ given' = "object"
            /\ exception' = FALSE
         \/ /\ refs' = None /\ given' = "NULL" /\ exception' = TRUE
  BY <1>1, NoItems DEF NewValue, ReturnNull
<1>4. Phases'
  BY <1>1, <1>2, <1>3 DEF Phases
<1>5. Objects'
  BY <1>1, <1>2, <1>3 DEF Objects
<1>6. Filling'
  BY <1>1, <1>2, <1>3 DEF Filling
<1> QED BY <1>4, <1>5, <1>6 DEF MethodInv

\* A list or a dict is made for it.
LEMMA NewContainerKeeps ==
  ASSUME PyInv, NewContainer
  PROVE  MethodInv'
<1>1. /\ pyPc = "library" /\ method \in Methods /\ method \in Containers
      /\ method \notin Wrappers
      /\ given \in {"NULL", "object"} /\ exception = FALSE
      /\ refs = None /\ slots = None /\ next = 1 /\ Answered
      /\ IF method \in TextMethods THEN call = method /\ step = "idle"
                                   ELSE query = method /\ pc = "idle"
  <2>1. method \in Containers => method \notin Wrappers
    BY DEF Containers, Wrappers, TextMethods
  <2> QED BY <2>1 DEF NewContainer, LibraryDone, Answered, PyInv, MethodInv,
             Phases, Objects
<1>2. /\ pyPc' = "fill" /\ refs' = Owned(None)
      /\ UNCHANGED <<method, slots, next, given, exception>>
      /\ UNCHANGED <<call, step, query, pc, status, result, env, numTokens,
                     out>>
  BY <1>1, NoItems DEF NewContainer, vars, queryVars
<1>3. Answered' /\ Count' = Count
  BY <1>1, <1>2 DEF Answered, Code, Count
<1>4. Phases'
  BY <1>1, <1>2, <1>3 DEF Phases
<1>5. Objects'
  BY <1>1, <1>2 DEF Objects
<1>6. Filling'
  <2>1. Count \in Nat /\ next' = 1 /\ next' - 1 = 0 /\ 1 .. 0 = {}
    BY <1>1, <1>2, Counts
  <2>2. next' <= Count' + 1
    BY <1>3, <2>1
  <2>3. slots' = None /\ DOMAIN None = {} /\ IsFiniteSet({})
    BY <1>1, <1>2, NoItems, FS_EmptySet
  <2>4. Numbered(next - 1)'
    BY <2>3 DEF Numbered
  <2>5. Holds(next - 1)'
    <3>1. Valued(next - 1)' = {}
      BY <2>1 DEF Valued
    <3>2. [i \in 1 .. next' - 1 |-> i] = None
      BY <2>1, NoItems
    <3> QED BY <2>3, <3>1, <3>2 DEF Holds
  <2> QED BY <1>1, <1>2, <2>2, <2>4, <2>5 DEF Filling
<1> QED BY <1>4, <1>5, <1>6 DEF MethodInv

\* There is no memory for one.
LEMMA NewContainerFailsKeeps ==
  ASSUME PyInv, NewContainerFails
  PROVE  MethodInv'
<1>1. /\ pyPc = "library" /\ method \in Methods /\ refs = None
      /\ slots = None /\ next = 1
  <2>1. method \in Containers => method \notin Wrappers
    BY DEF Containers, Wrappers, TextMethods
  <2> QED BY <2>1 DEF NewContainerFails, LibraryDone, PyInv, MethodInv,
             Phases, Objects
<1>2. Asleep'
  BY <1>1, Freed DEF NewContainerFails
<1>3. /\ UNCHANGED <<method, refs, slots, next>>
      /\ given' = "NULL" /\ exception' = TRUE /\ pyPc' = "returned"
  BY DEF NewContainerFails, ReturnNull, object
<1>4. Phases'
  BY <1>1, <1>2, <1>3 DEF Phases
<1>5. Objects'
  BY <1>1, <1>2, <1>3 DEF Objects
<1>6. Filling'
  BY <1>1, <1>2, <1>3 DEF Filling
<1> QED BY <1>4, <1>5, <1>6 DEF MethodInv

\* What is known while a list or a dict is filled.
LEMMA WhileFilling ==
  ASSUME PyInv, pyPc = "fill"
  PROVE  /\ method \in Methods /\ given \in {"NULL", "object"}
         /\ exception = FALSE /\ next \in Nat \ {0} /\ Answered
         /\ refs = Owned(slots) /\ Numbered(next - 1) /\ Holds(next - 1)
         /\ next <= Count + 1 /\ Count \in Nat
         /\ IF method \in TextMethods THEN call = method /\ step = "idle"
                                      ELSE query = method /\ pc = "idle"
<1>1. Answered
  BY DEF PyInv, MethodInv, Phases
<1>2. Count \in Nat
  BY <1>1, Counts
<1>3. /\ method \in Methods /\ given \in {"NULL", "object"}
      /\ exception = FALSE
      /\ IF method \in TextMethods THEN call = method /\ step = "idle"
                                   ELSE query = method /\ pc = "idle"
  BY DEF PyInv, MethodInv, Phases
<1>4. next \in Nat \ {0} /\ refs = Owned(slots)
  BY DEF PyInv, MethodInv, Objects
<1>5. Numbered(next - 1) /\ Holds(next - 1) /\ next <= Count + 1
  BY DEF PyInv, MethodInv, Filling
<1> QED BY <1>1, <1>2, <1>3, <1>4, <1>5

\* Another item, with what it takes to go on.
LEMMA GoesOn ==
  ASSUME PyInv, MoreItems,
         UNCHANGED <<vars, queryVars, method, pyPc, given>>,
         exception' = FALSE, next' = next + 1, refs' = Owned(slots)',
         Numbered(next - 1)', Holds(next - 1)'
  PROVE  MethodInv'
<1>1. /\ pyPc = "fill" /\ pyPc' = "fill" /\ method' = method
      /\ given' = given /\ next <= Count
  BY DEF MoreItems
<1>2. UNCHANGED <<call, step, query, pc, status, result, env, numTokens, out>>
  BY DEF vars, queryVars
<1>3. Answered' /\ Count' = Count
  BY <1>1, <1>2, WhileFilling DEF Answered, Code, Count
<1>4. Phases'
  BY <1>1, <1>2, <1>3, WhileFilling DEF Phases
<1>5. next \in Nat \ {0} /\ Count \in Nat
  BY <1>1, WhileFilling
<1>6. next' \in Nat \ {0} /\ next' <= Count' + 1
  BY <1>1, <1>3, <1>5
<1>7. Objects'
  BY <1>1, <1>6 DEF Objects
<1>8. Filling'
  BY <1>1, <1>6 DEF Filling
<1> QED BY <1>4, <1>7, <1>8 DEF MethodInv

\* An item is put in a list.
LEMMA AddToListKeeps ==
  ASSUME PyInv, AddToList
  PROVE  MethodInv'
<1> DEFINE n == next - 1
           list == [i \in 1 .. n |-> i]
           more == [i \in 1 .. n + 1 |-> i]
<1>1. /\ pyPc = "fill" /\ MoreItems /\ method # "environ"
      /\ refs' = New(refs, Item(next)) /\ slots' = With(slots, next, next)
      /\ next' = next + 1
      /\ UNCHANGED <<vars, queryVars, method, pyPc, given, exception>>
  BY DEF AddToList, MoreItems
<1>2. n \in Nat /\ n + 1 = next /\ next' - 1 = n + 1
  BY <1>1, WhileFilling
<1>3. slots = list /\ refs = Owned(list) /\ exception = FALSE
  BY <1>1, WhileFilling DEF Holds
<1>4. slots' = more /\ refs' = Owned(more)
  <2>1. With(list, n + 1, n + 1) = more
    BY <1>2, ListedItem
  <2>2. New(Owned(list), Item(n + 1)) = Owned(more)
    BY <1>2, ListedItem
  <2> HIDE DEF list, more, n
  <2> QED BY <1>1, <1>2, <1>3, <2>1, <2>2
<1>5. Numbered(next - 1)'
  <2>1. DOMAIN more = 1 .. n + 1 /\ \A i \in 1 .. n + 1 : more[i] = i
    OBVIOUS
  <2>2. IsFiniteSet(1 .. n + 1)
    BY <1>2, FS_Interval
  <2> HIDE DEF more, n
  <2> QED BY <1>2, <1>4, <2>1, <2>2 DEF Numbered
<1>6. Holds(next - 1)'
  <2> HIDE DEF n
  <2> QED BY <1>1, <1>2, <1>4 DEF Holds
<1>7. refs' = Owned(slots)'
  <2> HIDE DEF more
  <2> QED BY <1>4 DEF Owned, ItemsOf
<1>8. exception' = FALSE
  BY <1>1, <1>3
<1> QED BY <1>1, <1>5, <1>6, <1>7, <1>8, GoesOn

\* A value is put in a dict, under its name.
LEMMA AddToDictKeeps ==
  ASSUME PyInv, AddToDict
  PROVE  MethodInv'
<1> DEFINE n == next - 1
           name == env[next].name
           stored == Incref(New(refs, Item(next)), Item(next))
           more == With(slots, name, next)
<1>1. /\ pyPc = "fill" /\ MoreItems /\ method = "environ"
      /\ env[next].value # NULL
      /\ refs' = Decref(IF name \in DOMAIN slots
                        THEN Decref(stored, Item(slots[name])) ELSE stored,
                        Item(next))
      /\ slots' = more /\ next' = next + 1
      /\ UNCHANGED <<vars, queryVars, method, pyPc, given, exception>>
  BY DEF AddToDict, MoreItems
<1>2. /\ n \in Nat /\ n + 1 = next /\ next' - 1 = n + 1 /\ n + 1 > n
      /\ n + 1 \in 1 .. n + 1 /\ \A i \in 1 .. n : i \in 1 .. n + 1
      /\ \A i \in 1 .. n + 1 : i \in 1 .. n \/ i = n + 1
      /\ \A i \in 1 .. n : i # n + 1 /\ n + 1 >= i
  BY <1>1, WhileFilling
<1>3. /\ Numbered(n) /\ Holds(n) /\ refs = Owned(slots)
      /\ exception = FALSE
  BY <1>1, WhileFilling
<1>4. env' = env
  BY <1>1 DEF vars
<1> HIDE DEF n
<1>5. /\ \A k, l \in DOMAIN slots : slots[k] = slots[l] => k = l
      /\ \A k \in DOMAIN slots : slots[k] # next
  BY <1>2, <1>3 DEF Numbered
<1>6. refs' = Owned(more)
  <2> HIDE DEF name, more
  <2>1. LET s == Incref(New(Owned(slots), Item(next)), Item(next))
        IN Decref(IF name \in DOMAIN slots
                  THEN Decref(s, Item(slots[name])) ELSE s, Item(next))
           = Owned(With(slots, name, next))
    BY <1>5, NamedItem
  <2> QED BY <1>1, <1>3, <2>1, Zenon DEF more
<1>7. /\ DOMAIN more = DOMAIN slots \cup {name} /\ more[name] = next
      /\ \A k \in DOMAIN slots : k # name => more[k] = slots[k]
  BY DEF With
<1> HIDE DEF more, stored
<1>8. Numbered(next - 1)'
  <2>1. IsFiniteSet(DOMAIN more)
    BY <1>3, <1>7, FS_AddElement DEF Numbered
  <2>2. ASSUME NEW k \in DOMAIN more
        PROVE  IF k = name THEN more[k] = n + 1
               ELSE k \in DOMAIN slots /\ more[k] = slots[k]
                    /\ more[k] \in 1 .. n
    BY <1>2, <1>3, <1>7 DEF Numbered
  <2>3. \A k \in DOMAIN more : more[k] \in 1 .. n + 1
    BY <1>2, <2>2
  <2>4. ASSUME NEW k \in DOMAIN more, NEW l \in DOMAIN more,
               more[k] = more[l]
        PROVE  k = l
    <3>1. CASE k = name \/ l = name
      BY <1>2, <2>2, <2>4, <3>1
    <3>2. CASE k # name /\ l # name
      BY <1>5, <2>2, <2>4, <3>2
    <3> QED BY <3>1, <3>2
  <2> QED BY <1>1, <1>2, <2>1, <2>3, <2>4 DEF Numbered
<1>9. Holds(next - 1)'
  <2>1. Valued(next - 1)' = Valued(n) \cup {n + 1}
    BY <1>1, <1>2, <1>4 DEF Valued
  <2>2. Valued(n) \subseteq 1 .. n
    BY DEF Valued
  <2>3. DOMAIN more = {env[i].name : i \in Valued(n) \cup {n + 1}}
    BY <1>1, <1>2, <1>3, <1>7 DEF Holds
  <2>4. ASSUME NEW i \in Valued(n) \cup {n + 1}
        PROVE  more[env[i].name] >= i
    <3>1. CASE env[i].name = name
      <4>1. more[env[i].name] = n + 1
        BY <1>2, <1>7, <3>1
      <4> QED BY <1>2, <2>2, <4>1
    <3>2. CASE env[i].name # name
      <4>1. i \in Valued(n)
        BY <1>2, <3>2
      <4>2. slots[env[i].name] >= i /\ env[i].name \in DOMAIN slots
        BY <1>1, <1>3, <4>1 DEF Holds
      <4> QED BY <1>7, <3>2, <4>2
    <3> QED BY <3>1, <3>2
  <2> QED BY <1>1, <1>4, <2>1, <2>3, <2>4 DEF Holds
<1>10. refs' = Owned(slots)'
  BY <1>1, <1>6 DEF Owned, ItemsOf
<1>11. exception' = FALSE
  BY <1>1, <1>3
<1> QED BY <1>1, <1>8, <1>9, <1>10, <1>11, GoesOn

\* A variable without a value is left out.
LEMMA SkipVariableKeeps ==
  ASSUME PyInv, SkipVariable
  PROVE  MethodInv'
<1> DEFINE n == next - 1
<1>1. /\ pyPc = "fill" /\ MoreItems /\ method = "environ"
      /\ env[next].value = NULL
      /\ refs' = refs /\ slots' = slots /\ next' = next + 1
      /\ UNCHANGED <<vars, queryVars, method, pyPc, given, exception>>
  BY DEF SkipVariable, MoreItems
<1>2. /\ n \in Nat /\ n + 1 = next /\ next' - 1 = n + 1
      /\ \A i \in 1 .. n : i \in 1 .. n + 1
      /\ \A i \in 1 .. n + 1 : i \in 1 .. n \/ i = n + 1
  BY <1>1, WhileFilling
<1>3. /\ Numbered(n) /\ Holds(n) /\ refs = Owned(slots)
      /\ exception = FALSE
  BY <1>1, WhileFilling
<1>4. env' = env
  BY <1>1 DEF vars
<1> HIDE DEF n
<1>5. Numbered(next - 1)'
  BY <1>1, <1>2, <1>3 DEF Numbered
<1>6. Holds(next - 1)'
  <2>1. Valued(next - 1)' = Valued(n)
    BY <1>1, <1>2, <1>4 DEF Valued
  <2> QED BY <1>1, <1>3, <1>4, <2>1 DEF Holds
<1>7. refs' = Owned(slots)'
  BY <1>1, <1>3 DEF Owned, ItemsOf
<1>8. exception' = FALSE
  BY <1>1, <1>3
<1> QED BY <1>1, <1>5, <1>6, <1>7, <1>8, GoesOn

\* There is no item: the result and those in it are dropped.
LEMMA AddFailsKeeps ==
  ASSUME PyInv, AddFails
  PROVE  MethodInv'
<1>1. /\ pyPc = "fill" /\ pyPc' = "free" /\ exception' = TRUE
      /\ slots' = None /\ refs' = DropObject(refs, slots)
      /\ UNCHANGED <<method, next, given>>
      /\ UNCHANGED <<call, step, query, pc, status, result>>
  BY DEF AddFails, MoreItems, vars, queryVars
<1>2. refs' = None
  <2>1. /\ refs = Owned(slots) /\ IsFiniteSet(DOMAIN slots)
        /\ \A k, l \in DOMAIN slots : slots[k] = slots[l] => k = l
    BY <1>1, WhileFilling DEF Numbered
  <2> QED BY <1>1, <2>1, ResultDropped
<1>3. Answered'
  BY <1>1, WhileFilling DEF Answered, Code
<1>4. Phases'
  BY <1>1, <1>3, WhileFilling DEF Phases
<1>5. Objects'
  BY <1>1, <1>2, WhileFilling DEF Objects
<1>6. Filling'
  BY <1>1 DEF Filling
<1> QED BY <1>4, <1>5, <1>6 DEF MethodInv

\* An argument that is missing ends the program.
LEMMA PyCrashKeeps ==
  ASSUME PyInv, PyCrash
  PROVE  MethodInv'
<1>1. /\ pyPc = "fill" /\ pyPc' = "crashed"
      /\ UNCHANGED <<method, refs, slots, next, given, exception>>
  BY DEF PyCrash, MoreItems, object
<1>2. exception' = FALSE
  BY <1>1, WhileFilling
<1>3. Phases'
  BY <1>1, <1>2, WhileFilling DEF Phases
<1>4. Objects'
  BY <1>1, WhileFilling DEF Objects, Owned, ItemsOf
<1>5. Filling'
  BY <1>1 DEF Filling
<1> QED BY <1>3, <1>4, <1>5 DEF MethodInv

\* All items are in.
LEMMA FilledKeeps ==
  ASSUME PyInv, Filled
  PROVE  MethodInv'
<1>1. /\ pyPc = "fill" /\ pyPc' = "free" /\ next > Count
      /\ UNCHANGED <<vars, queryVars, method, refs, slots, next, given,
                     exception>>
  BY DEF Filled, object
<1>2. exception' = FALSE
  BY <1>1, WhileFilling
<1>3. UNCHANGED <<call, step, query, pc, status, result, env, numTokens, out>>
  BY <1>1 DEF vars, queryVars
<1>4. Answered' /\ Count' = Count
  BY <1>1, <1>3, WhileFilling DEF Answered, Code, Count
<1>5. Phases'
  BY <1>1, <1>2, <1>3, <1>4, WhileFilling DEF Phases
<1>6. Objects'
  BY <1>1, <1>2, WhileFilling DEF Objects, Owned, ItemsOf
<1>7. Numbered(next - 1)' /\ Holds(next - 1)'
  BY <1>1, <1>3, WhileFilling DEF Numbered, Holds, Valued
<1>8. next' = Count' + 1 /\ next' <= Count' + 1
  <2>1. next \in Nat /\ Count \in Nat /\ next <= Count + 1
    BY <1>1, WhileFilling
  <2> QED BY <1>1, <1>4, <2>1
<1>9. Filling'
  BY <1>1, <1>7, <1>8 DEF Filling
<1> QED BY <1>5, <1>6, <1>9 DEF MethodInv

\* What the library allocated is freed, and the method returns.
LEMMA FreeAndReturnKeeps ==
  ASSUME PyInv, FreeAndReturn
  PROVE  MethodInv'
<1>1. /\ pyPc = "free" /\ pyPc' = "returned"
      /\ given' = (IF exception THEN "NULL" ELSE "object")
      /\ UNCHANGED <<method, refs, slots, next>>
  BY DEF FreeAndReturn, object
<1>2. Asleep'
  BY <1>1, Freed DEF FreeAndReturn
<1>3. /\ method \in Methods /\ next \in Nat \ {0} /\ exception \in BOOLEAN
      /\ IF exception THEN refs = None /\ slots = None ELSE refs = Owned(slots)
  BY <1>1 DEF PyInv, MethodInv, Phases, Objects
<1>4. CASE exception = TRUE
  <2>1. exception' = TRUE /\ given' = "NULL" /\ refs = None /\ slots = None
    BY <1>1, <1>3, <1>4 DEF FreeAndReturn
  <2>2. Phases'
    BY <1>1, <1>2, <1>3, <2>1 DEF Phases
  <2>3. Objects'
    BY <1>1, <1>3, <2>1 DEF Objects
  <2>4. Filling'
    BY <1>1 DEF Filling
  <2> QED BY <2>2, <2>3, <2>4 DEF MethodInv
<1>5. CASE exception = FALSE
  <2>1. exception' = FALSE /\ given' = "object" /\ refs = Owned(slots)
    BY <1>1, <1>3, <1>5 DEF FreeAndReturn
  <2>2. Phases'
    BY <1>1, <1>2, <1>3, <2>1 DEF Phases
  <2>3. Objects'
    BY <1>1, <1>3, <2>1 DEF Objects, Owned, ItemsOf
  <2>4. Filling'
    BY <1>1 DEF Filling
  <2> QED BY <2>2, <2>3, <2>4 DEF MethodInv
<1> QED BY <1>3, <1>4, <1>5

\* The result is dropped.
LEMMA ReleaseKeeps ==
  ASSUME PyInv, Release
  PROVE  MethodInv'
<1>1. /\ pyPc = "returned" /\ pyPc' = "idle" /\ refs' = None
      /\ slots' = None /\ next' = 1 /\ exception' = FALSE
      /\ UNCHANGED <<method, given, pc, step>>
  BY DEF Release, vars, queryVars
<1>2. method \in Methods /\ given \in {"NULL", "object"} /\ Asleep
  BY <1>1 DEF PyInv, MethodInv, Phases
<1>3. Phases'
  BY <1>1, <1>2 DEF Phases, Asleep
<1>4. Objects'
  BY <1>1 DEF Objects
<1>5. Filling'
  BY <1>1 DEF Filling
<1> QED BY <1>3, <1>4, <1>5 DEF MethodInv

-----------------------------------------------------------------------------
\* Theorems

\* Every step keeps what is known.
LEMMA PyInvKept == PyInv /\ [PyNext]_allVars => PyInv'
<1> SUFFICES ASSUME PyInv, [PyNext]_allVars PROVE PyInv'
  OBVIOUS
<1>1. StringsInv' /\ QueryInv'
  BY PartsStep
<1>2. ASSUME PyNext PROVE MethodInv'
  BY <1>2, MethodCallKeeps, ArgumentsKeep, NewWrapperKeeps, CallLibraryKeeps,
     LibraryKeeps, LibraryFailedKeeps, NewValueKeeps, NewContainerKeeps,
     NewContainerFailsKeeps, AddToListKeeps, AddToDictKeeps,
     SkipVariableKeeps, AddFailsKeeps, PyCrashKeeps, FilledKeeps,
     FreeAndReturnKeeps, ReleaseKeeps DEF PyNext
<1>3. ASSUME UNCHANGED allVars PROVE MethodInv'
  <2>1. UNCHANGED <<call, step, query, pc, status, result, env, numTokens, out,
                    method, pyPc, refs, slots, next, given, exception>>
    BY <1>3 DEF allVars, vars, queryVars, pyVars, object
  <2>2. Answered' = Answered /\ Count' = Count
    BY <2>1 DEF Answered, Code, Count
  <2>3. Phases'
    BY <2>1, <2>2 DEF PyInv, MethodInv, Phases, Asleep
  <2>4. Objects'
    BY <2>1 DEF PyInv, MethodInv, Objects, Owned, ItemsOf
  <2>5. Filling'
    <3>1. Numbered(next - 1)' <=> Numbered(next - 1)
      BY <2>1 DEF Numbered
    <3>2. Holds(next - 1)' <=> Holds(next - 1)
      BY <2>1 DEF Holds, Valued
    <3> QED BY <2>1, <2>2, <3>1, <3>2 DEF PyInv, MethodInv, Filling
  <2> QED BY <2>3, <2>4, <2>5 DEF MethodInv
<1>4. MethodInv'
  BY <1>2, <1>3
<1> QED BY <1>1, <1>4 DEF PyInv

\* It is known at first.
LEMMA PyInvStarts == PyInit => PyInv
<1> SUFFICES ASSUME PyInit PROVE PyInv
  OBVIOUS
<1>1. StringsInv /\ QueryInv
  BY StringsStart, QueryStarts DEF PyInit
<1>2. /\ method \in Methods /\ pyPc = "idle" /\ refs = None /\ slots = None
      /\ next = 1 /\ given = "NULL" /\ exception = FALSE /\ Asleep
  BY DEF PyInit, Init, Query!Init, Asleep
<1>3. Phases
  BY <1>2 DEF Phases
<1>4. Objects
  BY <1>2 DEF Objects
<1>5. Filling
  BY <1>2 DEF Filling
<1> QED BY <1>1, <1>3, <1>4, <1>5 DEF PyInv, MethodInv

\* In all states.
LEMMA PyInvHolds == PySpec => []PyInv
<1> QED BY PyInvStarts, PyInvKept, PTL DEF PySpec

\* What is known makes the objects those there should be.
LEMMA TypesKnown ==
  ASSUME PyInv
  PROVE  PyTypeOK
<1>1. TypeOK
  BY DEF PyInv, StringsInv
<1>2. /\ method \in Methods
      /\ pyPc \in {"idle", "parse", "wrapper", "call", "library", "fill",
                   "free", "returned", "crashed"}
      /\ given \in {"NULL", "object"}
      /\ exception \in BOOLEAN
      /\ next \in Nat \ {0}
  BY DEF PyInv, MethodInv, Phases, Objects
<1>3. \/ refs = None /\ slots = None
      \/ refs = Owned(slots)
  BY <1>2 DEF PyInv, MethodInv, Objects
<1>4. /\ \A o \in DOMAIN refs : refs[o] > 0
      /\ \A k \in DOMAIN slots : Item(slots[k]) \in DOMAIN refs
  BY <1>3, OwnedIsTheResult
<1> QED BY <1>1, <1>2, <1>4 DEF PyTypeOK

\* It makes methods return cleanly, at every point of one.
LEMMA ReturnsKnown ==
  ASSUME PyInv
  PROVE  MethodsReturnCleanly
<1>1. ResultOwnsTheHeap
  BY StringsSafe DEF PyInv
<1>2. SUFFICES ASSUME pyPc = "returned"
               PROVE  /\ given = "NULL" <=> exception
                      /\ OnlyTheResult(refs, slots, ~exception)
                      /\ heap = {} /\ ~block
  BY <1>1 DEF MethodsReturnCleanly
<1>3. /\ Asleep /\ exception \in BOOLEAN /\ (given = "NULL" <=> exception)
      /\ IF exception THEN refs = None /\ slots = None ELSE refs = Owned(slots)
  BY <1>2 DEF PyInv, MethodInv, Phases, Objects
<1>4. heap = {} /\ ~block
  <2>1. pc = "idle" /\ step = "idle"
    BY <1>3 DEF Asleep
  <2>2. heap = {}
    BY <1>1, <2>1 DEF ResultOwnsTheHeap
  <2>3. ~block
    BY <2>1 DEF PyInv, QueryInv, Asking
  <2> QED BY <2>2, <2>3
<1>5. OnlyTheResult(refs, slots, ~exception)
  <2>1. CASE exception = TRUE
    <3>1. (~exception) = FALSE
      BY <2>1
    <3>2. refs = None /\ slots = None
      BY <1>3, <2>1
    <3> QED BY <3>1, <3>2, OwnedIsTheResult
  <2>2. CASE exception = FALSE
    <3>1. (~exception) = TRUE
      BY <2>2
    <3>2. refs = Owned(slots)
      BY <1>3, <2>2
    <3> QED BY <3>1, <3>2, OwnedIsTheResult
  <2> QED BY <1>3, <2>1, <2>2
<1> QED BY <1>3, <1>4, <1>5

\* It makes a list or a dict hold what the library gave.
LEMMA AnswerKnown ==
  ASSUME PyInv
  PROVE  ResultIsTheAnswer
<1>1. SUFFICES ASSUME pyPc = "free", exception = FALSE
               PROVE  ResultIsTheAnswer
  BY DEF PyInv, MethodInv, Phases, ResultIsTheAnswer
<1>2. /\ Answered /\ next \in Nat \ {0} /\ next = Count + 1
      /\ Holds(next - 1)
  BY <1>1 DEF PyInv, MethodInv, Phases, Objects, Filling
<1>3. Count \in Nat /\ next - 1 = Count
  BY <1>1, <1>2, Counts
<1>4. Holds(Count)
  BY <1>2, <1>3
<1>5. CASE method = "cmdline"
  <2>1. DOMAIN tokens = 1 .. Count /\ slots = [i \in 1 .. Count |-> i]
    BY <1>1, <1>2, <1>4, <1>5, Counts DEF Holds
  <2> QED BY <1>5, <2>1 DEF ResultIsTheAnswer
<1>6. CASE method = "environ"
  <2>1. DOMAIN env = 1 .. Count /\ env # NULL
    BY <1>1, <1>2, <1>6, Counts
  <2>2. Valued(Count) = {i \in DOMAIN env : env[i].value # NULL}
    BY <2>1 DEF Valued
  <2> QED BY <1>4, <1>6, <2>1, <2>2 DEF Holds, ResultIsTheAnswer
<1>7. CASE method = "list_pids"
  <2>1. DOMAIN out = 1 .. Count /\ slots = [i \in 1 .. Count |-> i]
    BY <1>1, <1>2, <1>4, <1>7, Counts DEF Holds
  <2> QED BY <1>7, <2>1 DEF ResultIsTheAnswer
<1> QED BY <1>2, <1>5, <1>6, <1>7 DEF Answered, Containers, TextMethods

-----------------------------------------------------------------------------
\* Types hold, and the fill loop of the splitting fits the array that the
\* counting loop sized (bindings/python/src/proc.c, algo.c:54-81).
THEOREM TypesAreRight == PySpec => []PyTypeOK
<1>1. PyInv => PyTypeOK
  BY TypesKnown
<1> QED BY <1>1, PyInvHolds, PTL

\* Whatever the other process lets the reads see and however they are chunked,
\* a command line or an environment that is read without a failed allocation
\* is the file, byte for byte (linux/proc.c:55-110, algo.c:54-81, 115-149).
THEOREM NoByteIsLost == PySpec => []StringsAreTheFile
<1>1. PyInv => StringsAreTheFile
  BY StringsSafe DEF PyInv
<1> QED BY <1>1, PyInvHolds, PTL

\* An answer about a process is about one process that had the ID during the
\* call, whichever processes start and exit between the steps
\* (linux/proc.c:165-292, 337-408).
THEOREM OneProcessAnswers == PySpec => []AnswersAreOfTheProcess
<1>1. PyInv => AnswersAreOfTheProcess
  BY DEF PyInv, QueryInv
<1> QED BY <1>1, PyInvHolds, PTL

\* A list of processes holds those that were there all the time and none that
\* was never there, each once (linux/proc.c:296-335).
THEOREM ListsAreBracketed == PySpec => []ListIsBracketed
<1>1. PyInv => ListIsBracketed
  BY DEF PyInv, QueryInv
<1> QED BY <1>1, PyInvHolds, PTL

\* On every path through a method the memory of the library is freed, NULL
\* comes with an exception, and no object but the result and its items is
\* left (bindings/python/src/proc.c:26-64, 134-236, 310-338, error.c:4-43).
THEOREM MethodsLeaveOnlyResults == PySpec => []MethodsReturnCleanly
<1>1. PyInv => MethodsReturnCleanly
  BY ReturnsKnown
<1> QED BY <1>1, PyInvHolds, PTL

\* A list or a dict that is returned holds what the library gave, of variables
\* with one name the last (bindings/python/src/proc.c:48-60, 160-176,
\* 209-231).
THEOREM ResultsAreAnswers == PySpec => []ResultIsTheAnswer
<1>1. PyInv => ResultIsTheAnswer
  BY AnswerKnown
<1> QED BY <1>1, PyInvHolds, PTL
=============================================================================
