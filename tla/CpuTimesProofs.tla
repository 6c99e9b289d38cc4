-------------------------- MODULE CpuTimesProofs ---------------------------
(***************************************************************************)
(* For any CPUs, arrays and amounts of time: a call hands out a snapshot   *)
(* of the machine, and what the monitor computes from two of them agrees   *)
(* with the time that passed and the work that was done in between.        *)
(***************************************************************************)
EXTENDS CpuTimes, TLAPS

\* The kernel's books agree: the time that passed is spent in one of the
\* modes, and the work done is the user time.
Balanced(m) ==
  \A o \in Owners :
    /\ m.times[o]["user"] = m.worked[o]
    /\ m.times[o]["user"] + m.times[o]["idle"] + m.times[o]["iowait"]
         = m.lived[o]

\* Machine m is an earlier one than n.
Earlier(m, n) ==
  \A o \in Owners : m.lived[o] <= n.lived[o] /\ m.worked[o] <= n.worked[o]

Books ==
  /\ Balanced(Machine) /\ Balanced(before.seen) /\ Balanced(after.seen)
  /\ Earlier(before.seen, after.seen) /\ Earlier(after.seen, Machine)

Control ==
  /\ kind = "total" => maxCount = 1
  /\ pc \in {"open", "first"} => after.count = Untouched
  /\ pc = "lines" => kind = "per_cpu" /\ after.count # Untouched

\* The slots that have an owner hold its times.
Truthful(s) ==
  \A j \in DOMAIN s.owner :
    j \in DOMAIN s.slots /\ s.slots[j] = s.seen.times[s.owner[j]]

IInv == TypeOK /\ Control /\ Books /\ Truthful(before) /\ Truthful(after)

-----------------------------------------------------------------------------
\* A call starts from a snapshot of the right type that lists nobody.
LEMMA FreshOK ==
  ASSUME maxCount \in Nat, Machine \in MachineType
  PROVE  /\ SnapshotOK(Fresh(maxCount))
         /\ Fresh(maxCount).count = Untouched
         /\ Fresh(maxCount).status = "NONE"
         /\ Fresh(maxCount).seen = Machine
         /\ Truthful(Fresh(maxCount))
<1>1. 0 .. Untouched - 1 = {}
  BY DEF Untouched
<1>2. Fresh(maxCount).owner \in [0 .. Fresh(maxCount).count - 1 -> Owners]
  BY <1>1 DEF Fresh
<1> QED
  BY <1>1, <1>2
     DEF Fresh, SnapshotOK, Truthful, Statuses, Times, Fields, Untouched

\* So does the clearing of the caller's array.
LEMMA ClearedOK ==
  ASSUME IInv, pc = "first"
  PROVE  /\ SnapshotOK(Cleared) /\ Truthful(Cleared)
         /\ Cleared.seen = Machine /\ Cleared.count = 0
         /\ Cleared.status = after.status
         /\ Cleared.slots = [j \in 0 .. maxCount - 1 |-> Zero]
<1>1. 0 .. Untouched - 1 = {} /\ 0 .. 0 - 1 = {}
  BY DEF Untouched
<1>2. /\ after.count = Untouched /\ maxCount \in Nat
      /\ Machine \in MachineType /\ SnapshotOK(after)
  BY DEF IInv, TypeOK, Control
<1>3. after \in [status : Statuses, count : {Untouched} \cup 0 .. maxCount,
                 slots : [0 .. maxCount - 1 -> [Fields -> Int]],
                 owner : [{} -> Owners], seen : MachineType]
  BY <1>1, <1>2 DEF SnapshotOK
<1>4. [j \in 0 .. maxCount - 1 |-> Zero] \in [0 .. maxCount - 1 -> [Fields -> Int]]
  BY DEF Zero, Times
<1> DEFINE zeroes == [j \in 0 .. maxCount - 1 |-> Zero]
           machineNow == Machine
<1>5. Cleared = [after EXCEPT !.count = 0, !.slots = zeroes,
                              !.seen = machineNow]
  BY DEF Cleared
<1>6. machineNow \in MachineType /\ 0 \in {Untouched} \cup 0 .. maxCount
  BY <1>2
<1> HIDE DEF zeroes, machineNow
<1>7. /\ Cleared.seen = machineNow /\ Cleared.count = 0
      /\ Cleared.slots = zeroes /\ Cleared.owner = after.owner
      /\ Cleared.status = after.status
      /\ Cleared \in [status : Statuses, count : {Untouched} \cup 0 .. maxCount,
                      slots : [0 .. maxCount - 1 -> [Fields -> Int]],
                      owner : [{} -> Owners], seen : MachineType]
  <2>1. zeroes \in [0 .. maxCount - 1 -> [Fields -> Int]]
    BY <1>4 DEF zeroes
  <2> QED BY <1>3, <1>5, <1>6, <2>1
<1> QED BY <1>1, <1>3, <1>7 DEF SnapshotOK, Truthful, zeroes, machineNow

\* A return that only sets the status hands out the slots as they are.
LEMMA StatusOK ==
  ASSUME NEW s, SnapshotOK(s), Truthful(s), NEW code \in Statuses
  PROVE  LET t == [s EXCEPT !.status = code]
         IN /\ SnapshotOK(t) /\ Truthful(t) /\ t.seen = s.seen
            /\ t.count = s.count /\ t.status = code
            /\ t.slots = s.slots /\ t.owner = s.owner
<1> DEFINE t == [s EXCEPT !.status = code]
<1>1. s \in [status : Statuses, count : {Untouched} \cup 0 .. maxCount,
             slots : [0 .. maxCount - 1 -> [Fields -> Int]],
             owner : [0 .. s.count - 1 -> Owners], seen : MachineType]
  BY DEF SnapshotOK
<1>2. /\ t.status = code /\ t.count = s.count /\ t.slots = s.slots
      /\ t.owner = s.owner /\ t.seen = s.seen
  BY <1>1
<1>3. t \in [status : Statuses, count : {Untouched} \cup 0 .. maxCount,
             slots : [0 .. maxCount - 1 -> [Fields -> Int]],
             owner : [0 .. s.count - 1 -> Owners], seen : MachineType]
  BY <1>1
<1> QED BY <1>2, <1>3 DEF SnapshotOK, Truthful

-----------------------------------------------------------------------------
\* Nothing the kernel does unbalances its books or turns time back.
LEMMA KernelKeepsBooks ==
  ASSUME Machine \in MachineType, Balanced(Machine), KernelStep
  PROVE  /\ Machine' \in MachineType
         /\ Balanced(Machine)'
         /\ Earlier(Machine, Machine')
         /\ UNCHANGED <<monitor, pc, todo, before, after>>
<1>1. /\ online \in SUBSET Cpus /\ times \in [Owners -> [Fields -> Nat]]
      /\ lived \in [Owners -> Nat] /\ worked \in [Owners -> Nat]
  BY DEF Machine, MachineType
<1>2. \A o \in Owners :
        /\ times[o]["user"] = worked[o]
        /\ times[o]["user"] + times[o]["idle"] + times[o]["iowait"] = lived[o]
  BY DEF Machine, Balanced
<1>3. SUFFICES
        /\ online' \in SUBSET Cpus /\ times' \in [Owners -> [Fields -> Nat]]
        /\ lived' \in [Owners -> Nat] /\ worked' \in [Owners -> Nat]
        /\ \A o \in Owners :
             /\ times'[o]["user"] = worked'[o]
             /\ times'[o]["user"] + times'[o]["idle"] + times'[o]["iowait"]
                  = lived'[o]
             /\ lived[o] <= lived'[o] /\ worked[o] <= worked'[o]
        /\ UNCHANGED <<monitor, pc, todo, before, after>>
  BY DEF Machine, MachineType, Balanced, Earlier
<1>4. PICK c \in Cpus :
        \/ \E mode \in Modes : Tick(c, mode)
        \/ Reclassify(c, "iowait", "idle")
        \/ Reclassify(c, "idle", "iowait")
        \/ GoOffline(c)
        \/ GoOnline(c)
  BY DEF KernelStep
<1>5. ASSUME NEW mode \in Modes, Tick(c, mode)
      PROVE  <1>3!1
  BY <1>1, <1>2, <1>5 DEF Tick, Modes, Fields
<1>6. CASE Reclassify(c, "iowait", "idle")
  BY <1>1, <1>2, <1>6 DEF Reclassify, Fields, Owners
<1>7. CASE Reclassify(c, "idle", "iowait")
  BY <1>1, <1>2, <1>7 DEF Reclassify, Fields, Owners
<1>8. CASE GoOffline(c) \/ GoOnline(c)
  BY <1>1, <1>2, <1>8 DEF GoOffline, GoOnline, account
<1> QED BY <1>4, <1>5, <1>6, <1>7, <1>8

\* Time only goes forward, through any number of snapshots.
LEMMA EarlierIsTransitive ==
  ASSUME NEW m \in MachineType, NEW n \in MachineType, NEW p \in MachineType,
         Earlier(m, n), Earlier(n, p)
  PROVE  Earlier(m, p) /\ Earlier(p, p)
BY DEF Earlier, MachineType

\* The initial books balance, and the first two snapshots are empty.
LEMMA InitOK == Init => IInv
<1> SUFFICES ASSUME Init
             PROVE  IInv
  OBVIOUS
<1>1. Machine \in MachineType /\ Balanced(Machine)
  BY DEF Init, Machine, MachineType, Balanced, Zero, Times, Fields
<1>2. maxCount \in Nat /\ (kind = "total" => maxCount = 1)
  BY SizesAreNatural DEF Init
<1>3. /\ SnapshotOK(before) /\ SnapshotOK(after)
      /\ Truthful(before) /\ Truthful(after)
      /\ before.seen = Machine /\ after.seen = Machine
  BY <1>1, <1>2, FreshOK DEF Init
<1>4. TypeOK
  BY <1>1, <1>2, <1>3, BoundsAreNatural DEF Init, TypeOK
<1>5. Books
  BY <1>1, <1>3, EarlierIsTransitive DEF Books, Earlier, MachineType
<1> QED BY <1>2, <1>3, <1>4, <1>5 DEF IInv, Control, Init

\* A step of a call that leaves the kernel and the monitor alone and fills
\* the latest snapshot truthfully, from the same moment or a later one,
\* keeps the invariant.
LEMMA FillingKeepsOK ==
  ASSUME IInv, NEW s, SnapshotOK(s), Truthful(s), after' = s,
         UNCHANGED <<machine, monitor>>,
         \/ before' = before /\ (s.seen = after.seen \/ s.seen = Machine)
         \/ before' = after /\ s.seen = Machine,
         pc' \in {"idle", "open", "first", "lines"}, todo' \in SUBSET Cpus,
         Control'
  PROVE  IInv'
<1>1. /\ UNCHANGED <<maxCount, kind, changes>> /\ Machine' = Machine
      /\ online' = online
  BY DEF machine, monitor, account, Machine
<1>2. /\ Machine \in MachineType /\ before.seen \in MachineType
      /\ after.seen \in MachineType /\ s.seen \in MachineType
  BY DEF IInv, TypeOK, SnapshotOK
<1>3. TypeOK'
  BY <1>1 DEF IInv, TypeOK, SnapshotOK
<1>4. Truthful(before)' /\ Truthful(after)'
  BY DEF IInv, Truthful
<1>5. Books'
  <2>1. /\ Balanced(Machine) /\ Balanced(before.seen) /\ Balanced(after.seen)
        /\ Earlier(before.seen, after.seen) /\ Earlier(after.seen, Machine)
    BY DEF IInv, Books
  <2>2. Earlier(before.seen, Machine) /\ Earlier(Machine, Machine)
    BY <1>2, <2>1, EarlierIsTransitive
  <2>3. /\ Balanced(before'.seen) /\ Balanced(s.seen)
        /\ Earlier(before'.seen, s.seen) /\ Earlier(s.seen, Machine)
    BY <2>1, <2>2
  <2>4. /\ Books' <=> /\ Balanced(Machine') /\ Balanced(before'.seen)
                      /\ Balanced(s.seen) /\ Earlier(before'.seen, s.seen)
                      /\ Earlier(s.seen, Machine')
    BY DEF Books, Balanced, Earlier
  <2> QED BY <1>1, <2>1, <2>3, <2>4
<1> QED BY <1>3, <1>4, <1>5 DEF IInv

\* So does a return.
LEMMA ReturnOK ==
  ASSUME IInv, NEW s, SnapshotOK(s), Truthful(s), Return(s),
         s.seen = after.seen \/ s.seen = Machine
  PROVE  IInv'
<1>1. /\ after' = s /\ pc' = "idle" /\ todo' = {} /\ before' = before
      /\ UNCHANGED <<machine, monitor>>
  BY DEF Return
<1>2. Control'
  BY <1>1 DEF IInv, Control, monitor
<1> QED BY <1>1, <1>2, FillingKeepsOK

\* A line that found space is stored in the next slot, under its owner.
LEMMA StoreOK ==
  ASSUME IInv, NEW c \in Cpus, StoreLine(c)
  PROVE  LET n == after.count
         IN /\ SnapshotOK(after') /\ Truthful(after')
            /\ n \in 0 .. maxCount - 1 /\ after'.count = n + 1
            /\ after'.seen = after.seen /\ after'.status = after.status
            /\ after'.slots[n] = after.seen.times[c]
            /\ after'.owner \in [0 .. n -> Owners] /\ after'.owner[n] = c
            /\ \A i \in 0 .. n - 1 : after'.owner[i] = after.owner[i]
            /\ \A i \in 0 .. maxCount - 1 :
                 i # n => after'.slots[i] = after.slots[i]
<1> DEFINE n == after.count
           line == after.seen.times[c]
           newSlots == Extended(after.slots, n, line)
           newOwner == Extended(after.owner, n, c)
<1>1. /\ maxCount \in Nat /\ n < maxCount /\ n # Untouched
      /\ after \in [status : Statuses, count : {Untouched} \cup 0 .. maxCount,
                    slots : [0 .. maxCount - 1 -> [Fields -> Int]],
                    owner : [0 .. n - 1 -> Owners], seen : MachineType]
  BY DEF IInv, TypeOK, Control, SnapshotOK, StoreLine, HasSpace
<1>2. /\ n \in 0 .. maxCount - 1 /\ n \in Nat
      /\ n + 1 \in {Untouched} \cup 0 .. maxCount
  BY <1>1
<1>3. c \in Owners /\ line \in [Fields -> Int]
  BY <1>1 DEF MachineType, Owners
<1>0. /\ after.slots \in [0 .. maxCount - 1 -> [Fields -> Int]]
      /\ after.owner \in [0 .. n - 1 -> Owners]
  BY <1>1
<1> HIDE DEF n, line
<1>4. /\ newSlots \in [0 .. maxCount - 1 -> [Fields -> Int]]
      /\ newSlots[n] = line
      /\ \A i \in 0 .. maxCount - 1 : i # n => newSlots[i] = after.slots[i]
  <2>1. DOMAIN after.slots \cup {n} = 0 .. maxCount - 1
    BY <1>2, <1>0
  <2> QED BY <1>2, <1>3, <1>0, <2>1 DEF newSlots, Extended
<1>5. /\ newOwner \in [0 .. n -> Owners] /\ newOwner[n] = c
      /\ \A i \in 0 .. n - 1 : newOwner[i] = after.owner[i]
  <2>1. DOMAIN after.owner \cup {n} = 0 .. n
    BY <1>2, <1>0
  <2> QED BY <1>2, <1>3, <1>0, <2>1 DEF newOwner, Extended
<1>6. after' = [after EXCEPT !.slots = newSlots, !.owner = newOwner,
                             !.count = n + 1]
  BY <1>1 DEF StoreLine, newSlots, newOwner, n, line
<1> HIDE DEF newSlots, newOwner
<1>7. /\ after'.count = n + 1 /\ after'.seen = after.seen
      /\ after'.status = after.status /\ after'.slots = newSlots
      /\ after'.owner = newOwner
      /\ after' \in [status : Statuses, count : {Untouched} \cup 0 .. maxCount,
                     slots : [0 .. maxCount - 1 -> [Fields -> Int]],
                     owner : [0 .. n -> Owners], seen : MachineType]
  BY <1>1, <1>2, <1>4, <1>5, <1>6
<1>8. SnapshotOK(after')
  <2>1. after'.count - 1 = n
    BY <1>2, <1>7
  <2> QED BY <1>7, <2>1 DEF SnapshotOK
<1>9. Truthful(after')
  <2>1. Truthful(after)
    BY DEF IInv
  <2>2. /\ DOMAIN after'.slots = 0 .. maxCount - 1
        /\ DOMAIN after'.owner = 0 .. n
        /\ DOMAIN after.owner = 0 .. n - 1
    BY <1>4, <1>5, <1>7, <1>0
  <2>3. ASSUME NEW j \in 0 .. n
        PROVE  /\ j \in 0 .. maxCount - 1
               /\ after'.slots[j] = after'.seen.times[after'.owner[j]]
    <3>1. j \in 0 .. maxCount - 1
      BY <1>1, <1>2, <2>3
    <3>2. CASE j = n
      BY <1>4, <1>5, <1>7, <3>1, <3>2 DEF line
    <3>3. CASE j # n
      <4>1. j \in 0 .. n - 1
        BY <1>2, <2>3, <3>3
      <4>2. after.slots[j] = after.seen.times[after.owner[j]]
        BY <2>1, <2>2, <4>1 DEF Truthful
      <4> QED BY <1>4, <1>5, <1>7, <3>1, <3>3, <4>1, <4>2
    <3> QED BY <3>2, <3>3, <3>1
  <2> QED BY <2>2, <2>3 DEF Truthful
<1> QED BY <1>2, <1>4, <1>5, <1>7, <1>8, <1>9 DEF n, line

\* The total has one slot, filled from the first line.
LEMMA TotalOK ==
  ASSUME IInv, pc = "first", maxCount = 1
  PROVE  LET s == [Cleared EXCEPT !.count = 1,
                                  !.slots = [j \in {0} |-> times[All]],
                                  !.owner = [j \in {0} |-> All]]
         IN /\ SnapshotOK(s) /\ Truthful(s) /\ s.seen = Machine
            /\ s.count = 1 /\ s.owner = [j \in {0} |-> All]
            /\ s.slots = [j \in {0} |-> Machine.times[All]]
<1> DEFINE slot == [j \in {0} |-> times[All]]
           own == [j \in {0} |-> All]
           s == [Cleared EXCEPT !.count = 1, !.slots = slot, !.owner = own]
<1>1. 0 .. 0 = {0} /\ 1 - 1 = 0 /\ 0 .. 1 - 1 = {0}
  OBVIOUS
<1>2. Machine \in MachineType /\ times = Machine.times
  BY DEF IInv, TypeOK, Machine
<1>3. slot \in [{0} -> [Fields -> Int]] /\ own \in [{0} -> Owners]
  BY <1>2 DEF MachineType, Owners
<1>4. /\ Cleared \in [status : Statuses, count : {Untouched} \cup 0 .. maxCount,
                      slots : [0 .. maxCount - 1 -> [Fields -> Int]],
                      owner : [0 .. Cleared.count - 1 -> Owners],
                      seen : MachineType]
      /\ Cleared.seen = Machine
  BY ClearedOK DEF SnapshotOK
<1>5. slot[0] = times[All] /\ own[0] = All
  OBVIOUS
<1>6. 1 \in {Untouched} \cup 0 .. maxCount
  OBVIOUS
<1> HIDE DEF slot, own
<1>7. /\ s.count = 1 /\ s.slots = slot /\ s.owner = own /\ s.seen = Machine
      /\ s \in [status : Statuses, count : {Untouched} \cup 0 .. maxCount,
                slots : [{0} -> [Fields -> Int]],
                owner : [{0} -> Owners], seen : MachineType]
  BY <1>3, <1>4, <1>6
<1>8. SnapshotOK(s)
  BY <1>1, <1>7 DEF SnapshotOK
<1>9. Truthful(s)
  <2>1. DOMAIN s.owner = {0} /\ DOMAIN s.slots = {0}
    BY <1>7
  <2> QED BY <1>2, <1>5, <1>7, <2>1 DEF Truthful
<1> QED BY <1>2, <1>7, <1>8, <1>9 DEF slot, own

-----------------------------------------------------------------------------
\* Every step of the kernel and of a call keeps the invariant.
LEMMA StepOK == IInv /\ [Next]_vars => IInv'
<1> SUFFICES ASSUME IInv, [Next]_vars
             PROVE  IInv'
  OBVIOUS
<1>0. /\ maxCount \in Nat /\ Machine \in MachineType /\ todo \in SUBSET Cpus
      /\ SnapshotOK(after) /\ Truthful(after) /\ online \in SUBSET Cpus
  BY DEF IInv, TypeOK, Machine, MachineType
<1>1. CASE KernelStep
  <2>1. /\ Machine' \in MachineType /\ Balanced(Machine)'
        /\ Earlier(Machine, Machine')
        /\ UNCHANGED <<monitor, pc, todo, before, after>>
    BY <1>1, KernelKeepsBooks DEF IInv, TypeOK, Books
  <2>2. changes' \in 0 .. MaxChanges
    BY <1>1, BoundsAreNatural
       DEF KernelStep, Tick, Reclassify, GoOffline, GoOnline, IInv, TypeOK
  <2>3. TypeOK'
    BY <2>1, <2>2 DEF IInv, TypeOK, SnapshotOK, monitor
  <2>4. Books'
    <3>1. Earlier(after.seen, Machine) /\ after.seen \in MachineType
      BY DEF IInv, Books, TypeOK, SnapshotOK
    <3>2. Earlier(after.seen, Machine')
      BY <1>0, <2>1, <3>1, EarlierIsTransitive
    <3>3. /\ Balanced(before.seen)' /\ Balanced(after.seen)'
          /\ Earlier(before.seen, after.seen)'
      BY <2>1 DEF IInv, Books, Balanced, Earlier
    <3>4. Earlier(after.seen, Machine)'
      BY <2>1, <3>2 DEF Earlier
    <3> QED BY <2>1, <3>3, <3>4 DEF Books
  <2>5. Control' /\ Truthful(before)' /\ Truthful(after)'
    BY <2>1 DEF IInv, Control, Truthful, monitor
  <2> QED BY <2>3, <2>4, <2>5 DEF IInv
<1>2. CASE Call
  <2>1. Control'
    BY <1>0, <1>2, FreshOK DEF Call, Control, IInv, monitor
  <2> QED BY <1>0, <1>2, <2>1, FreshOK, FillingKeepsOK DEF Call
<1>3. CASE OpenFails \/ NoSlots \/ ShortLine \/ NoSpace
  <2>1. PICK code \in Statuses : Return([after EXCEPT !.status = code])
    BY <1>3 DEF OpenFails, NoSlots, ShortLine, NoSpace, Statuses
  <2> QED BY <1>0, <2>1, StatusOK, ReturnOK
<1>4. CASE Open
  <2>1. Control'
    BY <1>4 DEF Open, Control, IInv, monitor
  <2> QED BY <1>0, <1>4, <2>1, FillingKeepsOK DEF Open
<1>5. CASE SkipFirstFails
  <2>1. Return([Cleared EXCEPT !.status = "MALFORMED"]) /\ pc = "first"
    BY <1>5 DEF SkipFirstFails
  <2>2. "MALFORMED" \in Statuses
    BY DEF Statuses
  <2> QED BY <2>1, <2>2, ClearedOK, StatusOK, ReturnOK
<1>6. CASE ScanTotal
  <2>1. pc = "first" /\ maxCount = 1
    BY <1>6 DEF ScanTotal, IInv, Control
  <2>2. CASE Return([Cleared EXCEPT !.status = "MALFORMED"])
    <3>1. "MALFORMED" \in Statuses
      BY DEF Statuses
    <3> QED BY <2>1, <2>2, <3>1, ClearedOK, StatusOK, ReturnOK
  <2>3. CASE Return([Cleared EXCEPT !.count = 1,
                                    !.slots = [j \in {0} |-> times[All]],
                                    !.owner = [j \in {0} |-> All]])
    <3> DEFINE s == [Cleared EXCEPT !.count = 1,
                                    !.slots = [j \in {0} |-> times[All]],
                                    !.owner = [j \in {0} |-> All]]
    <3>1. SnapshotOK(s) /\ Truthful(s) /\ s.seen = Machine
      BY <1>0, <2>1, TotalOK
    <3> QED BY <2>3, <3>1, ReturnOK
  <2> QED BY <1>6, <2>2, <2>3 DEF ScanTotal
<1>7. CASE SkipFirst
  <2>1. /\ pc = "first" /\ after' = Cleared /\ todo' = online /\ pc' = "lines"
        /\ kind = "per_cpu" /\ UNCHANGED <<machine, monitor, before>>
    BY <1>7 DEF SkipFirst
  <2>2. Control'
    BY <2>1, ClearedOK DEF Control, Untouched, monitor
  <2> QED BY <1>0, <2>1, <2>2, ClearedOK, FillingKeepsOK
<1>8. ASSUME NEW c \in Cpus, StoreLine(c)
      PROVE  IInv'
  <2>1. /\ pc = "lines" /\ todo' = todo \ {c}
        /\ UNCHANGED <<machine, monitor, pc, before>>
    BY <1>8 DEF StoreLine
  <2>2. /\ SnapshotOK(after') /\ Truthful(after') /\ after'.seen = after.seen
        /\ after.count \in 0 .. maxCount - 1
        /\ after'.count = after.count + 1
    BY <1>8, StoreOK
  <2>3. Control'
    BY <1>0, <2>1, <2>2 DEF Control, IInv, Untouched, monitor
  <2> QED BY <1>0, <2>1, <2>2, <2>3, FillingKeepsOK
<1>9. CASE LinesEnd
  BY <1>0, <1>9, ReturnOK DEF LinesEnd
<1>10. CASE UNCHANGED vars
  BY <1>10
     DEF vars, machine, account, monitor, IInv, TypeOK, Control, Books,
         Truthful, Machine, SnapshotOK, Balanced, Earlier
<1> QED
  BY <1>1, <1>2, <1>3, <1>4, <1>5, <1>6, <1>7, <1>8, <1>9, <1>10
     DEF Next, CallStep

\* The kernel's books, and the truth of the slots, at every moment.
THEOREM Invariance == Spec => []IInv
BY InitOK, StepOK, PTL DEF Spec

\* However the CPUs come and go between two calls and during one, nothing is
\* written outside the caller's array.
THEOREM TypeCorrect == Spec => []TypeOK
<1>1. IInv => TypeOK
  BY DEF IInv
<1> QED BY <1>1, Invariance, PTL

-----------------------------------------------------------------------------
\* Two slots of one owner: the user time that was added is its work, no mode
\* shows less than what was added to it, and nothing else was added.
LEMMA PairAddsUp ==
  ASSUME IInv, NEW j \in 0 .. maxCount - 1, Paired(j)
  PROVE  LET d == DeltaOf(j)
         IN /\ d \in [Fields -> Nat]
            /\ Lived(j) \in Nat /\ Worked(j) \in Nat
            /\ d["user"] = Worked(j)
            /\ d["user"] + d["idle"] + d["iowait"] >= Lived(j)
            /\ NothingFell(j) =>
                 d["user"] + d["idle"] + d["iowait"] = Lived(j)
<1> DEFINE o == after.owner[j]
           old == before.seen.times[o]
           new == after.seen.times[o]
<1>1. /\ before.owner[j] = o /\ o \in Owners
      /\ before.seen \in MachineType /\ after.seen \in MachineType
  BY DEF IInv, TypeOK, SnapshotOK, Paired
<1>2. before.slots[j] = old /\ after.slots[j] = new
  BY <1>1 DEF IInv, Truthful, Paired
<1>3. old \in [Fields -> Nat] /\ new \in [Fields -> Nat]
  BY <1>1 DEF MachineType
<1>4. /\ before.seen.lived[o] \in Nat /\ after.seen.lived[o] \in Nat
      /\ before.seen.worked[o] \in Nat /\ after.seen.worked[o] \in Nat
      /\ before.seen.lived[o] <= after.seen.lived[o]
      /\ before.seen.worked[o] <= after.seen.worked[o]
      /\ old["user"] = before.seen.worked[o]
      /\ new["user"] = after.seen.worked[o]
      /\ old["user"] + old["idle"] + old["iowait"] = before.seen.lived[o]
      /\ new["user"] + new["idle"] + new["iowait"] = after.seen.lived[o]
  BY <1>1 DEF MachineType, IInv, Books, Balanced, Earlier
<1>5. /\ Lived(j) = after.seen.lived[o] - before.seen.lived[o]
      /\ Worked(j) = after.seen.worked[o] - before.seen.worked[o]
  BY <1>1 DEF Lived, Worked
<1> HIDE DEF o, old, new
<1>6. DeltaOf(j) = [f \in Fields |->
                     IF new[f] > old[f] THEN new[f] - old[f] ELSE 0]
  BY <1>2 DEF DeltaOf, Delta
<1>7. NothingFell(j) => \A f \in Fields : new[f] >= old[f]
  BY <1>2 DEF NothingFell
<1>8. {"user", "idle", "iowait"} \subseteq Fields
  BY DEF Fields
<1>9. \A f \in Fields : new[f] \in Nat /\ old[f] \in Nat
  BY <1>3
<1>10. DeltaOf(j) \in [Fields -> Nat]
  BY <1>6, <1>9
<1> QED BY <1>4, <1>5, <1>6, <1>7, <1>8, <1>9, <1>10

\* A larger factor makes a larger product.
LEMMA ProductIsMonotone ==
  ASSUME NEW a \in Nat, NEW b \in Nat, NEW c \in Nat, b <= c
  PROVE  a * b <= a * c
<1>1. PICK d \in Nat : c = b + d
  <2>1. c - b \in Nat /\ c = b + (c - b)
    OBVIOUS
  <2> QED BY <2>1
<1>2. a * (b + d) = a * b + a * d
  OBVIOUS
<1>3. a * d \in Nat /\ a * b \in Nat
  OBVIOUS
<1> QED BY <1>1, <1>2, <1>3

\* With any number of CPUs and however the kernel shifts its counts, the sum
\* of a delta is never short of the time that passed, and exact when no
\* counter went down.
THEOREM SumIsTime == Spec => []SumIsWallClock
<1>1. ASSUME IInv
      PROVE  SumIsWallClock
  BY <1>1, PairAddsUp DEF SumIsWallClock, Sum
<1> QED BY <1>1, Invariance, PTL

\* The utilization stays in range and never exceeds the share of the time
\* that was worked, exactly that share when no counter went down.
THEOREM RatioIsShare == Spec => []RatioIsBusyShare
<1>1. ASSUME IInv, NEW j \in 0 .. maxCount - 1, Paired(j)
      PROVE  LET ratio == Ratio(DeltaOf(j))
             IN /\ 0 <= ratio[1] /\ ratio[1] <= ratio[2] /\ 0 < ratio[2]
                /\ ratio[1] * Lived(j) <= Worked(j) * ratio[2]
                /\ NothingFell(j) => ratio[1] * Lived(j) = Worked(j) * ratio[2]
  <2> DEFINE d == DeltaOf(j)
             total == Sum(d)
             L == Lived(j)
             W == Worked(j)
  <2>1. /\ d["user"] \in Nat /\ d["idle"] \in Nat /\ d["iowait"] \in Nat
        /\ L \in Nat /\ W \in Nat /\ d["user"] = W /\ total >= L
        /\ NothingFell(j) => total = L
        /\ total = W + d["idle"] + d["iowait"] /\ total \in Nat
    BY <1>1, PairAddsUp DEF Sum, Fields
  <2>2. Ratio(d) = IF total = 0 THEN <<0, 1>> ELSE <<W, total>>
    BY <2>1 DEF Ratio
  <2>3. W * L <= W * total
    BY <2>1, ProductIsMonotone
  <2> HIDE DEF d, total, L, W
  <2>4. CASE total = 0
    <3>1. W = 0 /\ L = 0
      BY <2>1, <2>4
    <3>2. Ratio(d)[1] = 0 /\ Ratio(d)[2] = 1
      BY <2>2, <2>4
    <3>3. 0 * L = 0 /\ W * 1 = 0 /\ 0 * 0 = 0 /\ 0 * 1 = 0
      BY <3>1
    <3> QED BY <3>1, <3>2, <3>3 DEF d, L, W
  <2>5. CASE total # 0
    <3>1. Ratio(d)[1] = W /\ Ratio(d)[2] = total
      BY <2>2, <2>5
    <3>2. 0 <= W /\ W <= total /\ 0 < total
      BY <2>1, <2>5
    <3>3. NothingFell(j) => W * L = W * total
      BY <2>1
    <3> QED BY <2>3, <3>1, <3>2, <3>3 DEF d, L, W
  <2> QED BY <2>4, <2>5
<1>2. ASSUME IInv
      PROVE  RatioIsBusyShare
  BY <1>1, <1>2 DEF RatioIsBusyShare
<1> QED BY <1>2, Invariance, PTL

-----------------------------------------------------------------------------
\* The slots filled so far hold their owners' times, the others zeroes.
SlotsHold ==
  after.count # Untouched =>
    \A j \in DOMAIN after.slots :
      after.slots[j] = IF j < after.count
                         THEN after.seen.times[after.owner[j]]
                         ELSE Zero

\* They list the lowest CPUs online, in order.
InOrder ==
  kind = "per_cpu" =>
    /\ \A i, j \in DOMAIN after.owner :
         i < j => after.owner[i] < after.owner[j]
    /\ Listed(after) \subseteq after.seen.online
    /\ \A c \in Listed(after), d \in after.seen.online :
         d < c => d \in Listed(after)

\* A call under way has not failed, and the lines still to be read are those
\* of the CPUs not yet listed.
Reading ==
  /\ pc # "idle" => after.status = "NONE"
  /\ pc = "lines" => todo = after.seen.online \ Listed(after)

LInv == SlotsHold /\ InOrder /\ Reading /\ SlotsAreTheSnapshot

\* A snapshot without owners lists nobody.
LEMMA NobodyListed ==
  ASSUME NEW s, SnapshotOK(s), s.count = Untouched \/ s.count = 0
  PROVE  Listed(s) = {} /\ DOMAIN s.owner = {}
<1>1. 0 .. Untouched - 1 = {} /\ 0 .. 0 - 1 = {}
  BY DEF Untouched
<1>2. DOMAIN s.owner = 0 .. s.count - 1
  BY DEF SnapshotOK
<1> QED BY <1>1, <1>2 DEF Listed

\* A return that only sets the status, or nothing, hands out what was listed.
LEMMA ReturnLists ==
  ASSUME IInv, LInv, NEW s, Return(s),
         s.count = after.count, s.slots = after.slots,
         s.owner = after.owner, s.seen = after.seen,
         kind = "per_cpu" /\ after.count # Untouched =>
           /\ s.status = "NONE" => Listed(after) = after.seen.online
           /\ s.status = "MORE_DATA" =>
                after.count = maxCount /\ Listed(after) # after.seen.online
  PROVE  LInv'
<1>1. after' = s /\ pc' = "idle" /\ kind' = kind /\ maxCount' = maxCount
  BY DEF Return, monitor
<1>2. Listed(after)' = Listed(after)
  BY <1>1 DEF Listed
<1>3. SlotsHold' /\ InOrder' /\ Reading'
  BY <1>1, <1>2 DEF LInv, SlotsHold, InOrder, Reading
<1>4. SlotsAreTheSnapshot'
  BY <1>1, <1>2, <1>3 DEF SlotsAreTheSnapshot, SlotsHold, InOrder
<1> QED BY <1>3, <1>4 DEF LInv

\* A file that was opened but not read, or read no further than its first
\* line, lists nobody.
LEMMA NobodyYet ==
  ASSUME maxCount \in Nat, SnapshotOK(after'),
         after'.count = Untouched \/ after'.count = 0,
         after'.count = 0 =>
           after'.slots = [j \in 0 .. maxCount - 1 |-> Zero],
         pc' # "idle" => after'.status = "NONE",
         pc' = "lines" => todo' = after'.seen.online,
         pc' = "idle" /\ after'.count = 0 => after'.status = "MALFORMED"
  PROVE  LInv'
<1>1. Listed(after') = {} /\ DOMAIN after'.owner = {}
  BY NobodyListed
<1>2. SlotsHold'
  <2>1. SUFFICES ASSUME after'.count = 0, NEW j \in DOMAIN after'.slots
                 PROVE  after'.slots[j] = Zero /\ ~(j < 0)
    BY DEF SlotsHold
  <2>2. j \in 0 .. maxCount - 1
    BY <2>1
  <2> QED BY <2>1, <2>2
<1>3. InOrder'
  BY <1>1 DEF InOrder
<1>4. Reading'
  BY <1>1 DEF Reading
<1>5. SlotsAreTheSnapshot'
  BY <1>1, <1>2 DEF SlotsAreTheSnapshot, SlotsHold
<1> QED BY <1>2, <1>3, <1>4, <1>5 DEF LInv

\* The next line is that of the lowest CPU not listed: stored in the next
\* slot it keeps the list in order.
LEMMA StoreLists ==
  ASSUME IInv, LInv, NEW c \in Cpus, StoreLine(c)
  PROVE  LInv'
<1> DEFINE n == after.count
           seen == after.seen.online
<1>1. /\ pc = "lines" /\ pc' = "lines" /\ c \in todo /\ todo' = todo \ {c}
      /\ \A d \in todo : c <= d
      /\ kind = "per_cpu" /\ kind' = kind /\ maxCount \in Nat
      /\ n # Untouched
  BY DEF StoreLine, monitor, IInv, TypeOK, Control
<1>2. /\ SnapshotOK(after')
      /\ n \in 0 .. maxCount - 1 /\ after'.count = n + 1
      /\ after'.seen = after.seen /\ after'.status = after.status
      /\ after'.slots[n] = after.seen.times[c]
      /\ after'.owner \in [0 .. n -> Owners] /\ after'.owner[n] = c
      /\ \A i \in 0 .. n - 1 : after'.owner[i] = after.owner[i]
      /\ \A i \in 0 .. maxCount - 1 :
           i # n => after'.slots[i] = after.slots[i]
  BY StoreOK
<1>3. /\ DOMAIN after.owner = 0 .. n - 1 /\ DOMAIN after'.owner = 0 .. n
      /\ DOMAIN after.slots = 0 .. maxCount - 1
      /\ maxCount' = maxCount
      /\ DOMAIN after'.slots = 0 .. maxCount - 1
      /\ seen \subseteq Cpus /\ todo = seen \ Listed(after)
      /\ after.status = "NONE"
  <2>1. DOMAIN after.owner = 0 .. n - 1 /\ DOMAIN after.slots = 0 .. maxCount - 1
    BY DEF IInv, TypeOK, SnapshotOK
  <2>2. seen \subseteq Cpus
    BY DEF IInv, TypeOK, SnapshotOK, MachineType
  <2>3. maxCount' = maxCount
    BY DEF StoreLine, monitor
  <2>4. DOMAIN after'.slots = 0 .. maxCount - 1 /\ DOMAIN after'.owner = 0 .. n
    BY <1>2 DEF SnapshotOK
  <2> QED BY <1>1, <2>1, <2>2, <2>3, <2>4 DEF LInv, Reading
<1>4. Listed(after') = Listed(after) \cup {c}
  <2>1. n \in Nat /\ 0 .. n = 0 .. n - 1 \cup {n} /\ n \notin 0 .. n - 1
    BY <1>2
  <2>2. \A i \in 0 .. n - 1 : after'.owner[i] \in Listed(after)
    BY <1>2, <1>3 DEF Listed
  <2>3. \A x \in Listed(after) : \E i \in 0 .. n : after'.owner[i] = x
    BY <1>2, <1>3, <2>1 DEF Listed
  <2>4. Listed(after') = {after'.owner[i] : i \in 0 .. n}
    BY <1>3 DEF Listed
  <2>5. \A i \in 0 .. n : after'.owner[i] \in Listed(after) \cup {c}
    BY <1>2, <2>1, <2>2
  <2>6. c \in {after'.owner[i] : i \in 0 .. n}
    BY <1>2, <2>1
  <2> QED BY <2>3, <2>4, <2>5, <2>6
<1>5. SlotsHold'
  <2>1. \A j \in 0 .. maxCount - 1 :
          after.slots[j] = IF j < n THEN after.seen.times[after.owner[j]]
                                    ELSE Zero
    BY <1>1, <1>3 DEF LInv, SlotsHold
  <2>2. ASSUME NEW j \in 0 .. maxCount - 1
        PROVE  after'.slots[j] = IF j < n + 1
                                   THEN after'.seen.times[after'.owner[j]]
                                   ELSE Zero
    <3>1. CASE j = n
      BY <1>2, <3>1
    <3>2. CASE j < n
      <4>1. j \in 0 .. n - 1 /\ j # n /\ j < n + 1
        BY <1>2, <3>2
      <4> QED BY <1>2, <2>1, <3>2, <4>1
    <3>3. CASE j > n
      <4>1. j # n /\ ~(j < n) /\ ~(j < n + 1)
        BY <1>2, <3>3
      <4> QED BY <1>2, <2>1, <4>1
    <3> QED BY <1>2, <3>1, <3>2, <3>3
  <2> QED BY <1>2, <1>3, <2>2 DEF SlotsHold
<1>6. InOrder'
  <2>1. /\ \A i, j \in 0 .. n - 1 : i < j => after.owner[i] < after.owner[j]
        /\ Listed(after) \subseteq seen
        /\ \A x \in Listed(after), d \in seen : d < x => d \in Listed(after)
    BY <1>1, <1>3 DEF LInv, InOrder
  <2>2. \A x \in Listed(after) : x < c
    <3>1. c \in seen /\ c \notin Listed(after) /\ c \in Nat
      BY <1>1, <1>3, CpusAreNumbered
    <3>2. ASSUME NEW x \in Listed(after)
          PROVE  x < c
      <4>1. x \in Nat /\ x # c /\ ~(c < x)
        BY <1>3, <2>1, <3>1, <3>2, CpusAreNumbered
      <4> QED BY <3>1, <4>1
    <3> QED BY <3>2
  <2>3. ASSUME NEW i \in 0 .. n, NEW j \in 0 .. n, i < j
        PROVE  after'.owner[i] < after'.owner[j]
    <3>1. i \in 0 .. n - 1
      BY <1>2, <2>3
    <3>2. CASE j = n
      <4>1. after.owner[i] \in Listed(after)
        BY <1>3, <3>1 DEF Listed
      <4> QED BY <1>2, <2>2, <3>1, <3>2, <4>1
    <3>3. CASE j # n
      <4>1. j \in 0 .. n - 1
        BY <1>2, <3>3
      <4> QED BY <1>2, <2>1, <2>3, <3>1, <4>1
    <3> QED BY <3>2, <3>3
  <2>4. Listed(after') \subseteq seen
    BY <1>1, <1>3, <1>4, <2>1
  <2>5. ASSUME NEW x \in Listed(after'), NEW d \in seen, d < x
        PROVE  d \in Listed(after')
    <3>1. CASE x = c
      <4>1. d \notin todo
        <5>1. c \in Nat /\ d \in Nat
          BY <1>3, CpusAreNumbered
        <5> QED BY <1>1, <2>5, <3>1, <5>1
      <4> QED BY <1>3, <1>4, <4>1
    <3>2. CASE x # c
      BY <1>4, <2>1, <2>5, <3>2
    <3> QED BY <3>1, <3>2
  <2> QED BY <1>2, <1>3, <2>3, <2>4, <2>5 DEF InOrder
<1>7. Reading'
  <2>1. Listed(after)' = Listed(after')
    BY DEF Listed
  <2> QED BY <1>1, <1>2, <1>3, <1>4, <2>1 DEF Reading
<1>8. SlotsAreTheSnapshot'
  BY <1>1 DEF SlotsAreTheSnapshot
<1> QED BY <1>5, <1>6, <1>7, <1>8 DEF LInv

\* Every step keeps the listing invariant.
LEMMA ListingStep == IInv /\ LInv /\ [Next]_vars => LInv'
<1> SUFFICES ASSUME IInv, LInv, [Next]_vars
             PROVE  LInv'
  OBVIOUS
<1>0. /\ maxCount \in Nat /\ SnapshotOK(after) /\ Machine \in MachineType
      /\ Truthful(after)
  BY DEF IInv, TypeOK
<1>i. IInv'
  BY StepOK
<1>t. SnapshotOK(after') /\ maxCount' = maxCount /\ kind' = kind
  <2>1. maxCount' = maxCount /\ kind' = kind
    BY DEF Next, KernelStep, Tick, Reclassify, GoOffline, GoOnline, CallStep,
           Call, Return, OpenFails, Open, ScanTotal, NoSlots, SkipFirstFails,
           SkipFirst, ShortLine, StoreLine, NoSpace, LinesEnd, vars, monitor
  <2>2. SnapshotOK(after)'
    BY <1>i DEF IInv, TypeOK
  <2> QED BY <2>1, <2>2 DEF SnapshotOK
<1>1. CASE KernelStep \/ UNCHANGED vars
  <2>1. UNCHANGED <<after, pc, kind, maxCount, todo>>
    BY <1>1
       DEF KernelStep, Tick, Reclassify, GoOffline, GoOnline, vars, monitor
  <2> QED
    BY <2>1
       DEF LInv, SlotsHold, InOrder, Reading, SlotsAreTheSnapshot, Listed
<1>2. CASE Call
  <2>1. pc' = "open" /\ after' = Fresh(maxCount)
    BY <1>2 DEF Call
  <2>2. after'.count = Untouched /\ after'.status = "NONE"
    BY <1>0, <2>1, FreshOK
  <2> QED BY <1>0, <1>t, <2>1, <2>2, NobodyYet DEF Untouched
<1>3. CASE OpenFails \/ Open \/ NoSlots
  <2>1. after.count = Untouched /\ pc \in {"open", "first"}
    BY <1>3 DEF OpenFails, Open, NoSlots, IInv, Control
  <2>2. /\ after'.count = Untouched /\ pc' # "lines"
        /\ pc' # "idle" => after'.status = "NONE"
    <3>1. CASE Open
      BY <2>1, <3>1 DEF Open, LInv, Reading
    <3>2. CASE OpenFails \/ NoSlots
      <4>1. PICK code \in Statuses : Return([after EXCEPT !.status = code])
        BY <3>2 DEF OpenFails, NoSlots, Statuses
      <4> QED BY <1>0, <2>1, <4>1, StatusOK DEF Return
    <3> QED BY <1>3, <3>1, <3>2
  <2> QED BY <1>0, <1>t, <2>2, NobodyYet DEF Untouched
<1>4. CASE SkipFirstFails \/ (ScanTotal /\ after'.count # 1)
  <2>1. Return([Cleared EXCEPT !.status = "MALFORMED"]) /\ pc = "first"
    <3>1. CASE SkipFirstFails
      BY <3>1 DEF SkipFirstFails
    <3>2. CASE ScanTotal /\ after'.count # 1
      <4>1. pc = "first" /\ maxCount = 1
        BY <3>2 DEF ScanTotal, IInv, Control
      <4>2. [Cleared EXCEPT !.count = 1, !.slots = [j \in {0} |-> times[All]],
                            !.owner = [j \in {0} |-> All]].count = 1
        BY <4>1, TotalOK
      <4> QED BY <3>2, <4>1, <4>2 DEF ScanTotal, Return
    <3> QED BY <1>4, <3>1, <3>2
  <2>2. "MALFORMED" \in Statuses
    BY DEF Statuses
  <2>3. /\ after'.count = 0 /\ after'.status = "MALFORMED" /\ pc' = "idle"
        /\ after'.slots = [j \in 0 .. maxCount - 1 |-> Zero]
    BY <2>1, <2>2, ClearedOK, StatusOK DEF Return
  <2> QED BY <1>0, <1>t, <2>3, NobodyYet
<1>5. CASE ScanTotal /\ after'.count = 1
  <2>1. kind = "total" /\ pc = "first" /\ maxCount = 1
    BY <1>5 DEF ScanTotal, IInv, Control
  <2>2. Return([Cleared EXCEPT !.count = 1,
                               !.slots = [j \in {0} |-> times[All]],
                               !.owner = [j \in {0} |-> All]])
    <3>1. "MALFORMED" \in Statuses
      BY DEF Statuses
    <3> DEFINE t == [Cleared EXCEPT !.status = "MALFORMED"]
    <3>2. t.count = 0
      BY <2>1, <3>1, ClearedOK, StatusOK
    <3> HIDE DEF t
    <3>3. ~Return(t)
      BY <1>5, <3>2 DEF Return
    <3> QED BY <1>5, <3>3 DEF ScanTotal, t
  <2>3. /\ after'.seen = Machine /\ after'.count = 1 /\ pc' = "idle"
        /\ after'.owner = [j \in {0} |-> All]
        /\ after'.slots = [j \in {0} |-> Machine.times[All]]
    BY <2>1, <2>2, TotalOK DEF Return
  <2>4. SlotsHold'
    BY <2>3 DEF SlotsHold
  <2>5. InOrder' /\ Reading'
    BY <1>t, <2>1, <2>3 DEF InOrder, Reading
  <2>6. SlotsAreTheSnapshot'
    BY <1>t, <2>1, <2>4 DEF SlotsAreTheSnapshot, SlotsHold
  <2> QED BY <2>4, <2>5, <2>6 DEF LInv
<1>6. CASE SkipFirst
  <2>1. /\ pc = "first" /\ pc' = "lines" /\ after' = Cleared
        /\ todo' = online
    BY <1>6 DEF SkipFirst
  <2>2. /\ after'.count = 0 /\ after'.seen = Machine
        /\ after'.slots = [j \in 0 .. maxCount - 1 |-> Zero]
    BY <2>1, ClearedOK
  <2>3. after'.status = "NONE"
    BY <2>1, ClearedOK DEF LInv, Reading
  <2> QED BY <1>0, <1>t, <2>1, <2>2, <2>3, NobodyYet DEF Machine
<1>7. CASE ShortLine
  <2>1. Return([after EXCEPT !.status = "MALFORMED"])
    BY <1>7 DEF ShortLine
  <2>2. "MALFORMED" \in Statuses
    BY DEF Statuses
  <2> QED BY <1>0, <2>1, <2>2, StatusOK, ReturnLists
<1>8. CASE NoSpace
  <2>1. /\ Return([after EXCEPT !.status = "MORE_DATA"]) /\ pc = "lines"
        /\ todo # {} /\ ~(after.count < maxCount)
    BY <1>8 DEF NoSpace, HasSpace
  <2>2. "MORE_DATA" \in Statuses
    BY DEF Statuses
  <2>3. after.count # Untouched => after.count = maxCount
    BY <1>0, <2>1 DEF SnapshotOK
  <2>4. Listed(after) # after.seen.online
    BY <2>1 DEF LInv, Reading
  <2> QED BY <1>0, <2>1, <2>2, <2>3, <2>4, StatusOK, ReturnLists
<1>9. CASE LinesEnd
  <2>1. Return(after) /\ pc = "lines" /\ todo = {}
    BY <1>9 DEF LinesEnd
  <2>2. kind = "per_cpu" => Listed(after) = after.seen.online
    BY <2>1 DEF LInv, Reading, InOrder
  <2>3. after.status = "NONE"
    BY <2>1 DEF LInv, Reading
  <2> QED BY <2>1, <2>2, <2>3, ReturnLists
<1>10. ASSUME NEW c \in Cpus, StoreLine(c)
       PROVE  LInv'
  BY <1>10, StoreLists
<1> QED
  BY <1>1, <1>2, <1>3, <1>4, <1>5, <1>6, <1>7, <1>8, <1>9, <1>10
     DEF Next, CallStep

\* With any CPUs coming and going, the slots are the lines of the lowest
\* CPUs online when the file was read, and NONE and MORE_DATA are true.
THEOREM SnapshotIsTrue == Spec => []SlotsAreTheSnapshot
<1>1. Init => LInv
  <2> SUFFICES ASSUME Init
               PROVE  LInv
    OBVIOUS
  <2>1. SnapshotOK(after) /\ maxCount \in Nat /\ Machine \in MachineType
    BY InitOK DEF IInv, TypeOK
  <2>2. after.count = Untouched /\ pc = "idle"
    BY <2>1, FreshOK DEF Init
  <2>3. Listed(after) = {} /\ DOMAIN after.owner = {}
    BY <2>1, <2>2, NobodyListed
  <2> QED BY <2>2, <2>3
          DEF LInv, SlotsHold, InOrder, Reading, SlotsAreTheSnapshot
<1>2. LInv => SlotsAreTheSnapshot
  BY DEF LInv
<1> QED BY <1>1, <1>2, Invariance, ListingStep, PTL DEF Spec
============================================================================
