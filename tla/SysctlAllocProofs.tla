------------------------- MODULE SysctlAllocProofs -------------------------
(***************************************************************************)
(* For tables of any size and any number of attempts: the kernel never     *)
(* writes past the block, the block has one owner, and a growth within the *)
(* margin costs no attempt.                                                *)
(***************************************************************************)
EXTENDS SysctlAlloc, TLAPS

\* The size read with is the one the last estimate was given: without it
\* neither the bound on the block nor the margin survives a step.  While
\* the call is under way nothing has been handed out, an attempt is left.
InCallOK ==
  /\ pc # "idle" => buf = 0 /\ buflen = 0 /\ attempts > 0 /\ status = "NONE"
  /\ pc \in {"reserve", "read"} => sizeNeeded = WithMargin(estimate)

IInv == TypeOK /\ KernelStaysInside /\ BlockHasOneOwner /\ InCallOK

-----------------------------------------------------------------------------
\* The margin grows with the size, so that a bound on the table bounds it.
LEMMA MarginIsMonotone ==
  ASSUME NEW n \in 0 .. MaxSize
  PROVE  /\ WithMargin(n) \in Sizes
         /\ n <= WithMargin(n)
         /\ n \in Sizes
         /\ Sizes \subseteq Nat
BY BoundsAreNaturals, SMT DEF WithMargin, Sizes

\* The invariant holds before the first call.
LEMMA InitOK == Init => IInv
BY BoundsAreNaturals, MarginIsMonotone
   DEF Init, IInv, InCallOK, TypeOK, KernelStaysInside, BlockHasOneOwner,
       Sizes, Errors

\* Every step of the call and of the kernel keeps the invariant.
LEMMA StepOK == IInv /\ [Next]_vars => IInv'
<1> SUFFICES ASSUME IInv, [Next]_vars
             PROVE  IInv'
  OBVIOUS
<1> USE DEF IInv, InCallOK, TypeOK, KernelStaysInside, BlockHasOneOwner, answer
<1>0. 0 \in 0 .. MaxSize /\ 0 \in Sizes
  <2>1. 0 \in 0 .. MaxSize
    BY BoundsAreNaturals
  <2> QED BY <2>1, MarginIsMonotone
<1>1. CASE TableChanges
  BY <1>1 DEF TableChanges
<1>2. CASE Call
  BY <1>2, <1>0, BoundsAreNaturals DEF Call
<1>3. CASE Estimate
  BY <1>3, <1>0, MarginIsMonotone DEF Estimate, GiveUp, Errors
<1>4. CASE Reserve
  BY <1>4, <1>0, MarginIsMonotone DEF Reserve, TooSmall, GiveUp, Errors
<1>5. CASE ReadTable
  <2>1. table \in Sizes /\ Sizes \subseteq Nat
    BY MarginIsMonotone
  <2>2. capacity > 0 => table <= capacity
    <3>1. table \in Nat /\ capacity \in Nat /\ sizeNeeded \in Nat
      BY <2>1
    <3>2. sizeNeeded <= capacity /\ (table <= sizeNeeded \/ capacity = 0)
      BY <1>5 DEF ReadTable, Fits
    <3> QED BY <3>1, <3>2
  <2>3. /\ UNCHANGED <<table, attempts, estimate, capacity, status>>
        /\ pc = "read" /\ pc' = "idle"
        /\ sizeNeeded' = table /\ buflen' = table /\ buf' = capacity
    BY <1>5 DEF ReadTable
  <2>4. status = "NONE"
    BY <1>5 DEF ReadTable
  <2> QED BY <2>1, <2>2, <2>3, <2>4
<1>6. CASE Retry
  BY <1>6, <1>0, BoundsAreNaturals DEF Retry, GiveUp, Errors
<1>7. CASE ReadFails
  BY <1>7, <1>0 DEF ReadFails, GiveUp, Errors
<1>8. CASE UNCHANGED vars
  BY <1>8 DEF vars
<1> QED
  BY <1>1, <1>2, <1>3, <1>4, <1>5, <1>6, <1>7, <1>8 DEF Next, Step

\* A step that spends an attempt is a retry, and a retry means the table
\* outgrew the size planned with its margin.
LEMMA AttemptsAreNotWasted ==
  ASSUME IInv, Next
  PROVE  attempts' < attempts => table > estimate + estimate \div 8
<1> USE DEF IInv, InCallOK, TypeOK
<1>1. CASE Retry
  <2>1. table > sizeNeeded /\ sizeNeeded = WithMargin(estimate)
    BY <1>1, MarginIsMonotone DEF Retry, Fits
  <2> QED BY <2>1 DEF WithMargin
<1>2. CASE Call
  BY <1>2, BoundsAreNaturals DEF Call
<1>3. CASE TableChanges \/ Estimate \/ Reserve \/ ReadTable \/ ReadFails
  BY <1>3, BoundsAreNaturals
     DEF TableChanges, Estimate, Reserve, ReadTable, ReadFails
<1> QED BY <1>1, <1>2, <1>3 DEF Next, Step

-----------------------------------------------------------------------------
\* The strengthened invariant, from which the theorems below follow.
THEOREM Invariance == Spec => []IInv
BY InitOK, StepOK, PTL DEF Spec

\* The sizes stay within the table's bound and its margin, and the counter of
\* attempts never wraps below zero.
THEOREM TypeCorrect == Spec => []TypeOK
<1>1. IInv => TypeOK
  BY DEF IInv
<1> QED BY <1>1, Invariance, PTL

\* However the table moves between the two sysctl calls of an attempt, and
\* whichever attempt made the block, the kernel writes inside the block.
THEOREM NeverOverrun == Spec => []KernelStaysInside
<1>1. IInv => KernelStaysInside
  BY DEF IInv
<1> QED BY <1>1, Invariance, PTL

\* No return leaks the block or hands out one that was freed.
THEOREM OneOwner == Spec => []BlockHasOneOwner
<1>1. IInv => BlockHasOneOwner
  BY DEF IInv
<1> QED BY <1>1, Invariance, PTL

\* An attempt is lost only to a table that outgrew its estimate by more than
\* an eighth.
THEOREM MarginHolds == Spec => MarginAbsorbsGrowth
<1>1. IInv /\ [Next]_vars
        => [attempts' < attempts => table > estimate + estimate \div 8]_vars
  BY AttemptsAreNotWasted
<1> QED BY <1>1, Invariance, PTL DEF Spec, MarginAbsorbsGrowth

-----------------------------------------------------------------------------
\* The steps a call has left at most: three for each attempt it has left.
StepsLeft ==
  CASE pc = "idle"     -> 0
    [] pc = "estimate" -> 3 * attempts
    [] pc = "reserve"  -> 3 * attempts - 1
    [] pc = "read"     -> 3 * attempts - 2

\* Every step of the call, a retry included, leaves fewer of them.
LEMMA StepsFall ==
  ASSUME IInv, Step
  PROVE  StepsLeft' < StepsLeft
<1> USE DEF IInv, InCallOK, TypeOK, StepsLeft
<1>0. attempts \in Nat /\ attempts' \in Int
  BY DEF Step, Estimate, Reserve, ReadTable, Retry, ReadFails
<1>1. CASE Estimate
  BY <1>0, <1>1 DEF Estimate, GiveUp
<1>2. CASE Reserve
  BY <1>0, <1>2 DEF Reserve, GiveUp
<1>3. CASE ReadTable
  BY <1>0, <1>3 DEF ReadTable
<1>4. CASE Retry
  BY <1>0, <1>4 DEF Retry, GiveUp
<1>5. CASE ReadFails
  BY <1>0, <1>5 DEF ReadFails, GiveUp
<1> QED BY <1>1, <1>2, <1>3, <1>4, <1>5 DEF Step

\* A call makes at most three steps for each of its attempts, however often the
\* table moves under it: the safety half of its return (common.c:126).
THEOREM CallReturnsInTime ==
  Spec => /\ [](StepsLeft \in Nat /\ (StepsLeft = 0 <=> pc = "idle"))
          /\ [][ /\ Call => StepsLeft' = 3 * MaxAttempts
                 /\ Step => StepsLeft' < StepsLeft
                 /\ TableChanges => StepsLeft' = StepsLeft ]_vars
<1>1. IInv => StepsLeft \in Nat /\ (StepsLeft = 0 <=> pc = "idle")
  BY DEF IInv, InCallOK, TypeOK, StepsLeft
<1>2. ASSUME Call PROVE StepsLeft' = 3 * MaxAttempts
  BY <1>2 DEF Call, StepsLeft
<1>3. ASSUME TableChanges PROVE StepsLeft' = StepsLeft
  BY <1>3 DEF TableChanges, StepsLeft
<1>4. IInv /\ [Next]_vars =>
        [/\ Call => StepsLeft' = 3 * MaxAttempts
         /\ Step => StepsLeft' < StepsLeft
         /\ TableChanges => StepsLeft' = StepsLeft]_vars
  BY <1>2, <1>3, StepsFall
<1> QED BY <1>1, <1>4, Invariance, PTL DEF Spec
=============================================================================
