---------------------------- MODULE SysctlAlloc ----------------------------
(***************************************************************************)
(* procmetrix_impl_bsd_sysctl_alloc (src/freebsd/common.c): ask how large  *)
(* a kernel table is, make room and a margin for it, read it, and start    *)
(* over when the table outgrew the room meanwhile.  The table changes at   *)
(* any time.                                                               *)
(***************************************************************************)
EXTENDS Integers

CONSTANTS
  MaxSize,      \* bound on the size of the table
  MaxAttempts   \* attempts: 10 in the code

ASSUME BoundsAreNaturals == MaxSize \in Nat /\ MaxAttempts \in Nat \ {0}

VARIABLES
  table,       \* current size of the kernel's table
  pc,
  attempts,
  estimate,    \* the size the kernel last answered
  sizeNeeded,  \* size_needed
  capacity,    \* size of the call's live block at data; 0: none
  buf,         \* *buf: size of the block handed out; 0: NULL
  buflen,      \* *buflen
  status

answer == <<buf, buflen>>
vars == <<table, pc, attempts, estimate, sizeNeeded, capacity, answer, status>>

\* procmetrix_error_from_errno: what a failed sysctl becomes.
Errors == {"INVALID_ARGUMENT", "OUT_OF_MEMORY", "UNKNOWN"}

Init ==
  /\ table \in 0 .. MaxSize
  /\ pc = "idle"
  /\ attempts = 0
  /\ estimate = 0
  /\ sizeNeeded = 0
  /\ capacity = 0
  /\ buf = 0
  /\ buflen = 0
  /\ status = "NONE"

-----------------------------------------------------------------------------
TableChanges ==
  /\ table' \in 0 .. MaxSize
  /\ UNCHANGED <<pc, attempts, estimate, sizeNeeded, capacity, answer, status>>

\* The block of the previous answer is its caller's: the new call has none.
Call ==
  /\ pc = "idle"
  /\ pc' = "estimate"
  /\ attempts' = MaxAttempts
  /\ estimate' = 0
  /\ sizeNeeded' = 0
  /\ capacity' = 0
  /\ buf' = 0
  /\ buflen' = 0
  /\ status' = "NONE"
  /\ UNCHANGED table

GiveUp_Leaks(code) ==
  /\ status' = code
  /\ pc' = "idle"
  /\ UNCHANGED capacity
\* free(data); return code;
GiveUp(code) ==
  /\ status' = code
  /\ pc' = "idle"
  /\ capacity' = 0

WithMargin_None(size) == size
WithMargin(size) == size + size \div 8

Estimate ==
  /\ pc = "estimate"
  /\ \/ /\ estimate' = table
        /\ sizeNeeded' = WithMargin(table)
        /\ pc' = "reserve"
        /\ UNCHANGED <<capacity, status>>
     \/ /\ \E code \in Errors : GiveUp(code)
        /\ UNCHANGED <<estimate, sizeNeeded>>
  /\ UNCHANGED <<table, attempts, answer>>

TooSmall_FirstTimeOnly == capacity = 0 /\ sizeNeeded > 0
TooSmall == sizeNeeded > capacity

Reserve ==
  /\ pc = "reserve"
  /\ \/ /\ ~TooSmall
        /\ pc' = "read"
        /\ UNCHANGED <<capacity, status>>
     \/ /\ TooSmall
        /\ capacity' = sizeNeeded
        /\ pc' = "read"
        /\ UNCHANGED status
     \/ /\ TooSmall
        /\ GiveUp("OUT_OF_MEMORY")
  /\ UNCHANGED <<table, attempts, estimate, sizeNeeded, answer>>

\* sysctl fails with ENOMEM unless the table fits in size_needed; given no
\* buffer it only tells the size, and succeeds.
Fits == table <= sizeNeeded \/ capacity = 0

ReadTable ==
  /\ pc = "read"
  /\ Fits
  /\ pc' = "idle"
  /\ sizeNeeded' = table
  /\ buf' = capacity
  /\ buflen' = table
  /\ UNCHANGED <<table, attempts, estimate, capacity, status>>

Retry_SameAttempt ==
  /\ pc = "read"
  /\ ~Fits
  /\ pc' = "estimate"
  /\ UNCHANGED <<table, attempts, estimate, sizeNeeded, capacity, answer,
                 status>>
Retry_PastZero ==
  /\ pc = "read"
  /\ ~Fits
  /\ attempts' = attempts - 1
  /\ \/ /\ attempts > 0
        /\ pc' = "estimate"
        /\ UNCHANGED <<capacity, status>>
     \/ /\ attempts = 0
        /\ GiveUp("UNKNOWN")
  /\ UNCHANGED <<table, estimate, sizeNeeded, answer>>
\* ENOMEM: the loop's condition, and what follows the loop.
Retry ==
  /\ pc = "read"
  /\ ~Fits
  /\ attempts' = attempts - 1
  /\ \/ /\ attempts' # 0
        /\ pc' = "estimate"
        /\ UNCHANGED <<capacity, status>>
     \/ /\ attempts' = 0
        /\ GiveUp("UNKNOWN")
  /\ UNCHANGED <<table, estimate, sizeNeeded, answer>>

ReadFails ==
  /\ pc = "read"
  /\ \E code \in Errors \ {"OUT_OF_MEMORY"} : GiveUp(code)
  /\ UNCHANGED <<table, attempts, estimate, sizeNeeded, answer>>

Step == Estimate \/ Reserve \/ ReadTable \/ Retry \/ ReadFails
Next == TableChanges \/ Call \/ Step

\* The thread inside the call keeps running; nobody has to call, and the
\* table need not change, nor ever stand still.
Spec == Init /\ [][Next]_vars /\ WF_vars(Step)

-----------------------------------------------------------------------------
Sizes == 0 .. WithMargin(MaxSize)

\* The types of the state; attempts is a size_t that never passes zero.
TypeOK ==
  /\ table \in 0 .. MaxSize
  /\ pc \in {"idle", "estimate", "reserve", "read"}
  /\ attempts \in 0 .. MaxAttempts
  /\ estimate \in 0 .. MaxSize
  /\ {sizeNeeded, capacity, buf, buflen} \subseteq Sizes
  /\ status \in {"NONE"} \union Errors

\* What the kernel may write (size_needed, common.c:114) never exceeds the
\* block it writes to, whichever earlier attempt the block was made for
\* (common.c:100-111) and however the table moved in between; and the length
\* handed out never exceeds the block handed out with it.
KernelStaysInside ==
  /\ pc = "read" => sizeNeeded <= capacity
  /\ buf > 0 => buflen <= buf

\* A call that has returned holds no block of its own: the last one is the
\* caller's after a success and freed on each of the four error returns
\* (common.c:89, 106, 123, 130).
BlockHasOneOwner ==
  pc = "idle" => capacity = buf /\ (status # "NONE" => buf = 0 /\ buflen = 0)

\* A table that grew by no more than an eighth between the estimate and the
\* read does not cost an attempt (common.c:93-94).
MarginAbsorbsGrowth ==
  [][attempts' < attempts => table > estimate + estimate \div 8]_vars

\* A table that keeps growing cannot hold the caller for ever: the attempts
\* run out (common.c:126).
CallReturns == pc # "idle" ~> pc = "idle"
=============================================================================
