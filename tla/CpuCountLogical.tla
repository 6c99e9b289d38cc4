-------------------------- MODULE CpuCountLogical --------------------------
(***************************************************************************)
(* procmetrix_cpu_count_logical on Linux (src/linux/cpu.c): sysconf, then  *)
(* the "processor" lines of /proc/cpuinfo, then the "cpuN" lines of        *)
(* /proc/stat.  Both files list the CPUs online while they are read, one   *)
(* after the other in ascending order, and CPUs come and go meanwhile.     *)
(***************************************************************************)
EXTENDS CpuHotplug

VARIABLES
  \* the machine
  hasLines,     \* this kernel's cpuinfo has "processor : N" lines
  \* the call
  logicalPc,
  nproc,
  cpuinfoFile,  \* the variable cpuinfo_file: NULL, open or closed
  procstatFile, \* the variable procstat_file: NULL or open
  cursor,       \* last CPU whose line was read
  \* what happened since the call began
  badReads,     \* a stream was read that was not open
  failed        \* which of "sysconf", "cpuinfo", "procstat" failed

streams == <<cpuinfoFile, procstatFile>>
logicalVars == <<cpuVars, hasLines, logicalPc, nproc, streams, cursor, badReads,
                 failed>>

-----------------------------------------------------------------------------
\* procmetrix_cpu_count_logical

LogicalCall ==
  /\ logicalPc = "idle"
  /\ logicalPc' = "sysconf"
  /\ nproc' = 0
  /\ cpuinfoFile' = "NULL"
  /\ procstatFile' = "NULL"
  /\ stayed' = online
  /\ ever' = online
  /\ badReads' = FALSE
  /\ failed' = {}
  /\ UNCHANGED <<online, hotplugs, hasLines, cursor>>

Sysconf_Configured ==
  /\ logicalPc = "sysconf"
  /\ \/ /\ nproc' = Cardinality(Cpus)
        /\ logicalPc' = "idle"
        /\ UNCHANGED failed
     \/ /\ nproc' \in {-1, 0}
        /\ logicalPc' = "openCpuinfo"
        /\ failed' = failed \cup {"sysconf"}
  /\ UNCHANGED <<cpuVars, hasLines, streams, cursor, badReads>>

Sysconf ==
  /\ logicalPc = "sysconf"
  /\ \/ /\ nproc' = Cardinality(online)
        /\ logicalPc' = "idle"
        /\ UNCHANGED failed
     \/ /\ nproc' \in {-1, 0}
        /\ logicalPc' = "openCpuinfo"
        /\ failed' = failed \cup {"sysconf"}
  /\ UNCHANGED <<cpuVars, hasLines, streams, cursor, badReads>>

FallBackToCpuinfo ==
  /\ logicalPc = "openCpuinfo"
  /\ \/ /\ cpuinfoFile' = "open"
        /\ logicalPc' = "countProcessors"
        /\ nproc' = 0
        /\ cursor' = -1
        /\ UNCHANGED failed
     \/ /\ cpuinfoFile' = "NULL"
        /\ logicalPc' = "openProcstat"
        /\ failed' = failed \cup {"cpuinfo"}
        /\ UNCHANGED <<nproc, cursor>>
  /\ UNCHANGED <<cpuVars, hasLines, procstatFile, badReads>>

LinesAhead == {c \in online : c > cursor}
NextCpu == CHOOSE c \in LinesAhead : \A d \in LinesAhead : c <= d

NextLine == cursor' = NextCpu

\* procmetrix_impl_linux_cpuinfo_count_processors
ProcessorLine ==
  /\ logicalPc = "countProcessors"
  /\ hasLines
  /\ LinesAhead # {}
  /\ NextLine
  /\ nproc' = nproc + 1
  /\ UNCHANGED <<cpuVars, hasLines, logicalPc, streams, badReads, failed>>

\* End of file, or a read error, which fgets does not tell apart.
CountedProcessors_KeepsFile ==
  /\ logicalPc = "countProcessors"
  /\ failed' = IF LinesAhead = {} \/ ~hasLines THEN failed
               ELSE failed \cup {"cpuinfo"}
  /\ cpuinfoFile' = IF nproc > 0 THEN "open" ELSE "closed"
  /\ logicalPc' = IF nproc > 0 THEN "idle" ELSE "openProcstat"
  /\ UNCHANGED <<cpuVars, hasLines, nproc, procstatFile, cursor, badReads>>

CountedProcessors ==
  /\ logicalPc = "countProcessors"
  /\ failed' = IF LinesAhead = {} \/ ~hasLines THEN failed
               ELSE failed \cup {"cpuinfo"}
  /\ cpuinfoFile' = "closed"
  /\ logicalPc' = IF nproc > 0 THEN "idle" ELSE "openProcstat"
  /\ UNCHANGED <<cpuVars, hasLines, nproc, procstatFile, cursor, badReads>>

FallBackToProcstat ==
  /\ logicalPc = "openProcstat"
  /\ \/ /\ procstatFile' = "open"
        /\ logicalPc' = "countCpuLines"
        /\ nproc' = 0
        /\ cursor' = -1
        /\ UNCHANGED failed
     \/ /\ nproc' = 0
        /\ logicalPc' = "idle"
        /\ failed' = failed \cup {"procstat"}
        /\ UNCHANGED <<procstatFile, cursor>>
  /\ UNCHANGED <<cpuVars, hasLines, cpuinfoFile, badReads>>

\* procmetrix_impl_linux_procstat_count_cpus is given cpuinfo_file: NULL makes
\* it return 0; a closed stream is undefined behaviour, which shows as the new
\* stream (fopen took the freed memory again) or as a stream that ends or
\* fails at some line.
CountedFile == cpuinfoFile

CpuLine ==
  /\ logicalPc = "countCpuLines"
  /\ CountedFile # "NULL"
  /\ LinesAhead # {}
  /\ NextLine
  /\ nproc' = nproc + 1
  /\ badReads' = (badReads \/ CountedFile # "open")
  /\ UNCHANGED <<cpuVars, hasLines, logicalPc, streams, failed>>

CountedCpuLines ==
  /\ logicalPc = "countCpuLines"
  /\ procstatFile' = "NULL"
  /\ logicalPc' = "idle"
  /\ badReads' = (badReads \/ CountedFile \notin {"open", "NULL"})
  /\ failed' = IF LinesAhead = {} \/ CountedFile # "open" THEN failed
               ELSE failed \cup {"procstat"}
  /\ UNCHANGED <<cpuVars, hasLines, nproc, cpuinfoFile, cursor>>

-----------------------------------------------------------------------------
LogicalInit ==
  /\ online \in (SUBSET Cpus) \ {{}}
  /\ hotplugs = 0
  /\ hasLines \in BOOLEAN
  /\ logicalPc = "idle"
  /\ nproc = 0
  /\ cpuinfoFile = "NULL"
  /\ procstatFile = "NULL"
  /\ cursor = -1
  /\ stayed = online
  /\ ever = online
  /\ badReads = FALSE
  /\ failed = {"sysconf", "cpuinfo", "procstat"}  \* no call yet

LogicalHotplug ==
  /\ \E c \in Cpus : CpuLeaves(c) \/ CpuComes(c)
  /\ UNCHANGED <<hasLines, logicalPc, nproc, streams, cursor, badReads, failed>>

\* One step of a call in progress.
LogicalStep ==
  \/ Sysconf
  \/ FallBackToCpuinfo
  \/ ProcessorLine
  \/ CountedProcessors
  \/ FallBackToProcstat
  \/ CpuLine
  \/ CountedCpuLines

LogicalNext == LogicalHotplug \/ LogicalCall \/ LogicalStep

LogicalSpec == LogicalInit /\ [][LogicalNext]_logicalVars

-----------------------------------------------------------------------------
\* Properties

LogicalTypeOK ==
  /\ online \in (SUBSET Cpus) \ {{}}
  /\ hotplugs \in 0 .. MaxHotplug
  /\ hasLines \in BOOLEAN
  /\ logicalPc \in {"idle", "sysconf", "openCpuinfo", "countProcessors",
                    "openProcstat", "countCpuLines"}
  /\ nproc \in -1 .. Cardinality(Cpus)
  /\ logicalPc = "idle" => nproc >= 0
  /\ cpuinfoFile \in {"NULL", "open", "closed"}
  /\ cpuinfoFile = "open" <=> logicalPc = "countProcessors"
  /\ procstatFile \in {"NULL", "open"}
  /\ procstatFile = "open" <=> logicalPc = "countCpuLines"
  /\ cursor \in Cpus \cup {-1}
  /\ stayed \subseteq ever /\ ever \subseteq Cpus
  /\ badReads \in BOOLEAN
  /\ failed \subseteq {"sysconf", "cpuinfo", "procstat"}

\* Whichever way the CPUs were counted, the count lies between the CPUs that
\* stayed online and those that were ever online: a list read while CPUs come
\* and go may match no single moment, but it misses none that stayed and
\* counts none twice.  The primary count or the first fallback suffices
\* wherever cpuinfo can be read and lists processors: 0 then means that a file
\* failed (cpu.c:231-270, 559-603).
LogicalCountIsBracketed ==
  /\ logicalPc = "idle" /\ ~badReads /\ nproc > 0 =>
       /\ nproc <= Cardinality(ever)
       /\ failed \subseteq {"sysconf"} => Cardinality(stayed) <= nproc
  /\ logicalPc = "idle" /\ hasLines /\ failed \subseteq {"sysconf"} => nproc > 0

\* "Fallback: Count "cpuX" lines in procstat" (src/linux/cpu.c:584-585): when
\* the other two sources failed and /proc/stat did not, its lines are counted.
ProcstatIsCounted ==
  logicalPc = "idle" /\ failed = {"sysconf", "cpuinfo"} => nproc > 0
=============================================================================
