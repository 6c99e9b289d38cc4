------------------------ MODULE SystemMemoryProofs -------------------------
(***************************************************************************)
(* For any files, word length and page size: the books of a memory query   *)
(* balance, its estimate is that of the integers, nothing in them is lost. *)
(***************************************************************************)
EXTENDS SystemMemory, FiniteSetTheorems, TLAPS

\* The lines the balance and the estimate are made of.
Counted == {"MemTotal", "MemFree", "Cached", "SReclaimable", "Active(file)",
            "Inactive(file)", "MemAvailable"}
Wanted == IF call = "swap" THEN SwapLines ELSE Counted

\* What the lines other than rest show, in bytes.
Got(k, rest) == IF k \in DOMAIN meminfo \ rest THEN KiB * meminfo[k] ELSE 0
Collected(keys, rest) == \A k \in keys : mem[Slot(k)] = Got(k, rest)

Lasting == {"MemTotal", "MemFree", "SReclaimable", "Active(file)",
            "Inactive(file)"}
NotNegative(n) == IF n < 0 THEN 0 ELSE n
Available ==
  CASE Shown("MemAvailable") # 0 -> Shown("MemAvailable")
    [] Shown("MemAvailable") = 0 /\ DOMAIN second # {} ->
         NotNegative(Reference)
    [] OTHER -> Shown("MemFree") + Shown("Cached")

Progress ==
  /\ pc \in {"open", "lines", "zones", "usage", "vmstat", "validate"} =>
       status = "NONE"
  /\ pc = "open" => mem = Cleared
  /\ pc \in {"open", "lines"} => DOMAIN second = {}
  /\ pc = "lines" => Collected(Wanted, unread)
  /\ pc \in {"zones", "usage"} => call = "virtual" /\ Collected(Lasting, {})
  /\ pc = "zones" => DOMAIN second # {} /\ Shown("MemAvailable") = 0
  /\ pc = "usage" => mem["available"] = Available
  /\ pc \in {"vmstat", "validate"} =>
       call = "swap" /\ Collected(SwapLines, {})
  /\ pc = "vmstat" => unread \subseteq VmLines
  /\ pc \in {"close", "returned"} /\ status = "NONE" =>
       IF call = "virtual"
       THEN /\ mem["used"] + mem["available"] = mem["total"]
            /\ mem["total"] = Shown("MemTotal")
            /\ mem["free"] = Shown("MemFree")
            /\ mem["total"] # 0
            /\ mem["available"] = Capped(Available)
       ELSE /\ mem["used"] + mem["free"] = mem["total"]
            /\ mem["total"] = Shown("SwapTotal")
            /\ mem["free"] = Shown("SwapFree")

IInv == TypeOK /\ Progress

-----------------------------------------------------------------------------
\* Arithmetic of 64-bit words stays in them, and is that of the integers as
\* long as the result fits.
LEMMA WordArithmetic ==
  ASSUME NEW a \in Int, NEW b \in Int
  PROVE  /\ Plus(a, b) \in Word /\ Minus(a, b) \in Word /\ Times(a, b) \in Word
         /\ a + b \in Word => Plus(a, b) = a + b
         /\ a - b \in Word => Minus(a, b) = a - b
         /\ a * b \in Word => Times(a, b) = a * b
<1> DEFINE M == Modulus
           p == a * b
<1>1. M \in Nat \ {0}
  BY NumbersArePositive
<1>2. \A n \in Int : n % M \in 0 .. M - 1 /\ (n \in 0 .. M - 1 => n % M = n)
  BY <1>1
<1>3. p \in Int /\ a + b \in Int /\ a - b \in Int
  OBVIOUS
<1> HIDE DEF p
<1>4. p % M \in 0 .. M - 1 /\ (p \in 0 .. M - 1 => p % M = p)
  BY <1>2, <1>3
<1>5. Times(a, b) = p % M
  BY DEF Times, p
<1> QED BY <1>2, <1>3, <1>4, <1>5 DEF Plus, Minus, Word, p

\* A line in KiB is its number of bytes, and fits.
LEMMA LineFits ==
  ASSUME MemInfoOK(meminfo), NEW k \in DOMAIN meminfo
  PROVE  /\ meminfo[k] \in Nat
         /\ KiB * meminfo[k] \in Word
         /\ Times(KiB, meminfo[k]) = KiB * meminfo[k]
<1>1. KiB \in Nat /\ Modulus \in Nat \ {0}
  BY NumbersArePositive
<1>2. meminfo[k] \in Nat /\ KiB * meminfo[k] < Modulus
  BY DEF MemInfoOK
<1> DEFINE n == meminfo[k]
           p == KiB * n
<1>3. p \in Nat
  BY <1>1, <1>2
<1> HIDE DEF p
<1>4. p \in Word
  BY <1>1, <1>2, <1>3 DEF Word, p
<1> QED BY <1>1, <1>2, <1>4, WordArithmetic DEF p

\* What a line shows fits a word, whether or not the line is there.
LEMMA GotFits ==
  ASSUME MemInfoOK(meminfo), NEW k, NEW rest
  PROVE  Got(k, rest) \in Word /\ Shown(k) \in Word /\ Shown(k) = Got(k, {})
<1>1. KiB \in Nat /\ 0 \in Word
  BY NumbersArePositive DEF Word
<1>2. Shown(k) = IF k \in DOMAIN meminfo THEN KiB * meminfo[k] ELSE 0
  BY <1>1 DEF Shown, Shows
<1> QED BY <1>1, <1>2, LineFits DEF Got

\* What the estimate adds up fits a word.
LEMMA SumFits ==
  ASSUME MemInfoOK(meminfo)
  PROVE  /\ Shown("MemFree") + Shown("Active(file)") + Shown("Inactive(file)")
              + Shown("SReclaimable") + Shown("Cached") \in Word
         /\ \A k \in Counted \cup SwapLines : Shown(k) \in Nat
<1>1. \A k \in Counted \cup SwapLines : Shown(k) \in Nat
  BY GotFits, NumbersArePositive DEF Word
<1>2. Shown("MemFree") + Shown("Active(file)") + Shown("Inactive(file)")
        + Shown("SReclaimable") + Shown("Cached") < Modulus
  BY DEF MemInfoOK, Shown
<1> QED BY <1>1, <1>2, NumbersArePositive DEF Word, Counted

\* No two of the lines that count go to one slot.
LEMMA SlotsDiffer ==
  /\ \A k \in Plain \cup InactParts \cup SwapLines \cup VmLines :
       Slot(k) \in Slots \ {"used"}
  /\ \A j \in Counted, k \in Plain \cup InactParts :
       j # k => Slot(j) # Slot(k)
  /\ \A j, k \in SwapLines : j # k => Slot(j) # Slot(k)
  /\ \A j \in SwapLines, k \in VmLines : Slot(j) # Slot(k)
<1>1. \A k \in Plain \cup InactParts \cup SwapLines \cup VmLines :
        Slot(k) \in Slots \ {"used"}
  BY DEF Slot, Slots, Plain, InactParts, SwapLines, VmLines
<1>2. \A j \in Counted, k \in Plain \cup InactParts :
        j # k => Slot(j) # Slot(k)
  BY SMTT(30) DEF Slot, Counted, Plain, InactParts
<1>3. \A j, k \in SwapLines : j # k => Slot(j) # Slot(k)
  BY DEF Slot, InactParts, SwapLines
<1>4. \A j \in SwapLines, k \in VmLines : Slot(j) # Slot(k)
  BY DEF Slot, InactParts, SwapLines, VmLines
<1> QED BY <1>1, <1>2, <1>3, <1>4

-----------------------------------------------------------------------------
\* One more line read.
LEMMA ReadLineKeeps ==
  ASSUME IInv, NEW k \in unread, ReadLine(k)
  PROVE  IInv'
<1>1. /\ pc = "lines" /\ pc' = "lines"
      /\ k \in DOMAIN meminfo /\ k \in Matched(call)
      /\ mem \in [Slots -> Word] /\ MemInfoOK(meminfo)
      /\ call \in {"virtual", "swap"}
      /\ UNCHANGED <<call, meminfo, second, low, status, streams>>
  BY DEF IInv, TypeOK, ReadLine
<1>2. k \in Plain \cup InactParts \cup SwapLines
  BY <1>1 DEF Matched
<1>3. meminfo[k] \in Nat /\ KiB * meminfo[k] \in Word
      /\ Times(KiB, meminfo[k]) = KiB * meminfo[k]
  BY <1>1, LineFits
<1>4. Parsed(k) \in Word
  <2>1. mem["inactive"] \in Int /\ Times(KiB, meminfo[k]) \in Int
    BY <1>1, <1>3, NumbersArePositive DEF Slots, Word
  <2> QED BY <2>1, <1>3, WordArithmetic DEF Parsed
<1>5. mem' = [mem EXCEPT ![Slot(k)] = Parsed(k)] /\ unread' = unread \ {k}
  BY DEF ReadLine
<1>6. Slot(k) \in Slots
  BY <1>2, SlotsDiffer
<1>7. TypeOK'
  BY <1>1, <1>4, <1>5, <1>6 DEF IInv, TypeOK
<1>8. Collected(Wanted, unread)'
  <2> SUFFICES ASSUME NEW j \in Wanted
               PROVE  mem'[Slot(j)] = Got(j, unread \ {k})
    BY <1>1, <1>5 DEF Collected, Wanted, Got
  <2>1. mem[Slot(j)] = Got(j, unread)
    BY <1>1 DEF IInv, Progress, Collected
  <2>2. Wanted \subseteq Plain \cup SwapLines
    BY DEF Wanted, Counted, Plain
  <2>3. CASE j = k
    <3>1. k \notin InactParts
      BY <2>2, <2>3 DEF InactParts, Plain, SwapLines
    <3> QED BY <1>1, <1>3, <1>5, <1>6, <2>3, <3>1 DEF Parsed, Got
  <2>4. CASE j # k
    <3>1. Slot(j) # Slot(k) /\ Slot(j) \in Slots
      BY <1>1, <2>2, <2>4, SlotsDiffer DEF Wanted, Matched
    <3>2. Got(j, unread \ {k}) = Got(j, unread)
      BY <2>4 DEF Got
    <3> QED BY <1>1, <1>5, <2>1, <3>1, <3>2
  <2> QED BY <2>3, <2>4
<1> QED BY <1>1, <1>7, <1>8 DEF IInv, Progress

\* All of the lines read: what is wanted of them is in mem.
LEMMA AllRead ==
  ASSUME IInv, pc = "lines", unread = {}
  PROVE  /\ \A k \in Wanted : mem[Slot(k)] = Shown(k)
         /\ call = "virtual" =>
              /\ mem["total"] = Shown("MemTotal")
              /\ mem["free"] = Shown("MemFree")
              /\ mem["cached"] = Shown("Cached")
              /\ mem["reclaimable"] = Shown("SReclaimable")
              /\ mem["active_file"] = Shown("Active(file)")
              /\ mem["inactive_file"] = Shown("Inactive(file)")
              /\ mem["available"] = Shown("MemAvailable")
<1>1. \A k \in Wanted : mem[Slot(k)] = Shown(k)
  BY GotFits DEF IInv, TypeOK, Progress, Collected
<1>2. Wanted = IF call = "swap" THEN SwapLines ELSE Counted
  BY DEF Wanted
<1> QED BY <1>1, <1>2 DEF Counted, Slot, InactParts

\* What the estimate reads, by the names of the slots.
LEMMA LastingSlots ==
  ASSUME MemInfoOK(meminfo)
  PROVE  Collected(Lasting, {}) <=>
           /\ mem["total"] = Shown("MemTotal")
           /\ mem["free"] = Shown("MemFree")
           /\ mem["reclaimable"] = Shown("SReclaimable")
           /\ mem["active_file"] = Shown("Active(file)")
           /\ mem["inactive_file"] = Shown("Inactive(file)")
<1>1. \A k \in Lasting : Got(k, {}) = Shown(k)
  BY GotFits
<1>2. /\ Slot("MemTotal") = "total" /\ Slot("MemFree") = "free"
      /\ Slot("SReclaimable") = "reclaimable"
      /\ Slot("Active(file)") = "active_file"
      /\ Slot("Inactive(file)") = "inactive_file"
  BY DEF Slot, InactParts
<1> QED BY <1>1, <1>2 DEF Collected, Lasting

\* What the check of the swap reads, by the names of the slots.
LEMMA SwapSlots ==
  ASSUME MemInfoOK(meminfo)
  PROVE  Collected(SwapLines, {}) <=>
           /\ mem["total"] = Shown("SwapTotal")
           /\ mem["free"] = Shown("SwapFree")
<1>1. \A k \in SwapLines : Got(k, {}) = Shown(k)
  BY GotFits
<1>2. Slot("SwapTotal") = "total" /\ Slot("SwapFree") = "free"
  BY DEF Slot, InactParts
<1> QED BY <1>1, <1>2 DEF Collected, SwapLines

-----------------------------------------------------------------------------
\* The end of the lines, whichever way the call goes on.
LEMMA LinesEndKeeps ==
  ASSUME IInv, FreeMissing \/ AvailableShown \/ Approximate \/ OpenZones
  PROVE  IInv'
<1> DEFINE all == AllCached
           sum == Plus(mem["free"], mem["cached"])
<1>1. /\ LinesEnd /\ pc = "lines" /\ call = "virtual" /\ unread = {}
      /\ mem \in [Slots -> Word] /\ MemInfoOK(meminfo)
      /\ UNCHANGED <<call, meminfo, low, streams>>
      /\ status = "NONE" /\ DOMAIN second = {}
  BY DEF IInv, TypeOK, Progress, FreeMissing, AvailableShown, Approximate,
         OpenZones, LinesEnd
<1>2. /\ mem["total"] = Shown("MemTotal")
      /\ mem["free"] = Shown("MemFree")
      /\ mem["cached"] = Shown("Cached")
      /\ mem["reclaimable"] = Shown("SReclaimable")
      /\ mem["active_file"] = Shown("Active(file)")
      /\ mem["inactive_file"] = Shown("Inactive(file)")
      /\ mem["available"] = Shown("MemAvailable")
  BY <1>1, AllRead
<1>3. all \in Word /\ sum \in Word /\ sum = Shown("MemFree") + Shown("Cached")
  <2> DEFINE f == Shown("MemFree")
             a == Shown("Active(file)")
             i == Shown("Inactive(file)")
             r == Shown("SReclaimable")
             c == Shown("Cached")
  <2>1. /\ f \in Nat /\ a \in Nat /\ i \in Nat /\ r \in Nat /\ c \in Nat
        /\ f + a + i + r + c \in Word
    BY <1>1, SumFits DEF Counted
  <2> HIDE DEF f, a, i, r, c
  <2>2. f + c \in Word
    BY <2>1, NumbersArePositive DEF Word
  <2>3. mem["free"] = f /\ mem["cached"] = c /\ mem["reclaimable"] = r
    BY <1>2 DEF f, c, r
  <2>4. all \in Word /\ sum \in Word /\ sum = f + c
    BY <2>1, <2>2, <2>3, WordArithmetic DEF AllCached
  <2> QED BY <2>4 DEF f, c
<1> HIDE DEF all, sum
<1>4. /\ mem' \in [Slots -> Word]
      /\ \A s \in Slots \ {"cached", "available"} : mem'[s] = mem[s]
  <2>1. mem' \in {[mem EXCEPT !["cached"] = all],
                  [mem EXCEPT !["cached"] = all, !["available"] = sum]}
    BY DEF FreeMissing, AvailableShown, Approximate, OpenZones, all, sum
  <2> QED BY <1>1, <1>3, <2>1
<1>5. MemInfoOK(meminfo)' /\ Collected(Lasting, {})'
  <2>1. MemInfoOK(meminfo)'
    BY <1>1
  <2>2. \A k \in Lasting : Slot(k) \in Slots \ {"cached", "available"}
    BY DEF Lasting, Slot, Slots, InactParts
  <2>3. Collected(Lasting, {})
    BY <1>1, <1>2, LastingSlots
  <2> QED BY <1>1, <1>4, <2>1, <2>2, <2>3 DEF Collected, Got
<1>6. CASE FreeMissing
  BY <1>1, <1>4, <1>6 DEF FreeMissing, IInv, TypeOK, Progress
<1>7. CASE AvailableShown
  <2>1. mem'["available"] = mem["available"]
    BY <1>1, <1>3, <1>7 DEF AvailableShown, Slots, all
  <2>2. Shown("MemAvailable")' = Shown("MemAvailable")
    BY <1>1 DEF Shown
  <2>3. (mem["available"] = Available)'
    BY <1>2, <1>7, <2>1, <2>2 DEF AvailableShown, Available
  <2> QED BY <1>1, <1>4, <1>5, <1>7, <2>3
          DEF AvailableShown, IInv, TypeOK, Progress
<1>8. CASE Approximate
  <2>1. mem'["available"] = sum
    BY <1>1, <1>3, <1>8 DEF Approximate, Slots, sum
  <2>2. /\ Shown("MemAvailable")' = 0 /\ DOMAIN second' = {}
        /\ Shown("MemFree")' = Shown("MemFree")
        /\ Shown("Cached")' = Shown("Cached")
    BY <1>1, <1>2, <1>8 DEF Shown, Approximate
  <2>3. (mem["available"] = Available)'
    BY <1>3, <2>1, <2>2 DEF Available
  <2> QED BY <1>1, <1>4, <1>5, <1>8, <2>3
          DEF Approximate, IInv, TypeOK, Progress
<1>9. CASE OpenZones
  <2>1. DOMAIN second' # {} /\ \A i \in DOMAIN second' : second'[i] \in Nat
    BY <1>9, ZoneInfosAreOK DEF OpenZones
  <2>2. Shown("MemAvailable")' = 0
    BY <1>1, <1>2, <1>9 DEF Shown, OpenZones
  <2> QED BY <1>1, <1>4, <1>5, <1>9, <2>1, <2>2
          DEF OpenZones, IInv, TypeOK, Progress
<1> QED BY <1>6, <1>7, <1>8, <1>9

\* A share of an amount that fits fits, and is that of the integers.
LEMMA SpareIsExact ==
  ASSUME NEW amount \in Word, NEW wmark \in Word
  PROVE  /\ Spare(amount, wmark) =
              amount - (IF amount \div 2 < wmark THEN amount \div 2 ELSE wmark)
         /\ Spare(amount, wmark) \in 0 .. amount
<1> DEFINE kept == Least(amount \div 2, wmark)
<1>1. /\ kept \in 0 .. amount
      /\ kept = IF amount \div 2 < wmark THEN amount \div 2 ELSE wmark
  BY NumbersArePositive DEF Word, Least
<1>2. amount - kept \in Word /\ kept \in Int /\ amount \in Int
  BY <1>1, NumbersArePositive DEF Word
<1> HIDE DEF kept
<1>3. Minus(amount, kept) = amount - kept
  BY <1>2, WordArithmetic
<1> QED BY <1>1, <1>2, <1>3 DEF Spare, kept, Word

\* The estimate of the available memory is that of the integers.
LEMMA EstimateKeeps ==
  ASSUME IInv, Estimate
  PROVE  IInv'
<1>1. /\ pc = "zones" /\ call = "virtual" /\ status = "NONE"
      /\ mem \in [Slots -> Word] /\ MemInfoOK(meminfo)
      /\ low \in Word /\ pc' = "usage" /\ low' = Times(low, PageSize)
      /\ mem' = [mem EXCEPT !["available"] = Better(low')]
      /\ Collected(Lasting, {})
      /\ DOMAIN second # {} /\ Shown("MemAvailable") = 0 /\ unread = {}
      /\ UNCHANGED <<call, meminfo, second, unread, status, streams>>
  BY DEF IInv, TypeOK, Progress, Estimate
<1> DEFINE f == Shown("MemFree")
           a == Shown("Active(file)")
           i == Shown("Inactive(file)")
           r == Shown("SReclaimable")
           l == low'
<1>2. /\ mem["free"] = f /\ mem["active_file"] = a
      /\ mem["inactive_file"] = i /\ mem["reclaimable"] = r
      /\ mem["total"] = Shown("MemTotal")
  BY <1>1, LastingSlots
<1>3. l \in Word
  BY <1>1, WordArithmetic, NumbersArePositive DEF Word
<1>4. /\ f \in Nat /\ a \in Nat /\ i \in Nat /\ r \in Nat
      /\ f + a + i + r \in Word /\ a + i \in Word /\ r \in Word
  BY <1>1, SumFits, NumbersArePositive DEF Word, Counted
<1> HIDE DEF f, a, i, r, l
<1> DEFINE c == Spare(a + i, l)
           s == Spare(r, l)
<1>5. /\ c \in 0 .. a + i /\ s \in 0 .. r
      /\ c = a + i - (IF (a + i) \div 2 < l THEN (a + i) \div 2 ELSE l)
      /\ s = r - (IF r \div 2 < l THEN r \div 2 ELSE l)
  BY <1>3, <1>4, SpareIsExact
<1> HIDE DEF c, s
<1>6. /\ PageCache = a + i
      /\ Plus(f, c) = f + c /\ Plus(f + c, s) = f + c + s
      /\ f + c + s \in Word
  <2>1. /\ f + c \in Word /\ f + c + s \in Word /\ a \in Int /\ i \in Int
        /\ f \in Int /\ c \in Int /\ s \in Int
    BY <1>4, <1>5, NumbersArePositive DEF Word
  <2> QED BY <1>2, <1>4, <2>1, WordArithmetic DEF PageCache
<1>7. Better(l) = IF f + c + s > l THEN (f + c + s) - l ELSE 0
  <2> DEFINE sum == f + c + s
  <2>1. sum \in Word /\ sum \in Int /\ l \in Int
    BY <1>3, <1>6, NumbersArePositive DEF Word
  <2>2. Better(l) = IF sum > l THEN Minus(sum, l) ELSE 0
    BY <1>2, <1>6 DEF Better, c, s
  <2> HIDE DEF sum
  <2>3. sum > l => sum - l \in Word
    BY <1>3, <2>1, NumbersArePositive DEF Word
  <2>4. sum > l => Minus(sum, l) = sum - l
    BY <2>1, <2>3, WordArithmetic
  <2>5. Better(l) = IF sum > l THEN sum - l ELSE 0
    BY <2>2, <2>4
  <2> QED BY <2>5 DEF sum
<1>8. Reference' = (f + c + s) - l
  <2>1. Reference' = f + (a + i) - (IF (a + i) \div 2 < l THEN (a + i) \div 2
                                                           ELSE l)
                       + r - (IF r \div 2 < l THEN r \div 2 ELSE l) - l
    BY <1>1 DEF Reference, Kept, Shown, f, a, i, r, l
  <2> DEFINE k1 == IF (a + i) \div 2 < l THEN (a + i) \div 2 ELSE l
             k2 == IF r \div 2 < l THEN r \div 2 ELSE l
  <2>2. k1 \in Int /\ k2 \in Int
    BY <1>3, <1>4, NumbersArePositive DEF Word
  <2> HIDE DEF k1, k2
  <2>3. Reference' = f + (a + i) - k1 + r - k2 - l
    BY <2>1 DEF k1, k2
  <2>4. c = a + i - k1 /\ s = r - k2
    BY <1>5 DEF k1, k2
  <2> QED BY <1>3, <1>4, <2>2, <2>3, <2>4, NumbersArePositive DEF Word
<1>9. Better(l) \in Word /\ Better(l) = NotNegative(Reference')
  <2> DEFINE sum == f + c + s
             ref == Reference'
  <2>1. /\ sum \in Word /\ l \in Word /\ ref = sum - l
        /\ Better(l) = IF sum > l THEN sum - l ELSE 0
    BY <1>3, <1>6, <1>7, <1>8
  <2> HIDE DEF sum, ref
  <2>2. Better(l) \in Word /\ Better(l) = IF ref < 0 THEN 0 ELSE ref
    BY <2>1, NumbersArePositive DEF Word
  <2> QED BY <2>2 DEF NotNegative, ref
<1>10. mem' \in [Slots -> Word] /\ mem'["available"] = Better(l)
       /\ \A t \in Slots \ {"available"} : mem'[t] = mem[t]
  BY <1>1, <1>9 DEF Slots, l
<1>11. (mem["available"] = Available)'
  <2>1. Shown("MemAvailable")' = 0 /\ DOMAIN second' # {}
    BY <1>1 DEF Shown
  <2>2. Available' = NotNegative(Reference')
    BY <2>1 DEF Available, NotNegative
  <2> QED BY <1>9, <1>10, <2>2
<1>12. Collected(Lasting, {})'
  <2>1. \A k \in Lasting : Slot(k) \in Slots \ {"available"}
    BY DEF Lasting, Slot, Slots, InactParts
  <2> QED BY <1>1, <1>10, <2>1 DEF Collected, Got
<1> QED BY <1>1, <1>3, <1>10, <1>11, <1>12 DEF IInv, TypeOK, Progress, l

\* The believable amount is the reference's, and the total can be split by it.
LEMMA UsageKeeps ==
  ASSUME IInv, Usage
  PROVE  IInv'
<1> DEFINE b == Believable
           t == mem["total"]
           u == Minus(t, b)
           f == mem["free"]
           v == mem["available"]
<1>1. /\ pc = "usage" /\ call = "virtual" /\ status = "NONE"
      /\ mem \in [Slots -> Word] /\ MemInfoOK(meminfo)
      /\ pc' = "close" /\ t # 0
      /\ mem' = [mem EXCEPT !["available"] = b, !["used"] = u]
      /\ Collected(Lasting, {}) /\ v = Available
      /\ unread = {} /\ streams # {}
      /\ UNCHANGED <<call, meminfo, second, unread, low, status, streams>>
  BY DEF IInv, TypeOK, Progress, Usage
<1>2. t = Shown("MemTotal") /\ f = Shown("MemFree")
  BY <1>1, LastingSlots
<1>3. t \in Word /\ f \in Word /\ v \in Word
  BY <1>1 DEF Slots
<1>4. f <= t
  <2>1. KiB \in Nat
    BY NumbersArePositive
  <2>2. CASE {"MemTotal", "MemFree"} \subseteq DOMAIN meminfo
    <3> DEFINE x == meminfo["MemFree"]
               y == meminfo["MemTotal"]
    <3>1. x \in Nat /\ y \in Nat /\ x <= y
      BY <1>1, <2>2, LineFits DEF MemInfoOK
    <3>2. f = KiB * x /\ t = KiB * y
      BY <1>2, <2>2 DEF Shown, Shows
    <3> HIDE DEF x, y, f, t
    <3> QED BY <2>1, <3>1, <3>2
  <2>3. CASE "MemTotal" \notin DOMAIN meminfo
    BY <1>1, <1>2, <2>1, <2>3 DEF Shown, Shows
  <2>4. CASE "MemFree" \notin DOMAIN meminfo
    <3>1. f = 0
      BY <1>2, <2>1, <2>4 DEF Shown, Shows
    <3> QED BY <1>3, <3>1 DEF Word
  <2> QED BY <2>2, <2>3, <2>4
<1>5. b = IF v > t THEN f ELSE v
  BY DEF Believable
<1>6. b \in Word /\ t - b \in Word /\ b \in Int /\ t \in Int
  <2> HIDE DEF b, t, f, v
  <2> QED BY <1>3, <1>4, <1>5, NumbersArePositive DEF Word
<1>7. u = t - b /\ u \in Word /\ u + b = t
  <2> HIDE DEF b, t
  <2>1. u = t - b
    BY <1>6, WordArithmetic
  <2> QED BY <1>6, <2>1
<1>8. b = Capped(Available)
  <2>1. v \in Nat
    BY <1>3, NumbersArePositive DEF Word
  <2> QED BY <1>1, <1>2, <1>5, <2>1 DEF Capped
<1> HIDE DEF b, u
<1>9. /\ mem' \in [Slots -> Word]
      /\ mem'["available"] = b /\ mem'["used"] = u
      /\ mem'["total"] = t /\ mem'["free"] = f
  BY <1>1, <1>6, <1>7 DEF Slots
<1>10. (Capped(Available))' = Capped(Available)
       /\ Shown("MemTotal")' = Shown("MemTotal")
       /\ Shown("MemFree")' = Shown("MemFree")
  BY <1>1 DEF Capped, Available, Shown, Reference, Kept
<1>11. TypeOK'
  BY <1>1, <1>9 DEF IInv, TypeOK
<1>12. Progress'
  BY <1>1, <1>2, <1>7, <1>8, <1>9, <1>10 DEF Progress
<1> QED BY <1>11, <1>12 DEF IInv

\* Swap: the lines, /proc/vmstat and the check of the result.
LEMMA SwapReadKeeps ==
  ASSUME IInv, SwapRead
  PROVE  IInv'
<1>1. /\ pc = "lines" /\ call = "swap" /\ unread = {} /\ status = "NONE"
      /\ MemInfoOK(meminfo) /\ mem \in [Slots -> Word]
      /\ pc' \in {"vmstat", "validate"} /\ streams # {}
      /\ UNCHANGED <<call, meminfo, mem, low, status, streams>>
  BY DEF IInv, TypeOK, Progress, SwapRead
<1>2. Collected(SwapLines, {})
  BY <1>1 DEF IInv, Progress, Wanted
<1>3. Collected(SwapLines, {})'
  BY <1>1, <1>2 DEF Collected, Got
<1>4. /\ unread' \subseteq DOMAIN second'
      /\ pc' = "validate" => unread' = {}
      /\ \A i \in DOMAIN second' : second'[i] \in Nat
      /\ unread' \subseteq VmLines
  BY <1>1, VmStatsAreOK DEF SwapRead, IInv, TypeOK
<1> QED BY <1>1, <1>3, <1>4 DEF IInv, TypeOK, Progress

\* A line of /proc/vmstat leaves the total and the free swap alone.
LEMMA ReadVmLineKeeps ==
  ASSUME IInv, NEW k \in unread, ReadVmLine(k)
  PROVE  IInv'
<1>1. /\ pc = "vmstat" /\ call = "swap" /\ status = "NONE"
      /\ mem \in [Slots -> Word] /\ k \in DOMAIN second
      /\ second[k] \in Nat
      /\ mem' = [mem EXCEPT ![Slot(k)] = Times(PageSize, second[k])]
      /\ unread' = unread \ {k}
      /\ Collected(SwapLines, {})
      /\ UNCHANGED <<call, pc, meminfo, second, low, status, streams>>
  BY DEF IInv, TypeOK, Progress, ReadVmLine
<1>2. k \in VmLines
  BY <1>1 DEF IInv, Progress
<1>3. Times(PageSize, second[k]) \in Word
  BY <1>1, WordArithmetic, NumbersArePositive
<1>4. mem' \in [Slots -> Word]
  BY <1>1, <1>3
<1>5. Collected(SwapLines, {})'
  <2>1. \A j \in SwapLines : Slot(j) # Slot(k) /\ Slot(j) \in Slots
    BY <1>2, SlotsDiffer
  <2> QED BY <1>1, <2>1 DEF Collected, Got
<1> QED BY <1>1, <1>2, <1>4, <1>5 DEF IInv, TypeOK, Progress

\* What the check lets pass can be subtracted (mem.c:279-290).
LEMMA ValidateKeeps ==
  ASSUME IInv, Validate
  PROVE  IInv'
<1> DEFINE t == mem["total"]
           f == mem["free"]
           u == Minus(t, f)
<1>1. /\ pc = "validate" /\ call = "swap" /\ status = "NONE"
      /\ mem \in [Slots -> Word] /\ MemInfoOK(meminfo)
      /\ pc' = "close" /\ unread = {} /\ streams # {}
      /\ UNCHANGED <<call, meminfo, second, unread, low, streams>>
      /\ Collected(SwapLines, {})
  BY DEF IInv, TypeOK, Progress, Validate
<1>2. t = Shown("SwapTotal") /\ f = Shown("SwapFree")
  BY <1>1, SwapSlots
<1>3. CASE Unusable
  BY <1>1, <1>3 DEF Validate, IInv, TypeOK, Progress
<1>4. CASE ~Unusable
  <2>0. ~(f > t) /\ f \in Word /\ t \in Word
    BY <1>1, <1>4 DEF Unusable, Slots
  <2> HIDE DEF t, f
  <2>1. f <= t /\ f \in Int /\ t \in Int /\ f \in Word /\ t \in Word
    BY <2>0, NumbersArePositive DEF Word
  <2>2. t - f \in Word
    BY <2>1, NumbersArePositive DEF Word
  <2>3. u = t - f /\ u \in Word /\ u + f = t
    BY <2>1, <2>2, WordArithmetic
  <2>4. mem' = [mem EXCEPT !["used"] = u]
    BY <1>4 DEF Validate, t, f
  <2> HIDE DEF u
  <2>5. /\ mem' \in [Slots -> Word] /\ mem'["used"] = u
        /\ mem'["total"] = t /\ mem'["free"] = f
    BY <1>1, <2>3, <2>4 DEF Slots, t, f
  <2>6. Shown("SwapTotal")' = t /\ Shown("SwapFree")' = f
    BY <1>1, <1>2 DEF Shown
  <2>7. status' = "NONE"
    BY <1>1, <1>4 DEF Validate
  <2> QED BY <1>1, <2>3, <2>5, <2>6, <2>7 DEF IInv, TypeOK, Progress
<1> QED BY <1>3, <1>4

-----------------------------------------------------------------------------
\* Before the first call the invariant holds.
LEMMA InitInv == Init => IInv
<1> SUFFICES ASSUME Init PROVE IInv
  OBVIOUS
<1>1. 0 \in Word
  BY NumbersArePositive DEF Word
<1>2. DOMAIN Nothing = {}
  BY DEF Nothing
<1>3. MemInfoOK(Nothing)
  <2>1. KiB \in Nat /\ Modulus > 0 /\ Modulus \in Nat
    BY NumbersArePositive
  <2>2. \A k : Shows(Nothing, k) = 0
    BY <1>2 DEF Shows
  <2> QED BY <1>2, <2>1, <2>2 DEF MemInfoOK, SwapLines
<1> QED BY <1>1, <1>2, <1>3 DEF Init, IInv, TypeOK, Progress, Cleared

\* The files are opened, and nothing of them is read yet.
LEMMA OpenFilesKeeps ==
  ASSUME IInv, OpenFiles
  PROVE  IInv'
<1>1. /\ pc = "open" /\ pc' = "lines" /\ mem = Cleared /\ status = "NONE"
      /\ DOMAIN second = {}
      /\ MemInfoOK(meminfo')
      /\ unread' = DOMAIN meminfo' \cap Matched(call)
      /\ streams' # {} /\ streams' \subseteq {"meminfo", "second"}
      /\ UNCHANGED <<call, second, mem, low, status>>
  BY MemInfosAreOK DEF IInv, TypeOK, Progress, OpenFiles
<1>2. Collected(Wanted, unread)'
  <2> SUFFICES ASSUME NEW k \in Wanted
               PROVE  mem'[Slot(k)] = Got(k, unread)'
    BY <1>1 DEF Collected, Wanted
  <2>1. k \in Matched(call)
    BY DEF Wanted, Matched, Counted, Plain
  <2>2. k \notin DOMAIN meminfo' \ unread'
    BY <1>1, <2>1
  <2>3. Got(k, unread)' = 0
    BY <2>2 DEF Got
  <2>4. Slot(k) \in Slots
    BY SlotsDiffer DEF Wanted, Counted, Plain
  <2> QED BY <1>1, <2>3, <2>4 DEF Cleared
<1> QED BY <1>1, <1>2 DEF IInv, TypeOK, Progress

\* Every step keeps the invariant: one case per action.
LEMMA StepInv == IInv /\ [Next]_vars => IInv'
<1> SUFFICES ASSUME IInv, [Next]_vars PROVE IInv'
  OBVIOUS
<1>1. ASSUME NEW which \in {"virtual", "swap"}, Call(which) PROVE IInv'
  <2>1. 0 \in Word /\ Cleared \in [Slots -> Word]
    BY NumbersArePositive DEF Word, Cleared
  <2>2. MemInfoOK(Nothing) /\ DOMAIN Nothing = {}
    <3>1. KiB \in Nat /\ Modulus > 0 /\ Modulus \in Nat
      BY NumbersArePositive
    <3>2. DOMAIN Nothing = {}
      BY DEF Nothing
    <3>3. \A k : Shows(Nothing, k) = 0
      BY <3>2 DEF Shows
    <3> QED BY <3>1, <3>2, <3>3 DEF MemInfoOK, SwapLines
  <2> QED BY <1>1, <2>1, <2>2 DEF Call, IInv, TypeOK, Progress
<1>2. CASE OpenFails
  BY <1>2 DEF OpenFails, IInv, TypeOK, Progress
<1>3. CASE OpenFiles
  BY <1>3, OpenFilesKeeps
<1>4. ASSUME NEW k \in unread, ReadLine(k) PROVE IInv'
  BY <1>4, ReadLineKeeps
<1>5. ASSUME NEW k \in unread, ReadZone(k) PROVE IInv'
  <2>1. /\ pc = "zones" /\ k \in DOMAIN second /\ second[k] \in Nat
        /\ low \in Word /\ low' = Plus(low, second[k])
        /\ unread' = unread \ {k}
        /\ UNCHANGED <<call, pc, meminfo, second, mem, status, streams>>
    BY <1>5 DEF IInv, TypeOK, ReadZone
  <2>2. low' \in Word
    BY <2>1, WordArithmetic, NumbersArePositive DEF Word
  <2>3. Collected(Lasting, {})' /\ Shown("MemAvailable")' = 0
    BY <2>1 DEF IInv, Progress, Collected, Got, Shown
  <2> QED BY <2>1, <2>2, <2>3 DEF IInv, TypeOK, Progress
<1>6. ASSUME NEW k \in unread, ReadVmLine(k) PROVE IInv'
  BY <1>6, ReadVmLineKeeps
<1>7. CASE FreeMissing \/ AvailableShown \/ Approximate \/ OpenZones
  BY <1>7, LinesEndKeeps
<1>8. CASE Estimate
  BY <1>8, EstimateKeeps
<1>9. CASE TotalMissing
  BY <1>9 DEF TotalMissing, IInv, TypeOK, Progress
<1>10. CASE Usage
  BY <1>10, UsageKeeps
<1>11. CASE SwapRead
  BY <1>11, SwapReadKeeps
<1>12. CASE VmStatRead
  <2>1. Collected(SwapLines, {})'
    BY <1>12 DEF VmStatRead, IInv, Progress, Collected, Got
  <2> QED BY <1>12, <2>1 DEF VmStatRead, IInv, TypeOK, Progress
<1>13. CASE Validate
  BY <1>13, ValidateKeeps
<1>14. CASE Close \/ Return \/ UNCHANGED vars
  <2>1. /\ UNCHANGED <<call, meminfo, second, unread, mem, low, status>>
        /\ \/ UNCHANGED <<pc, streams>>
           \/ pc = "close" /\ pc' = "returned" /\ streams' = {}
           \/ pc = "returned" /\ pc' = "idle" /\ UNCHANGED streams
    BY <1>14 DEF Close, Return, vars
  <2>2. /\ Capped(Available)' = Capped(Available)
        /\ Available' = Available
        /\ \A k : Shown(k)' = Shown(k)
        /\ Collected(Lasting, {})' <=> Collected(Lasting, {})
        /\ Collected(SwapLines, {})' <=> Collected(SwapLines, {})
        /\ Collected(Wanted, unread)' <=> Collected(Wanted, unread)
    BY <2>1 DEF Capped, Available, Shown, Reference, Kept, Collected, Got,
                Wanted
  <2> QED BY <2>1, <2>2 DEF IInv, TypeOK, Progress
<1> QED BY <1>1, <1>2, <1>3, <1>4, <1>5, <1>6, <1>7, <1>8, <1>9, <1>10,
           <1>11, <1>12, <1>13, <1>14 DEF Next

-----------------------------------------------------------------------------
\* Sums

\* A set of numbers that is not empty has a least one.
LEMMA LeastNumber ==
  ASSUME NEW S \in SUBSET Nat, S # {}
  PROVE  \E m \in S : \A n \in S : m <= n
<1> DEFINE R == {ss \in Nat \X Nat : ss[1] < ss[2]}
<1>1. IsWellFoundedOn(R, Nat)
  BY NatLessThanWellFounded DEF OpToRel
<1>2. \A n, k \in Nat : n < k => <<n, k>> \in R
  OBVIOUS
<1> HIDE DEF R
<1>3. PICK m \in S : \A n \in S : ~(<<n, m>> \in R)
  BY <1>1, WFMin
<1>4. ASSUME NEW n \in S PROVE m <= n
  <2>1. n \in Nat /\ m \in Nat
    OBVIOUS
  <2>2. ~(n < m)
    BY <1>2, <1>3, <2>1
  <2> QED BY <2>1, <2>2
<1> QED BY <1>4

\* Induction: a set of numbers with 0 and all successors has all.
LEMMA AllNumbers ==
  ASSUME NEW P \in SUBSET Nat, 0 \in P, \A n \in P : n + 1 \in P
  PROVE  P = Nat
<1>1. SUFFICES ASSUME Nat \ P # {} PROVE FALSE
  OBVIOUS
<1>2. PICK m \in Nat \ P : \A n \in Nat \ P : m <= n
  BY <1>1, LeastNumber
<1>3. m # 0 /\ m - 1 \in Nat /\ ~(m <= m - 1) /\ (m - 1) + 1 = m
  OBVIOUS
<1>4. m - 1 \in P
  BY <1>2, <1>3
<1> QED BY <1>3, <1>4

\* The function behind the sum of g over S.
IsSum(it, g, S) ==
  it = [s \in SUBSET S |->
          IF s = {} THEN 0
          ELSE LET x == CHOOSE x \in s : TRUE IN g[x] + it[s \ {x}]]

\* What such a function is, set by set.
LEMMA SumValue ==
  ASSUME NEW S, NEW g, NEW it, IsSum(it, g, S), NEW T \in SUBSET S
  PROVE  /\ T = {} => it[T] = 0
         /\ T # {} => /\ (CHOOSE x \in T : TRUE) \in T
                      /\ it[T] = g[CHOOSE x \in T : TRUE]
                                   + it[T \ {CHOOSE x \in T : TRUE}]
<1>1. it[T] = IF T = {} THEN 0
              ELSE LET x == CHOOSE x \in T : TRUE IN g[x] + it[T \ {x}]
  BY Zenon DEF IsSum
<1>2. T # {} => (CHOOSE x \in T : TRUE) \in T
  OBVIOUS
<1> QED BY <1>1, <1>2

\* It exists for every finite set.
LEMMA SumExists ==
  ASSUME NEW S, IsFiniteSet(S), NEW g
  PROVE  \E it : IsSum(it, g, S)
<1> DEFINE Small(n) == {s \in SUBSET S : Cardinality(s) <= n}
           First(s) == CHOOSE x \in s : TRUE
           IsSumTo(it, n) ==
             it = [s \in Small(n) |-> IF s = {} THEN 0
                                      ELSE g[First(s)] + it[s \ {First(s)}]]
           P == {n \in Nat : \E it : IsSumTo(it, n)}
<1>1. \A s \in SUBSET S : /\ IsFiniteSet(s) /\ Cardinality(s) \in Nat
                          /\ Cardinality(s) = 0 <=> s = {}
                          /\ Cardinality(s) <= Cardinality(S)
  BY FS_Subset, FS_CardinalityType, FS_EmptySet
<1>2. \A s \in SUBSET S : s # {} =>
        /\ First(s) \in s /\ s \ {First(s)} \in SUBSET S
        /\ Cardinality(s \ {First(s)}) = Cardinality(s) - 1
  BY <1>1, FS_RemoveElement
<1>3. 0 \in P
  <2> DEFINE it == [s \in Small(0) |-> 0]
  <2>1. \A s \in Small(0) : s = {}
    BY <1>1
  <2>2. IsSumTo(it, 0)
    BY <2>1, Zenon
  <2> QED BY <2>2
<1>4. ASSUME NEW n \in P PROVE n + 1 \in P
  <2>1. PICK it : IsSumTo(it, n)
    OBVIOUS
  <2> DEFINE next == [s \in Small(n + 1) |->
                        IF s = {} THEN 0
                        ELSE g[First(s)] + it[s \ {First(s)}]]
  <2>2. \A s \in Small(n) : next[s] = it[s]
    <3>1. \A s \in Small(n) : s \in Small(n + 1)
      BY <1>1
    <3>2. \A s \in Small(n) : it[s] = IF s = {} THEN 0
                                ELSE g[First(s)] + it[s \ {First(s)}]
      <4> HIDE DEF Small, First
      <4> QED BY <2>1
    <3> HIDE DEF Small, First
    <3> QED BY <3>1, <3>2
  <2>3. \A s \in Small(n + 1) : s # {} => s \ {First(s)} \in Small(n)
    <3> HIDE DEF First
    <3> QED BY <1>1, <1>2
  <2>4. IsSumTo(next, n + 1)
    <3>1. \A s \in Small(n + 1) :
            (IF s = {} THEN 0 ELSE g[First(s)] + it[s \ {First(s)}])
            = (IF s = {} THEN 0 ELSE g[First(s)] + next[s \ {First(s)}])
      <4> HIDE DEF Small, First, next
      <4> QED BY <2>2, <2>3
    <3>2. next = [s \in Small(n + 1) |->
                    IF s = {} THEN 0
                    ELSE g[First(s)] + next[s \ {First(s)}]]
      <4>1. next = [s \in Small(n + 1) |->
                      IF s = {} THEN 0
                      ELSE g[First(s)] + it[s \ {First(s)}]]
        OBVIOUS
      <4> HIDE DEF Small, First, next
      <4> QED BY <3>1, <4>1
    <3> HIDE DEF Small, First, next
    <3> QED BY <3>2
  <2> HIDE DEF IsSumTo, next
  <2> QED BY <2>4
<1>5. P = Nat
  <2> HIDE DEF P
  <2> QED BY <1>3, <1>4, AllNumbers DEF P
<1>6. PICK it : IsSumTo(it, Cardinality(S))
  <2>1. Cardinality(S) \in P
    BY <1>5, FS_CardinalityType
  <2> QED BY <2>1
<1>7. Small(Cardinality(S)) = SUBSET S
  BY <1>1
<1>8. it = [s \in SUBSET S |->
              IF s = {} THEN 0 ELSE g[First(s)] + it[s \ {First(s)}]]
  BY <1>6, <1>7, Zenon
<1>9. IsSum(it, g, S)
  BY <1>8, Zenon DEF IsSum
<1> QED BY <1>9

\* What is added up from numbers is a number.
LEMMA SumIsNumber ==
  ASSUME NEW S, IsFiniteSet(S), NEW g, \A s \in S : g[s] \in Nat,
         NEW it, IsSum(it, g, S), NEW U \in SUBSET S
  PROVE  it[U] \in Nat
<1> DEFINE P == {n \in Nat : \A T \in SUBSET S :
                               Cardinality(T) = n => it[T] \in Nat}
<1>1. \A T \in SUBSET S : /\ IsFiniteSet(T) /\ Cardinality(T) \in Nat
                          /\ Cardinality(T) = 0 <=> T = {}
  BY FS_Subset, FS_EmptySet, FS_CardinalityType
<1>2. 0 \in P
  <2>1. ASSUME NEW T \in SUBSET S, Cardinality(T) = 0 PROVE it[T] \in Nat
    <3>1. T = {}
      BY <1>1, <2>1
    <3>2. it[T] = 0
      BY <3>1, SumValue
    <3> QED BY <3>1, <3>2
  <2> QED BY <2>1
<1>3. ASSUME NEW n \in P PROVE n + 1 \in P
  <2>1. ASSUME NEW T \in SUBSET S, Cardinality(T) = n + 1
        PROVE  it[T] \in Nat
    <3>1. PICK c \in T : it[T] = g[c] + it[T \ {c}]
      <4>1. T # {}
        BY <1>1, <2>1
      <4>2. /\ (CHOOSE x \in T : TRUE) \in T
            /\ it[T] = g[CHOOSE x \in T : TRUE]
                         + it[T \ {CHOOSE x \in T : TRUE}]
        BY <4>1, SumValue
      <4> QED BY <4>2, Zenon
    <3>2. T \ {c} \in SUBSET S /\ Cardinality(T \ {c}) = n
      <4>1. Cardinality(T \ {c}) = Cardinality(T) - 1 /\ n \in Nat
        BY <1>1, FS_RemoveElement
      <4> HIDE DEF P
      <4> QED BY <2>1, <4>1
    <3>3. it[T \ {c}] \in Nat /\ g[c] \in Nat
      BY <3>2
    <3> HIDE DEF P
    <3> QED BY <3>1, <3>3
  <2> QED BY <2>1
<1>4. P = Nat
  <2> HIDE DEF P
  <2> QED BY <1>2, <1>3, AllNumbers DEF P
<1>5. Cardinality(U) \in P
  BY <1>1, <1>4
<1> QED BY <1>5

\* Where numbers are added, any element can be taken out of the sum.
LEMMA TakenOut ==
  ASSUME NEW S, IsFiniteSet(S), NEW g, \A s \in S : g[s] \in Nat,
         NEW it, IsSum(it, g, S), NEW U \in SUBSET S
  PROVE  \A x \in U : it[U] = g[x] + it[U \ {x}]
<1> DEFINE OutOf(T) == \A x \in T : it[T] = g[x] + it[T \ {x}]
           P == {n \in Nat : \A T \in SUBSET S :
                               Cardinality(T) = n => OutOf(T)}
<1>1. \A T \in SUBSET S : /\ IsFiniteSet(T) /\ Cardinality(T) \in Nat
                          /\ Cardinality(T) = 0 <=> T = {}
  BY FS_Subset, FS_EmptySet, FS_CardinalityType
<1>2. 0 \in P
  BY <1>1
<1>3. ASSUME NEW n \in P PROVE n + 1 \in P
  <2>1. ASSUME NEW T \in SUBSET S, Cardinality(T) = n + 1 PROVE OutOf(T)
    <3>1. ASSUME NEW x \in T PROVE OutOf(T \ {x})
      <4>1. T \ {x} \in SUBSET S /\ Cardinality(T \ {x}) = n
        <5>1. Cardinality(T \ {x}) = Cardinality(T) - 1 /\ n \in Nat
          BY <1>1, FS_RemoveElement
        <5> HIDE DEF P
        <5> QED BY <2>1, <5>1
      <4> HIDE DEF OutOf
      <4> QED BY <4>1
    <3>2. PICK c \in T : it[T] = g[c] + it[T \ {c}]
      <4>1. T # {}
        BY <1>1, <2>1
      <4>2. /\ (CHOOSE x \in T : TRUE) \in T
            /\ it[T] = g[CHOOSE x \in T : TRUE]
                         + it[T \ {CHOOSE x \in T : TRUE}]
        BY <4>1, SumValue
      <4> QED BY <4>2, Zenon
    <3>3. ASSUME NEW x \in T, x # c PROVE it[T] = g[x] + it[T \ {x}]
      <4>1. (T \ {c}) \ {x} = (T \ {x}) \ {c}
        OBVIOUS
      <4>2. it[T \ {c}] = g[x] + it[(T \ {x}) \ {c}]
        BY <3>1, <3>3, <4>1
      <4>3. it[T \ {x}] = g[c] + it[(T \ {x}) \ {c}]
        BY <3>1, <3>3
      <4>4. g[x] \in Nat /\ g[c] \in Nat /\ it[(T \ {x}) \ {c}] \in Nat
        BY SumIsNumber
      <4> HIDE DEF P, OutOf
      <4> QED BY <3>2, <4>2, <4>3, <4>4
    <3> QED BY <3>2, <3>3
  <2> QED BY <2>1
<1>4. P = Nat
  <2> HIDE DEF P
  <2> QED BY <1>2, <1>3, AllNumbers DEF P
<1>5. OutOf(U)
  <2> HIDE DEF OutOf
  <2> QED BY <1>1, <1>4
<1> QED BY <1>5

-----------------------------------------------------------------------------
\* What is only passed on, and the watermarks

PassedOn(rest) ==
  /\ \A k \in {"Buffers", "Active", "Slab"} : mem[Slot(k)] = Got(k, rest)
  /\ mem["shared"] = Got("Shmem", rest) + Got("MemShared", rest)
  /\ mem["inactive"] = Got("Inactive", rest) + Got("Inact_dirty", rest)
                         + Got("Inact_clean", rest)
                         + Got("Inact_laundry", rest)

AllCachedShown == mem["cached"] = Shown("Cached") + Shown("SReclaimable")

\* The sums of the watermarks of sets of zones, as FoldFunction forms them.
ZoneSum(zones) == CHOOSE it : IsSum(it, zones, DOMAIN zones)

Watermarks ==
  DOMAIN second # {} => low = PageSize * FoldFunction(+, 0, second)

FieldsInv ==
  /\ pc = "lines" /\ call = "virtual" => PassedOn(unread)
  /\ pc \in {"open", "lines"} => low = 0
  /\ pc \in {"zones", "usage"} => PassedOn({}) /\ AllCachedShown
  /\ pc = "zones" => /\ second \in ZoneInfos
                     /\ low + ZoneSum(second)[unread]
                          = ZoneSum(second)[DOMAIN second]
  /\ pc = "usage" => Watermarks
  /\ pc \in {"close", "returned"} =>
       /\ status = "NONE" /\ call = "virtual" =>
            PassedOn({}) /\ AllCachedShown /\ Watermarks
       /\ status = "MALFORMED" =>
            IF call = "swap" THEN ~(SwapLines \subseteq DOMAIN meminfo)
            ELSE Shown("MemFree") = 0 \/ Shown("MemTotal") = 0

\* The watermarks together are one of those sums, and fit a word in bytes.
LEMMA ZoneFold ==
  ASSUME NEW zones \in ZoneInfos
  PROVE  /\ IsFiniteSet(DOMAIN zones)
         /\ IsSum(ZoneSum(zones), zones, DOMAIN zones)
         /\ FoldFunction(+, 0, zones) = ZoneSum(zones)[DOMAIN zones]
         /\ \A U \in SUBSET DOMAIN zones : ZoneSum(zones)[U] \in Nat
         /\ ZoneSum(zones)[DOMAIN zones] < Modulus
         /\ PageSize * ZoneSum(zones)[DOMAIN zones] < Modulus
<1> DEFINE it == ZoneSum(zones)
           all == it[DOMAIN zones]
<1>1. IsFiniteSet(DOMAIN zones) /\ \A i \in DOMAIN zones : zones[i] \in Nat
  BY ZoneInfosAreOK
<1>2. IsSum(it, zones, DOMAIN zones)
  BY <1>1, SumExists DEF ZoneSum
<1>3. FoldFunction(+, 0, zones) = all
  BY DEF FoldFunction, FoldFunctionOnSet, MapThenFoldSet, ZoneSum, IsSum
<1>4. \A U \in SUBSET DOMAIN zones : it[U] \in Nat
  <2> HIDE DEF it
  <2> QED BY <1>1, <1>2, SumIsNumber
<1>5. PageSize * all < Modulus
  BY <1>3, ZoneInfosAreOK
<1>6. all < Modulus
  <2>1. all \in Nat
    BY <1>4
  <2> HIDE DEF all
  <2>2. PageSize \in Nat /\ PageSize >= 1 /\ Modulus \in Nat
    BY NumbersArePositive
  <2>3. \A p, n \in Nat : p >= 1 => n <= p * n
    OBVIOUS
  <2> QED BY <1>5, <2>1, <2>2, <2>3
<1> QED BY <1>1, <1>2, <1>3, <1>4, <1>5, <1>6

\* The slots that are only passed on stay with what they hold.
LEMMA PassedOnStays ==
  ASSUME PassedOn({}), meminfo' = meminfo,
         \A s \in {"buffers", "active", "slab", "shared", "inactive"} :
           mem'[s] = mem[s]
  PROVE  PassedOn({})'
<1>1. Slot("Buffers") = "buffers" /\ Slot("Active") = "active"
      /\ Slot("Slab") = "slab"
  BY DEF Slot, InactParts
<1>2. \A k \in {"Buffers", "Active", "Slab"} : mem'[Slot(k)] = mem[Slot(k)]
  BY <1>1
<1>3. \A k : Got(k, {})' = Got(k, {})
  BY DEF Got
<1> QED BY <1>2, <1>3 DEF PassedOn

\* One line more: the parts of the inactive memory add up, and no other line
\* shares a slot with one that the same file has.
LEMMA ReadLineFields ==
  ASSUME IInv, FieldsInv, NEW k \in unread, ReadLine(k)
  PROVE  FieldsInv'
<1>1. /\ pc = "lines" /\ pc' = "lines" /\ low' = low /\ low = 0
      /\ k \in DOMAIN meminfo /\ k \in Matched(call)
      /\ mem \in [Slots -> Word] /\ MemInfoOK(meminfo)
      /\ unread \subseteq DOMAIN meminfo
      /\ UNCHANGED <<call, meminfo>>
      /\ mem' = [mem EXCEPT ![Slot(k)] = Parsed(k)] /\ unread' = unread \ {k}
  BY DEF IInv, TypeOK, ReadLine, FieldsInv
<1>2. SUFFICES ASSUME call = "virtual" PROVE PassedOn(unread)'
  BY <1>1 DEF FieldsInv
<1>3. k \in Plain \cup InactParts /\ PassedOn(unread)
  BY <1>1, <1>2 DEF Matched, FieldsInv
<1>4. meminfo[k] \in Nat /\ KiB * meminfo[k] \in Word
      /\ Times(KiB, meminfo[k]) = KiB * meminfo[k]
  BY <1>1, LineFits
<1> DEFINE Now(j) == Got(j, unread)
           Then(j) == Got(j, unread \ {k})
           bytes == KiB * meminfo[k]
<1>5. /\ \A j : Now(j) \in Nat
      /\ Now(k) = 0 /\ Then(k) = bytes /\ bytes \in Nat
      /\ \A j : j # k => Then(j) = Now(j)
  <2>1. \A j : Now(j) \in Nat
    BY <1>1, GotFits, NumbersArePositive DEF Word
  <2>2. Now(k) = 0 /\ Then(k) = bytes
    BY <1>1 DEF Got
  <2>3. \A j : j # k => Then(j) = Now(j)
    BY DEF Got
  <2>4. bytes \in Nat
    BY <1>4, NumbersArePositive DEF Word
  <2> QED BY <2>1, <2>2, <2>3, <2>4
<1>6. Slot(k) \in Slots
  BY <1>3, SlotsDiffer
<1>7. \A s \in Slots : mem'[s] = IF s = Slot(k) THEN Parsed(k) ELSE mem[s]
  BY <1>1
<1>8. \A j : Got(j, unread)' = Then(j)
  BY <1>1 DEF Got
<1>9. \A j \in {"Buffers", "Active", "Slab"} : mem'[Slot(j)] = Then(j)
  <2> SUFFICES ASSUME NEW j \in {"Buffers", "Active", "Slab"}
               PROVE  mem'[Slot(j)] = Then(j)
    OBVIOUS
  <2>1. mem[Slot(j)] = Now(j) /\ Slot(j) \in Slots
    BY <1>3 DEF PassedOn, Slot, Slots, InactParts
  <2>2. j # k => Slot(j) # Slot(k)
    BY <1>3 DEF Slot, Plain, InactParts
  <2>3. j = k => Parsed(k) = bytes
    BY <1>4 DEF Parsed, InactParts
  <2> QED BY <1>5, <1>7, <2>1, <2>2, <2>3
<1>10. mem'["shared"] = Then("Shmem") + Then("MemShared")
  <2>1. mem["shared"] = Now("Shmem") + Now("MemShared") /\ "shared" \in Slots
    BY <1>3 DEF PassedOn, Slots
  <2>2. CASE k \in {"Shmem", "MemShared"}
    <3>1. Slot(k) = "shared" /\ Parsed(k) = bytes
      BY <1>4, <2>2 DEF Slot, Parsed, InactParts
    <3>2. "Shmem" \notin DOMAIN meminfo \/ "MemShared" \notin DOMAIN meminfo
      BY <1>1 DEF MemInfoOK
    <3>3. k = "Shmem" => Now("MemShared") = 0
      BY <1>1, <3>2 DEF Got
    <3>4. k = "MemShared" => Now("Shmem") = 0
      BY <1>1, <3>2 DEF Got
    <3> HIDE DEF Now, Then, bytes
    <3> QED BY <1>5, <1>7, <2>1, <2>2, <3>1, <3>3, <3>4
  <2>3. CASE k \notin {"Shmem", "MemShared"}
    <3>1. Slot(k) # "shared"
      BY <1>3, <2>3 DEF Slot, Plain, InactParts
    <3> HIDE DEF Now, Then
    <3> QED BY <1>5, <1>7, <2>1, <2>3, <3>1
  <2> QED BY <2>2, <2>3
<1>11. mem'["inactive"] = Then("Inactive") + Then("Inact_dirty")
                            + Then("Inact_clean") + Then("Inact_laundry")
  <2>1. /\ mem["inactive"] = Now("Inactive") + Now("Inact_dirty")
                               + Now("Inact_clean") + Now("Inact_laundry")
        /\ "inactive" \in Slots
    BY <1>3 DEF PassedOn, Slots
  <2>2. "Inactive" \notin DOMAIN meminfo \/ DOMAIN meminfo \cap InactParts = {}
    BY <1>1 DEF MemInfoOK
  <2>3. CASE k = "Inactive"
    <3>1. Slot(k) = "inactive" /\ Parsed(k) = bytes
      BY <1>4, <2>3 DEF Slot, Parsed, InactParts
    <3>2. Now("Inact_dirty") = 0 /\ Now("Inact_clean") = 0
          /\ Now("Inact_laundry") = 0
      BY <1>1, <2>2, <2>3 DEF Got, InactParts
    <3> HIDE DEF Now, Then, bytes
    <3> QED BY <1>5, <1>7, <2>1, <2>3, <3>1, <3>2
  <2>4. CASE k \in InactParts
    <3>1. Slot(k) = "inactive" /\ Parsed(k) = Plus(mem["inactive"], bytes)
      BY <1>4, <2>4 DEF Slot, Parsed, InactParts
    <3>2. Now("Inactive") = 0
      BY <1>1, <2>2, <2>4 DEF Got
    <3>3. /\ Then("Inact_dirty") + Then("Inact_clean")
               + Then("Inact_laundry") < Modulus
          /\ \A j \in InactParts : Then(j) \in Nat
      <4>1. \A j : Then(j) \in Nat /\ Shown(j) \in Nat /\ Then(j) <= Shown(j)
        <5>1. \A j : Then(j) \in Nat /\ Shown(j) \in Nat
          BY <1>1, GotFits, NumbersArePositive DEF Word
        <5>2. \A j : Then(j) = 0 \/ Then(j) = Got(j, {})
          BY DEF Got
        <5>3. \A j : Shown(j) = Got(j, {})
          BY <1>1, GotFits
        <5> HIDE DEF Then
        <5> QED BY <5>1, <5>2, <5>3
      <4>2. Shown("Inact_dirty") + Shown("Inact_clean")
              + Shown("Inact_laundry") < Modulus
        BY <1>1 DEF MemInfoOK, Shown
      <4> HIDE DEF Then
      <4> QED BY <4>1, <4>2, NumbersArePositive
    <3> DEFINE sum == Then("Inact_dirty") + Then("Inact_clean")
                        + Then("Inact_laundry")
    <3>4. mem["inactive"] + bytes = sum /\ mem["inactive"] \in Nat
      <4> HIDE DEF Now, Then, bytes
      <4> QED BY <1>5, <2>1, <2>4, <3>2 DEF InactParts
    <3>5. sum \in Word
      <4> HIDE DEF Then
      <4> QED BY <3>3, NumbersArePositive DEF Word, InactParts
    <3>6. Plus(mem["inactive"], bytes) = sum
      <4> HIDE DEF sum, bytes
      <4> QED BY <1>5, <3>4, <3>5, WordArithmetic
    <3>7. Then("Inactive") = 0
      BY <1>5, <2>4, <3>2 DEF InactParts
    <3> HIDE DEF Then, bytes
    <3> QED BY <1>7, <2>1, <3>1, <3>3, <3>6, <3>7 DEF InactParts
  <2>5. CASE k \notin InactParts \cup {"Inactive"}
    <3>1. Slot(k) # "inactive"
      BY <1>3, <2>5 DEF Slot, Plain, InactParts
    <3>2. k \notin {"Inactive", "Inact_dirty", "Inact_clean", "Inact_laundry"}
      BY <2>5 DEF InactParts
    <3> HIDE DEF Now, Then
    <3> QED BY <1>5, <1>7, <2>1, <3>1, <3>2
  <2> QED BY <2>3, <2>4, <2>5
<1> QED BY <1>8, <1>9, <1>10, <1>11 DEF PassedOn

\* The end of the lines: cache and reclaimable slab become one figure.
LEMMA LinesEndFields ==
  ASSUME IInv, FieldsInv,
         FreeMissing \/ AvailableShown \/ Approximate \/ OpenZones
  PROVE  FieldsInv'
<1>1. /\ pc = "lines" /\ call = "virtual" /\ unread = {} /\ status = "NONE"
      /\ mem \in [Slots -> Word] /\ MemInfoOK(meminfo) /\ low = 0
      /\ DOMAIN second = {} /\ PassedOn({})
      /\ UNCHANGED <<call, meminfo, low>>
  BY DEF IInv, TypeOK, Progress, FreeMissing, AvailableShown, Approximate,
         OpenZones, LinesEnd, FieldsInv
<1>2. /\ mem["cached"] = Shown("Cached")
      /\ mem["reclaimable"] = Shown("SReclaimable")
      /\ mem["free"] = Shown("MemFree")
  BY <1>1, AllRead
<1>3. AllCached = Shown("Cached") + Shown("SReclaimable")
  <2> DEFINE f == Shown("MemFree") + Shown("Active(file)")
                    + Shown("Inactive(file)")
             r == Shown("SReclaimable")
             c == Shown("Cached")
  <2>1. f \in Nat /\ r \in Nat /\ c \in Nat /\ f + r + c \in Word
    BY <1>1, SumFits DEF Counted
  <2> HIDE DEF f, r, c
  <2>2. c + r \in Word
    BY <2>1, NumbersArePositive DEF Word
  <2>3. Plus(c, r) = c + r
    BY <2>1, <2>2, WordArithmetic
  <2> QED BY <1>2, <2>3 DEF AllCached, r, c
<1> DEFINE all == AllCached
           sum == Plus(mem["free"], mem["cached"])
<1>4. /\ mem'["cached"] = all
      /\ \A s \in Slots \ {"cached", "available"} : mem'[s] = mem[s]
  <2>1. mem' \in {[mem EXCEPT !["cached"] = all],
                  [mem EXCEPT !["cached"] = all, !["available"] = sum]}
    BY DEF FreeMissing, AvailableShown, Approximate, OpenZones
  <2> HIDE DEF all, sum
  <2> QED BY <1>1, <2>1 DEF Slots
<1>5. PassedOn({})'
  BY <1>1, <1>4, PassedOnStays DEF Slots
<1>6. AllCachedShown'
  BY <1>1, <1>3, <1>4 DEF AllCachedShown, Shown
<1>7. CASE FreeMissing
  BY <1>1, <1>2, <1>7 DEF FreeMissing, FieldsInv, Shown
<1>8. CASE AvailableShown \/ Approximate
  <2>1. pc' = "usage" /\ DOMAIN second' = {}
    BY <1>1, <1>8 DEF AvailableShown, Approximate
  <2> QED BY <1>5, <1>6, <2>1 DEF FieldsInv, Watermarks
<1>9. CASE OpenZones
  <2>1. pc' = "zones" /\ second' \in ZoneInfos /\ unread' = DOMAIN second'
    BY <1>9 DEF OpenZones
  <2>2. ZoneSum(second')[DOMAIN second'] \in Nat
    BY <2>1, ZoneFold
  <2>3. low' + ZoneSum(second')[unread'] = ZoneSum(second')[DOMAIN second']
    BY <1>1, <2>1, <2>2
  <2> QED BY <1>5, <1>6, <2>1, <2>3 DEF FieldsInv
<1> QED BY <1>7, <1>8, <1>9

\* One zone more: its watermark moves from what is still to come to what was
\* added up.
LEMMA ReadZoneFields ==
  ASSUME IInv, FieldsInv, NEW z \in unread, ReadZone(z)
  PROVE  FieldsInv'
<1> DEFINE it == ZoneSum(second)
           all == it[DOMAIN second]
<1>1. /\ pc = "zones" /\ pc' = "zones" /\ second \in ZoneInfos
      /\ low \in Word /\ unread \subseteq DOMAIN second
      /\ low + it[unread] = all
      /\ low' = Plus(low, second[z]) /\ unread' = unread \ {z}
      /\ PassedOn({}) /\ AllCachedShown
      /\ UNCHANGED <<call, meminfo, second, mem, status>>
  BY DEF IInv, TypeOK, ReadZone, FieldsInv
<1>2. /\ IsFiniteSet(DOMAIN second) /\ IsSum(it, second, DOMAIN second)
      /\ it[unread \ {z}] \in Nat /\ all \in Nat /\ all < Modulus
  BY <1>1, ZoneFold
<1>3. second[z] \in Nat /\ \A i \in DOMAIN second : second[i] \in Nat
  BY <1>1, ZoneInfosAreOK
<1> HIDE DEF it
<1>4. it[unread] = second[z] + it[unread \ {z}]
  BY <1>1, <1>2, <1>3, TakenOut
<1>5. low + second[z] \in Word /\ low \in Int
  BY <1>1, <1>2, <1>3, <1>4, NumbersArePositive DEF Word
<1>6. low' + it[unread'] = all
  <2>1. low' = low + second[z]
    BY <1>1, <1>3, <1>5, WordArithmetic
  <2> QED BY <1>1, <1>2, <1>3, <1>4, <1>5, <2>1
<1>7. ZoneSum(second)' = it
  BY <1>1 DEF it
<1>8. PassedOn({})' /\ AllCachedShown'
  BY <1>1, PassedOnStays DEF AllCachedShown, Shown
<1> QED BY <1>1, <1>6, <1>7, <1>8 DEF FieldsInv, it

\* The last watermark in, their sum becomes a number of bytes.
LEMMA EstimateFields ==
  ASSUME IInv, FieldsInv, Estimate
  PROVE  FieldsInv'
<1> DEFINE all == ZoneSum(second)[DOMAIN second]
<1>1. /\ pc = "zones" /\ pc' = "usage" /\ unread = {} /\ low \in Word
      /\ second \in ZoneInfos
      /\ low + ZoneSum(second)[{}] = all
      /\ low' = Times(low, PageSize) /\ PassedOn({}) /\ AllCachedShown
      /\ mem \in [Slots -> Word]
      /\ mem' = [mem EXCEPT !["available"] = Better(low')]
      /\ UNCHANGED <<call, meminfo, second, status>>
  BY DEF IInv, TypeOK, Estimate, FieldsInv
<1>2. ZoneSum(second)[{}] = 0
  <2>1. IsSum(ZoneSum(second), second, DOMAIN second)
    BY <1>1, ZoneFold
  <2> QED BY <2>1, SumValue
<1>3. all \in Nat /\ PageSize * all < Modulus
      /\ FoldFunction(+, 0, second) = all
  BY <1>1, ZoneFold
<1>4. low' = PageSize * all
  <2> DEFINE w == PageSize * all
  <2>1. low \in Int /\ Modulus \in Nat /\ PageSize \in Nat
    BY <1>1, NumbersArePositive DEF Word
  <2>2. /\ all \in Nat /\ w < Modulus
        /\ low + 0 = all /\ low' = Times(low, PageSize)
    BY <1>1, <1>2, <1>3
  <2> HIDE DEF all
  <2>3. low = all /\ w \in Nat /\ all * PageSize = w
    BY <2>1, <2>2
  <2> HIDE DEF w
  <2>4. w \in Word
    BY <2>1, <2>2, <2>3 DEF Word
  <2>5. all \in Int /\ PageSize \in Int /\ all * PageSize \in Word
    BY <2>1, <2>2, <2>3, <2>4
  <2>6. Times(all, PageSize) = all * PageSize
    BY <2>5, WordArithmetic, Zenon
  <2> QED BY <2>2, <2>3, <2>6 DEF w
<1>5. Watermarks'
  <2>1. low' = PageSize * FoldFunction(+, 0, second)
    BY <1>3, <1>4
  <2>2. FoldFunction(+, 0, second)' = FoldFunction(+, 0, second)
    BY <1>1 DEF FoldFunction, FoldFunctionOnSet, MapThenFoldSet
  <2> QED BY <2>1, <2>2 DEF Watermarks
<1>6. \A s \in Slots \ {"available"} : mem'[s] = mem[s]
  BY <1>1
<1>7. PassedOn({})' /\ AllCachedShown'
  BY <1>1, <1>6, PassedOnStays DEF AllCachedShown, Shown, Slots
<1> QED BY <1>1, <1>5, <1>7 DEF FieldsInv

\* What is not touched stays; every way to an answer goes by one of these.
LEMMA FieldsStay ==
  ASSUME PassedOn({}), AllCachedShown, Watermarks,
         UNCHANGED <<meminfo, second, low>>,
         \A s \in Slots \ {"available", "used"} : mem'[s] = mem[s]
  PROVE  PassedOn({})' /\ AllCachedShown' /\ Watermarks'
<1>1. FoldFunction(+, 0, second)' = FoldFunction(+, 0, second)
  BY DEF FoldFunction, FoldFunctionOnSet, MapThenFoldSet
<1> QED BY <1>1, PassedOnStays DEF AllCachedShown, Shown, Watermarks, Slots

\* Every step keeps what is only passed on.
LEMMA FieldsStep == IInv /\ FieldsInv /\ [Next]_vars => FieldsInv'
<1> SUFFICES ASSUME IInv, FieldsInv, [Next]_vars PROVE FieldsInv'
  OBVIOUS
<1>1. ASSUME NEW which \in {"virtual", "swap"}, Call(which)
      PROVE  FieldsInv'
  BY <1>1 DEF Call, FieldsInv
<1>2. CASE OpenFails
  BY <1>2 DEF OpenFails, FieldsInv
<1>3. CASE OpenFiles
  <2>1. /\ pc' = "lines" /\ mem' = Cleared /\ low' = 0
        /\ call' = call /\ unread' = DOMAIN meminfo' \cap Matched(call)
    BY <1>3 DEF OpenFiles, IInv, Progress, FieldsInv
  <2>2. ASSUME call = "virtual" PROVE PassedOn(unread)'
    <3>1. \A k \in Plain \cup InactParts : Got(k, unread)' = 0
      BY <2>1, <2>2 DEF Got, Matched
    <3>2. \A s \in Slots : mem'[s] = 0
      BY <2>1 DEF Cleared
    <3>3. \A k \in {"Buffers", "Active", "Slab"} :
            k \in Plain /\ Slot(k) \in Slots
      BY DEF Slot, Slots, Plain, InactParts
    <3>4. {"Shmem", "MemShared", "Inactive"} \subseteq Plain
          /\ {"Inact_dirty", "Inact_clean", "Inact_laundry"} = InactParts
      BY DEF Plain, InactParts
    <3>5. "shared" \in Slots /\ "inactive" \in Slots
      BY DEF Slots
    <3> QED BY <3>1, <3>2, <3>3, <3>4, <3>5 DEF PassedOn
  <2> QED BY <2>1, <2>2 DEF FieldsInv
<1>4. ASSUME NEW k \in unread, ReadLine(k) PROVE FieldsInv'
  BY <1>4, ReadLineFields
<1>5. ASSUME NEW k \in unread, ReadZone(k) PROVE FieldsInv'
  BY <1>5, ReadZoneFields
<1>6. ASSUME NEW k \in unread, ReadVmLine(k) PROVE FieldsInv'
  BY <1>6 DEF ReadVmLine, FieldsInv
<1>7. CASE FreeMissing \/ AvailableShown \/ Approximate \/ OpenZones
  BY <1>7, LinesEndFields
<1>8. CASE Estimate
  BY <1>8, EstimateFields
<1>9. CASE TotalMissing
  <2>1. /\ mem["total"] = Shown("MemTotal") /\ call = "virtual"
        /\ pc' = "close" /\ status' = "MALFORMED" /\ mem["total"] = 0
        /\ UNCHANGED <<call, meminfo>>
    BY <1>9, LastingSlots DEF TotalMissing, IInv, TypeOK, Progress
  <2> QED BY <2>1 DEF FieldsInv, Shown
<1>10. CASE Usage
  <2>1. /\ mem \in [Slots -> Word] /\ status = "NONE" /\ pc' = "close"
        /\ PassedOn({}) /\ AllCachedShown /\ Watermarks
        /\ UNCHANGED <<meminfo, second, low, status>>
    BY <1>10 DEF Usage, IInv, TypeOK, Progress, FieldsInv
  <2>2. \A s \in Slots \ {"available", "used"} : mem'[s] = mem[s]
    BY <1>10, <2>1 DEF Usage
  <2>3. PassedOn({})' /\ AllCachedShown' /\ Watermarks'
    BY <2>1, <2>2, FieldsStay
  <2> QED BY <2>1, <2>3 DEF FieldsInv
<1>11. CASE SwapRead
  <2>1. call' = "swap" /\ pc' \in {"validate", "vmstat"}
    BY <1>11 DEF SwapRead
  <2> QED BY <2>1 DEF FieldsInv
<1>12. CASE VmStatRead
  BY <1>12 DEF VmStatRead, FieldsInv
<1>13. CASE Validate
  <2>1. /\ call = "swap" /\ call' = "swap" /\ pc' = "close"
        /\ meminfo' = meminfo /\ MemInfoOK(meminfo)
        /\ mem["total"] = Shown("SwapTotal") /\ mem["free"] = Shown("SwapFree")
        /\ status = "NONE"
    BY <1>13, SwapSlots DEF Validate, IInv, TypeOK, Progress
  <2>2. SUFFICES ASSUME status' = "MALFORMED",
                        SwapLines \subseteq DOMAIN meminfo
                 PROVE  FALSE
    BY <2>1 DEF FieldsInv
  <2>3. mem["free"] > mem["total"]
    BY <1>13, <2>1, <2>2 DEF Validate, Unusable
  <2> DEFINE x == meminfo["SwapFree"]
             y == meminfo["SwapTotal"]
  <2>4. x \in Nat /\ y \in Nat /\ x <= y /\ KiB \in Nat
    BY <2>1, <2>2, LineFits, NumbersArePositive DEF MemInfoOK, SwapLines
  <2>5. mem["free"] = KiB * x /\ mem["total"] = KiB * y
    BY <2>1, <2>2 DEF Shown, Shows, SwapLines
  <2> HIDE DEF x, y
  <2>6. KiB * x <= KiB * y
    BY <2>4
  <2> QED BY <2>3, <2>4, <2>5, <2>6
<1>14. CASE Close \/ Return \/ UNCHANGED vars
  <2>1. /\ UNCHANGED <<call, meminfo, second, unread, mem, low, status>>
        /\ \/ UNCHANGED pc
           \/ pc \in {"close", "returned"} /\ pc' \in {"returned", "idle"}
    BY <1>14 DEF Close, Return, vars
  <2>2. /\ FoldFunction(+, 0, second)' = FoldFunction(+, 0, second)
        /\ \A k : Got(k, unread)' = Got(k, unread) /\ Got(k, {})' = Got(k, {})
        /\ \A k : Shown(k)' = Shown(k)
    BY <2>1 DEF FoldFunction, FoldFunctionOnSet, MapThenFoldSet, Got, Shown
  <2>3. /\ PassedOn(unread)' <=> PassedOn(unread)
        /\ PassedOn({})' <=> PassedOn({})
        /\ AllCachedShown' <=> AllCachedShown
        /\ Watermarks' <=> Watermarks
    BY <2>1, <2>2 DEF PassedOn, AllCachedShown, Watermarks
  <2>4. ZoneSum(second)' = ZoneSum(second)
    BY <2>1
  <2> QED BY <2>1, <2>2, <2>3, <2>4 DEF FieldsInv
<1> QED BY <1>1, <1>2, <1>3, <1>4, <1>5, <1>6, <1>7, <1>8, <1>9, <1>10,
           <1>11, <1>12, <1>13, <1>14 DEF Next

-----------------------------------------------------------------------------
\* The invariant holds in every behaviour.
LEMMA IInvHolds == Spec => []IInv
BY InitInv, StepInv, PTL DEF Spec

\* Types, and no file open outside the reads (mem.c:295-355).
THEOREM TypesHold == Spec => []TypeOK
<1>1. IInv => TypeOK
  BY DEF IInv
<1> QED BY <1>1, IInvHolds, PTL

\* Used and available memory make up the total, whatever the files show.
THEOREM BooksAlwaysBalance == Spec => []BooksBalance
<1>1. IInv => BooksBalance
  BY DEF IInv, TypeOK, Progress, BooksBalance, Answered
<1> QED BY <1>1, IInvHolds, PTL

\* The estimate in words is that of the integers, for words of any length.
THEOREM EstimateIsAlwaysExact == Spec => []EstimateIsExact
<1>1. IInv => EstimateIsExact
  <2> SUFFICES ASSUME IInv, Answered("virtual")
               PROVE  EstimateIsExact
    BY DEF EstimateIsExact
  <2>1. mem["available"] = Capped(Available) /\ MemInfoOK(meminfo)
    BY DEF IInv, TypeOK, Progress, Answered
  <2>2. \A k \in Counted : Shown(k) \in Nat
    BY <2>1, SumFits
  <2>3. CASE Shown("MemAvailable") # 0
    BY <2>1, <2>3 DEF EstimateIsExact, Available
  <2>4. CASE Shown("MemAvailable") = 0 /\ DOMAIN second # {}
    <3>1. Capped(NotNegative(Reference)) = Capped(Reference)
      <4>1. Reference \in Int
        <5>1. low \in Int /\ \A n \in Nat : Kept(n) \in Int
          BY NumbersArePositive DEF IInv, TypeOK, Word, Kept
        <5> DEFINE c == Shown("Active(file)") + Shown("Inactive(file)")
                   r == Shown("SReclaimable")
        <5>2. c \in Nat /\ r \in Nat /\ Shown("MemFree") \in Nat
          BY <2>2 DEF Counted
        <5> HIDE DEF c, r
        <5>3. Kept(c) \in Int /\ Kept(r) \in Int
          BY <5>1, <5>2
        <5>4. Reference =
                Shown("MemFree") + (c - Kept(c)) + ((r - Kept(r)) - low)
          BY DEF Reference, c, r
        <5> QED BY <5>1, <5>2, <5>3, <5>4
      <4>2. Shown("MemTotal") \in Nat
        BY <2>2 DEF Counted
      <4> QED BY <4>1, <4>2 DEF Capped, NotNegative
    <3> QED BY <2>1, <2>4, <3>1 DEF EstimateIsExact, Available
  <2>5. CASE Shown("MemAvailable") = 0 /\ DOMAIN second = {}
    BY <2>1, <2>5 DEF EstimateIsExact, Available
  <2> QED BY <2>3, <2>4, <2>5
<1> QED BY <1>1, IInvHolds, PTL
\* Every field is what the file says, in whatever order it says it, the low
\* watermarks are added up over any number of zones, and MALFORMED is no false
\* alarm (mem.c:32-62, 86-162, 189-191, 281-285).
THEOREM LinesAreAlwaysRead == Spec => []LinesAreRead
<1>1. Init => FieldsInv
  BY DEF Init, FieldsInv
<1>2. IInv /\ FieldsInv => LinesAreRead
  <2> SUFFICES ASSUME IInv, FieldsInv PROVE LinesAreRead
    OBVIOUS
  <2>1. \A k : Shown(k) = Got(k, {}) /\ Shown(k) \in Nat
    BY GotFits, NumbersArePositive DEF IInv, TypeOK, Word
  <2> QED BY <2>1 DEF FieldsInv, LinesAreRead, Answered, PassedOn,
                      AllCachedShown, Watermarks, Slot, InactParts
<1> QED BY <1>1, <1>2, InitInv, StepInv, FieldsStep, PTL DEF Spec
=============================================================================
