----------------------------- MODULE PmmProofs ------------------------------
(***************************************************************************)
(* Proofs about the physical page allocator, for every size of memory,     *)
(* memory map, set of callers and request.                                 *)
(***************************************************************************)
EXTENDS Pmm, NumberFacts, TLAPS
-----------------------------------------------------------------------------
(* Arithmetic of page-aligned addresses                                    *)

LEMMA TimesReflects ==
    ASSUME NEW P \in Nat, NEW a \in Int, NEW b \in Int, a * P < b * P
    PROVE  a + 1 <= b
<1> SUFFICES ASSUME b <= a PROVE FALSE
  OBVIOUS
<1>1. b * P <= a * P
  BY TimesMonotone
<1> QED
  BY <1>1

LEMMA Quotient ==
    ASSUME NEW P \in Nat, P > 0, NEW x \in Nat, x % P = 0
    PROVE  \E q \in Nat : x = q * P
<1>1. x = (x \div P) * P + (x % P) /\ x \div P \in Nat
  OBVIOUS
<1> QED
  BY <1>1

LEMMA ElementType ==
    ASSUME NEW S, NEW s \in Seq(S), NEW i \in 1 .. Len(s)
    PROVE  s[i] \in S
OBVIOUS

LEMMA SmallMod ==
    ASSUME NEW x \in Nat, NEW m \in Nat, x < m
    PROVE  x % m = x
OBVIOUS

LEMMA WrapMod ==
    ASSUME NEW m \in Nat, NEW x \in 0 .. m - 1
    PROVE  (x + m) % m = x
OBVIOUS
-----------------------------------------------------------------------------
(* What is assumed of the constants, the memory maps apart                *)
LEMMA Sizes ==
    /\ NFrames \in Nat /\ LowFrames \in Nat /\ KernFrames \in Nat
    /\ 0 < KernFrames /\ KernFrames < LowFrames /\ LowFrames < NFrames
    /\ PageSize \in Nat /\ PageSize > 1
    /\ Counts \subseteq 1 .. NFrames
BY PmmAssumption

LEMMA WordFact == Word \in Nat /\ Word > 0 /\ PageSize <= Word
<1> USE PmmAssumption
<1>1. 1 * PageSize <= NFrames * PageSize
  BY TimesMonotone
<1> QED
  BY <1>1 DEF Word

(* Frames as addresses                                                     *)
LEMMA FrameBelowWord ==
    ASSUME NEW f \in Frames
    PROVE  /\ f * PageSize \in Nat
           /\ (f + 1) * PageSize = f * PageSize + PageSize
           /\ f * PageSize + PageSize <= Word
<1> USE PmmAssumption
<1>1. (f + 1) * PageSize <= NFrames * PageSize
  BY TimesMonotone DEF Frames
<1>2. (f + 1) * PageSize = f * PageSize + PageSize
  BY DEF Frames
<1>3. 0 * PageSize <= f * PageSize
  BY TimesMonotone DEF Frames
<1> QED
  BY <1>1, <1>2, <1>3 DEF Word, Frames

(* reserve marks every frame an aligned region within 32 bits touches.     *)
LEMMA ReservedCovers ==
    ASSUME NEW e \in [addr : Nat, len : Nat, available : BOOLEAN],
           Aligned(e),
           NEW f \in Frames, Touches(e, f)
    PROVE  f \in Reserved(e.addr % Word, e.len % Word)
<1> USE Sizes, WordFact
<1>1. /\ e.addr \in Nat /\ e.len \in Nat /\ e.len > 0
      /\ e.addr % PageSize = 0 /\ e.len % PageSize = 0
      /\ e.addr + e.len <= Word
      /\ e.addr < f * PageSize + PageSize
      /\ f * PageSize < e.addr + e.len
  BY FrameBelowWord DEF Aligned, Touches
<1>0. PageSize \in Nat /\ PageSize > 0
  OBVIOUS
<1>2. PICK q \in Nat : e.addr = q * PageSize
  BY <1>1, <1>0, Quotient, Zenon
<1>3. PICK n \in Nat : e.len = n * PageSize
  BY <1>1, <1>0, Quotient, Zenon
<1>4. e.addr <= f * PageSize
  <2>1. q * PageSize < (f + 1) * PageSize
    BY <1>1, <1>2, FrameBelowWord
  <2>2. q + 1 <= f + 1
    BY <2>1, TimesReflects DEF Frames
  <2>3. q * PageSize <= f * PageSize
    BY <2>2, TimesMonotone DEF Frames
  <2> QED
    BY <2>3, <1>2
<1>5. f * PageSize + PageSize <= e.addr + e.len
  <2>1. (q + n) * PageSize = e.addr + e.len
    BY <1>2, <1>3
  <2>2. f * PageSize < (q + n) * PageSize
    BY <2>1, <1>1
  <2>3. f + 1 <= q + n
    BY <2>2, TimesReflects DEF Frames
  <2>4. (f + 1) * PageSize <= (q + n) * PageSize
    BY <2>3, TimesMonotone DEF Frames
  <2> QED
    BY <2>1, <2>4, FrameBelowWord
<1> DEFINE start == e.addr % Word
           length == e.len % Word
           first == RoundDown(start)
           end == (first + RoundUp(length) - 1) % Word
<1>6. start = e.addr
  BY <1>1, SmallMod
<1>7. first = e.addr
  BY <1>6, <1>1 DEF RoundDown
<1>8. end = e.addr + e.len - 1
  <2>1. CASE e.len < Word
    <3>1. length = e.len
      BY <1>1, <2>1, SmallMod
    <3>2. RoundUp(length) = e.len
      BY <3>1, <1>1 DEF RoundUp
    <3>3. e.addr + e.len - 1 \in Nat /\ e.addr + e.len - 1 < Word
      BY <1>1
    <3> QED
      BY <3>2, <3>3, <1>7, SmallMod
  <2>2. CASE e.len = Word
    <3>1. e.addr = 0
      BY <1>1, <2>2
    <3>2. length = 0
      BY <2>2
    <3>3. RoundUp(length) = 0
      <4>1. 0 % PageSize = 0
        OBVIOUS
      <4> QED
        BY <3>2, <4>1 DEF RoundUp
    <3>4. first + RoundUp(length) - 1 = -1
      BY <3>1, <3>3, <1>7
    <3>5. (-1) % Word = Word - 1
      OBVIOUS
    <3> QED
      BY <3>1, <3>4, <3>5, <2>2
  <2>3. e.len < Word \/ e.len = Word
    <3>1. e.addr \in Nat /\ e.len \in Nat /\ e.addr + e.len <= Word
      BY <1>1
    <3> QED
      BY <3>1
  <2> HIDE DEF end
  <2> QED
    BY <2>1, <2>2, <2>3
<1>9. first <= f * PageSize /\ f * PageSize < end
  BY <1>1, <1>4, <1>5, <1>7, <1>8, FrameBelowWord
<1> HIDE DEF first, end
<1> QED
  BY <1>9 DEF Reserved, first, end

(* reserve(0, PAGE_TABLE_SIZE) marks the frames of the kernel.             *)
LEMMA KernelCovers ==
    ASSUME NEW f \in 0 .. KernFrames - 1
    PROVE  f \in Frames /\ f \in Reserved(0, KernFrames * PageSize)
<1> USE Sizes, WordFact
<1> DEFINE length == KernFrames * PageSize
<1>1. f \in Frames
  BY DEF Frames
<1>2. (f + 1) * PageSize <= length
  BY TimesMonotone
<1>3. f * PageSize + PageSize <= length
  BY <1>1, <1>2, FrameBelowWord
<1>4. (KernFrames + 1) * PageSize <= NFrames * PageSize
  BY TimesMonotone
<1>5. (KernFrames + 1) * PageSize = length + PageSize /\ length \in Nat
  OBVIOUS
<1>6. length < Word
  BY <1>4, <1>5 DEF Word
<1>7. length % PageSize = 0
  OBVIOUS
<1>8. RoundDown(0) = 0
  BY DEF RoundDown
<1>9. RoundUp(length) = length
  BY <1>7 DEF RoundUp
<1>10. (RoundDown(0) + RoundUp(length) - 1) % Word = length - 1
  <2>1. length - 1 \in Nat /\ length - 1 < Word
    BY <1>1, <1>3, <1>5, <1>6, FrameBelowWord
  <2>2. RoundDown(0) + RoundUp(length) - 1 = length - 1
    BY <1>5, <1>8, <1>9
  <2> QED
    BY <2>1, <2>2, SmallMod
<1> HIDE DEF length
<1>11. f * PageSize < length - 1
  BY <1>1, <1>3, <1>5, FrameBelowWord
<1> QED
  BY <1>1, <1>8, <1>10, <1>11, FrameBelowWord DEF Reserved, length
-----------------------------------------------------------------------------
(* The inductive invariant                                                 *)

CallOK ==
    call \in [pc : {"idle", "scan", "null"}, high : BOOLEAN, count : Nat,
              paddr : Frames, contig : 0 .. NFrames, holder : Holders \cup {0}]

(* Nothing is given away before paging_init is done.                       *)
BootFirst == entry # 0 => call = Idle /\ \A h \in Holders : owned[h] = {}

(* What reserve marked stays marked and is nobody's.                       *)
OutOfReach(f) == framemap[f] /\ \A h \in Holders : f \notin owned[h]
RegionsMarked ==
    \A i \in 1 .. Len(mmap) :
        Aligned(mmap[i]) /\ (i < entry \/ entry = 0) =>
            \A f \in Frames : Touches(mmap[i], f) => OutOfReach(f)

(* contig counts the free frames just before paddr.  Frame 0 is marked, so *)
(* no run goes across the wrap of paddr.                                   *)
ContigFree ==
    Scanning =>
        /\ call.contig < call.count
        /\ call.paddr > 0 =>
             /\ call.contig < call.paddr
             /\ \A f \in call.paddr - call.contig .. call.paddr - 1 :
                   ~ framemap[f]

(* The scan of low memory has not passed a run that would have done.       *)
NothingMissed ==
    Scanning /\ ~ call.high =>
        /\ call.paddr <= LowFrames
        /\ call.paddr > 0 => framemap[call.paddr - call.contig - 1]
        /\ \A base \in 0 .. call.paddr - call.count :
              ~ FreeRun(base, call.count)
NullAtEnd == call.pc = "null" => ~ call.high /\ call.paddr >= LowFrames

Inv ==
    /\ TypeOK /\ CallOK /\ BootFirst
    /\ FramesExclusive /\ KernelKept /\ RegionsMarked
    /\ ContigFree /\ NothingMissed /\ NullAtEnd

LEMMA InvImplies == Inv => ReservedKept /\ NullMeansFull
<1> SUFFICES ASSUME Inv PROVE ReservedKept /\ NullMeansFull
  OBVIOUS
<1> USE PmmAssumption
<1>1. ReservedKept
  <2> SUFFICES ASSUME NEW i \in 1 .. Len(mmap), Aligned(mmap[i]),
                      NEW f \in Frames, Touches(mmap[i], f),
                      NEW h \in Holders
               PROVE  f \notin owned[h]
    BY DEF Inv, ReservedKept, RegionKept
  <2>1. CASE entry = 0
    BY <2>1 DEF Inv, RegionsMarked, OutOfReach
  <2>2. CASE entry # 0
    BY <2>2 DEF Inv, BootFirst
  <2> QED
    BY <2>1, <2>2
<1>2. NullMeansFull
  <2> SUFFICES ASSUME call.pc = "null",
                      NEW base \in 0 .. LowFrames - call.count
               PROVE  ~ FreeRun(base, call.count)
    BY DEF NullMeansFull
  <2>1. call.paddr = LowFrames /\ ~ call.high /\ Scanning
    BY DEF Inv, NullAtEnd, NothingMissed, CallOK, Scanning, Frames
  <2> QED
    BY <2>1 DEF Inv, NothingMissed
<1> QED
  BY <1>1, <1>2

LEMMA InvInit == Init => Inv
<1> SUFFICES ASSUME Init PROVE Inv
  OBVIOUS
<1> USE PmmAssumption
<1>1. mmap \in Seq([addr : Nat, len : Nat, available : BOOLEAN])
  BY DEF Init
<1>2. ~ Scanning /\ call.pc = "idle"
  BY DEF Init, Idle, Scanning
<1>3. TypeOK /\ CallOK
  BY <1>1, <1>2 DEF Init, TypeOK, CallOK, Idle, Frames
<1>4. BootFirst /\ FramesExclusive /\ KernelKept
  BY DEF Init, BootFirst, FramesExclusive, KernelKept
<1>5. RegionsMarked
  BY <1>1 DEF Init, RegionsMarked
<1>6. ContigFree /\ NothingMissed /\ NullAtEnd
  BY <1>2 DEF ContigFree, NothingMissed, NullAtEnd
<1> QED
  BY <1>3, <1>4, <1>5, <1>6 DEF Inv

(* One step of reserve_mem_map                                             *)
LEMMA InvReserveEntry == Inv /\ ReserveEntry => Inv'
<1> SUFFICES ASSUME Inv, ReserveEntry PROVE Inv'
  OBVIOUS
<1> USE PmmAssumption
<1> DEFINE e == mmap[entry]
<1>1. /\ mmap \in Seq([addr : Nat, len : Nat, available : BOOLEAN])
      /\ Len(mmap) \in Nat /\ entry \in 1 .. Len(mmap)
      /\ mmap' = mmap /\ owned' = owned /\ call' = call /\ entry' = entry + 1
  BY DEF Inv, TypeOK, ReserveEntry
<1>2. call = Idle /\ \A h \in Holders : owned[h] = {}
  BY <1>1 DEF Inv, BootFirst
<1>3. e \in [addr : Nat, len : Nat, available : BOOLEAN]
  BY <1>1, ElementType
<1>4. /\ framemap' \in [Frames -> BOOLEAN]
      /\ \A f \in Frames : framemap[f] => framemap'[f]
      /\ ~ e.available =>
           \A f \in Frames :
              f \in Reserved(e.addr % Word, e.len % Word) => framemap'[f]
  BY DEF ReserveEntry, reserve, Inv, TypeOK
<1>5. ~ Scanning' /\ ~ Scanning /\ (call.pc = "idle")'
  BY <1>1, <1>2 DEF Scanning, Idle
<1>6. TypeOK' /\ CallOK'
  BY <1>1, <1>4, <1>5 DEF Inv, TypeOK, CallOK
<1>7. BootFirst' /\ FramesExclusive' /\ KernelKept'
  BY <1>1, <1>2 DEF BootFirst, FramesExclusive, KernelKept
<1>8. RegionsMarked'
  <2> SUFFICES ASSUME NEW i \in 1 .. Len(mmap), Aligned(mmap[i]), i < entry + 1,
                      NEW f \in Frames, Touches(mmap[i], f)
               PROVE  framemap'[f]
    <3>1. \A f \in Frames : framemap'[f] => OutOfReach(f)'
      BY <1>1, <1>2 DEF OutOfReach
    <3> QED
      BY <1>1, <3>1 DEF RegionsMarked, Aligned, Touches
  <2>1. CASE i < entry
    <3>1. framemap[f]
      BY <2>1 DEF Inv, RegionsMarked, OutOfReach
    <3> QED
      BY <3>1, <1>4
  <2>2. CASE i = entry
    <3>1. Aligned(e) /\ Touches(e, f)
      BY <2>2
    <3>2. f \in Reserved(e.addr % Word, e.len % Word)
      BY <3>1, <1>3, ReservedCovers
    <3>3. ~ e.available
      BY <3>1 DEF Touches
    <3> QED
      BY <3>2, <3>3, <1>4
  <2> QED
    BY <1>1, <2>1, <2>2
<1>9. ContigFree' /\ NothingMissed' /\ NullAtEnd'
  BY <1>5 DEF ContigFree, NothingMissed, NullAtEnd
<1> QED
  BY <1>6, <1>7, <1>8, <1>9 DEF Inv

(* The end of paging_init                                                  *)
LEMMA InvReserveKernel == Inv /\ ReserveKernel => Inv'
<1> SUFFICES ASSUME Inv, ReserveKernel PROVE Inv'
  OBVIOUS
<1> USE PmmAssumption
<1>1. /\ mmap \in Seq([addr : Nat, len : Nat, available : BOOLEAN])
      /\ Len(mmap) \in Nat /\ entry = Len(mmap) + 1 /\ entry' = 0
      /\ mmap' = mmap /\ owned' = owned /\ call' = call
  BY DEF Inv, TypeOK, ReserveKernel
<1>2. call = Idle /\ \A h \in Holders : owned[h] = {}
  BY <1>1 DEF Inv, BootFirst
<1>4. /\ framemap' \in [Frames -> BOOLEAN]
      /\ \A f \in Frames : framemap[f] => framemap'[f]
      /\ \A f \in Frames :
            f \in Reserved(0, KernFrames * PageSize) => framemap'[f]
  BY DEF ReserveKernel, reserve, Inv, TypeOK
<1>5. ~ Scanning' /\ ~ Scanning /\ (call.pc = "idle")'
  BY <1>1, <1>2 DEF Scanning, Idle
<1>6. TypeOK' /\ CallOK'
  BY <1>1, <1>4, <1>5 DEF Inv, TypeOK, CallOK
<1>7. BootFirst' /\ FramesExclusive'
  BY <1>1, <1>2 DEF BootFirst, FramesExclusive
<1>8. KernelKept'
  BY <1>1, <1>2, <1>4, KernelCovers DEF KernelKept
<1>9. RegionsMarked'
  <2> SUFFICES ASSUME NEW i \in 1 .. Len(mmap), Aligned(mmap[i]),
                      NEW f \in Frames, Touches(mmap[i], f)
               PROVE  OutOfReach(f)'
    BY <1>1 DEF RegionsMarked, Aligned, Touches
  <2>1. OutOfReach(f)
    BY <1>1 DEF Inv, RegionsMarked
  <2> QED
    BY <2>1, <1>1, <1>4 DEF OutOfReach
<1>10. ContigFree' /\ NothingMissed' /\ NullAtEnd'
  BY <1>5 DEF ContigFree, NothingMissed, NullAtEnd
<1> QED
  BY <1>6, <1>7, <1>8, <1>9, <1>10 DEF Inv
-----------------------------------------------------------------------------
(* alloc_pages: the call, an iteration that goes on, the two ways out      *)

(* The steps of a scan that leave the frames and their owners alone        *)
LEMMA InvQuiet ==
    ASSUME Inv, UNCHANGED <<mmap, entry, framemap, owned>>, CallOK',
           entry = 0,
           Scanning' => (call.holder \in Holders /\ call.count \in Counts)',
           ContigFree', NothingMissed', NullAtEnd'
    PROVE  Inv'
<1>1. TypeOK'
  BY DEF Inv, TypeOK, CallOK
<1>2. BootFirst' /\ FramesExclusive' /\ KernelKept'
  BY DEF Inv, BootFirst, FramesExclusive, KernelKept
<1>3. RegionsMarked'
  <2>1. \A f \in Frames : OutOfReach(f) => OutOfReach(f)'
    BY DEF OutOfReach
  <2> QED
    BY <2>1 DEF Inv, RegionsMarked, Aligned, Touches
<1> QED
  BY <1>1, <1>2, <1>3 DEF Inv

LEMMA InvAllocPages ==
    ASSUME Inv, NEW h \in Holders, NEW high \in BOOLEAN, NEW count \in Counts,
           AllocPages(h, high, count)
    PROVE  Inv'
<1> USE Sizes
<1>1. count \in 1 .. NFrames
  OBVIOUS
<1>2. call' = [pc |-> "scan", high |-> high, count |-> count,
               paddr |-> IF high THEN LowFrames ELSE 0,
               contig |-> 0, holder |-> h]
  BY DEF AllocPages
<1>3. CallOK'
  BY <1>1, <1>2 DEF CallOK, Frames
<1>4. ContigFree' /\ NullAtEnd'
  BY <1>1, <1>2 DEF ContigFree, NullAtEnd
<1>5. NothingMissed'
  <2> SUFFICES ASSUME ~ high, NEW base \in 0 .. 0 - count PROVE FALSE
    BY <1>2 DEF NothingMissed
  <2> QED
    BY <1>1
<1> QED
  BY <1>2, <1>3, <1>4, <1>5, InvQuiet DEF AllocPages

LEMMA CallFacts ==
    ASSUME Inv, Scanning
    PROVE  /\ entry = 0 /\ framemap[0] /\ framemap \in [Frames -> BOOLEAN]
           /\ call.holder \in Holders /\ call.count \in Counts
           /\ call.count \in 1 .. NFrames
           /\ call.paddr \in 0 .. NFrames - 1
           /\ call.contig \in Nat /\ call.contig < call.count
<1> USE Sizes
<1>1. entry = 0
  BY DEF Inv, BootFirst, Idle, Scanning
<1>2. framemap[0]
  BY <1>1 DEF Inv, KernelKept
<1>3. call.holder \in Holders /\ call.count \in Counts
  BY DEF Inv, TypeOK
<1>4. call.count \in 1 .. NFrames
  BY <1>3
<1>5. call.paddr \in 0 .. NFrames - 1 /\ call.contig \in 0 .. NFrames
  BY DEF Inv, TypeOK, Frames
<1>6. call.contig < call.count
  BY DEF Inv, ContigFree
<1>7. framemap \in [Frames -> BOOLEAN]
  BY DEF Inv, TypeOK
<1> QED
  BY <1>1, <1>2, <1>3, <1>4, <1>5, <1>6, <1>7

LEMMA InvScanOn == Inv /\ ScanOn => Inv'
<1> SUFFICES ASSUME Inv, ScanOn PROVE Inv'
  OBVIOUS
<1> USE Sizes
<1> DEFINE p == call.paddr
           c == call.contig
<1>1. Scanning /\ call.pc = "scan"
  BY DEF ScanOn, Scanning
<1>2. /\ entry = 0 /\ framemap[0] /\ framemap \in [Frames -> BOOLEAN]
      /\ call.holder \in Holders /\ call.count \in Counts
      /\ call.count \in 1 .. NFrames
      /\ p \in 0 .. NFrames - 1 /\ c \in Nat /\ c < call.count
  BY <1>1, CallFacts
<1>3. call' = [call EXCEPT !.contig = IF framemap[p] THEN 0 ELSE c + 1,
                           !.paddr = NextPage(p)]
  BY DEF ScanOn, Inv, CallOK
<1>4. NextPage(p) = IF p = NFrames - 1 THEN 0 ELSE p + 1
  BY <1>2 DEF NextPage
<1>5. ~ framemap[p] => c + 1 < call.count
  BY <1>2 DEF ScanOn, Completes
<1>6. /\ call'.pc = "scan" /\ call'.high = call.high
      /\ call'.count = call.count /\ call'.holder = call.holder
      /\ call'.paddr = IF p = NFrames - 1 THEN 0 ELSE p + 1
      /\ call'.contig = IF framemap[p] THEN 0 ELSE c + 1
  BY <1>3, <1>4, <1>1 DEF Inv, CallOK
<1>7. CallOK'
  <2>1. NextPage(p) \in Frames
    BY <1>2, <1>4 DEF Frames
  <2>2. (IF framemap[p] THEN 0 ELSE c + 1) \in 0 .. NFrames
    BY <1>2, <1>5
  <2> QED
    BY <2>1, <2>2, <1>3 DEF Inv, CallOK
<1>8. framemap' = framemap
  BY DEF ScanOn
<1>9. ContigFree'
  <2>1. CASE framemap[p]
    BY <2>1, <1>2, <1>6 DEF ContigFree
  <2>2. CASE ~ framemap[p]
    <3>1. p > 0
      BY <2>2, <1>2
    <3>2. c < p /\ \A f \in p - c .. p - 1 : ~ framemap[f]
      BY <3>1, <1>1 DEF Inv, ContigFree
    <3>3. \A f \in p - c .. p : ~ framemap[f]
      BY <3>2, <2>2, <1>2
    <3> QED
      BY <3>2, <3>3, <2>2, <1>2, <1>5, <1>6, <1>8 DEF ContigFree
  <2> QED
    BY <2>1, <2>2
<1>10. NothingMissed'
  <2> SUFFICES ASSUME ~ call.high PROVE NothingMissed'
    BY <1>6 DEF NothingMissed
  <2>1. p < LowFrames /\ call'.paddr = p + 1
    BY <1>2, <1>6 DEF ScanOn, InBounds
  <2>2. \A base \in 0 .. p - call.count : ~ FreeRun(base, call.count)
    BY <1>1 DEF Inv, NothingMissed
  <2>3. framemap'[call'.paddr - call'.contig - 1]
    <3>1. CASE framemap[p]
      <4>1. call'.paddr - call'.contig - 1 = p
        BY <3>1, <2>1, <1>2, <1>6
      <4> QED
        BY <4>1, <3>1, <1>8
    <3>2. CASE ~ framemap[p]
      <4>1. p > 0
        BY <3>2, <1>2
      <4>2. framemap[p - c - 1]
        BY <4>1, <1>1 DEF Inv, NothingMissed
      <4>3. call'.paddr - call'.contig - 1 = p - c - 1
        BY <3>2, <2>1, <1>2, <1>6
      <4> QED
        BY <4>2, <4>3, <1>8
    <3> QED
      BY <3>1, <3>2
  <2>4. ASSUME NEW base \in 0 .. p + 1 - call.count
        PROVE  \E f \in base .. base + call.count - 1 : framemap[f]
    <3>1. CASE base \in 0 .. p - call.count
      BY <3>1, <2>2 DEF FreeRun
    <3>2. CASE base = p + 1 - call.count
      <4>1. CASE framemap[p]
        BY <4>1, <3>2, <1>2
      <4>2. CASE ~ framemap[p]
        <5>1. p > 0
          BY <4>2, <1>2
        <5>2. framemap[p - c - 1]
          BY <5>1, <1>1 DEF Inv, NothingMissed
        <5>3. p - c - 1 \in base .. base + call.count - 1
          BY <4>2, <3>2, <1>2, <1>5
        <5> QED
          BY <5>2, <5>3
      <4> QED
        BY <4>1, <4>2
    <3> QED
      BY <3>1, <3>2, <1>2
  <2>5. call'.paddr <= LowFrames
    BY <2>1, <1>2
  <2>6. \A base \in 0 .. call'.paddr - call'.count :
           ~ \A f \in base .. base + call'.count - 1 : ~ framemap'[f]
    <3> SUFFICES ASSUME NEW base \in 0 .. call'.paddr - call'.count
                 PROVE  \E f \in base .. base + call'.count - 1 : framemap'[f]
      OBVIOUS
    <3>1. base \in 0 .. p + 1 - call.count
      BY <2>1, <1>2, <1>6
    <3>2. \E f \in base .. base + call.count - 1 : framemap[f]
      BY <3>1, <2>4
    <3> QED
      BY <3>2, <1>6, <1>8
  <2> QED
    BY <2>3, <2>5, <2>6 DEF NothingMissed, FreeRun
<1>11. NullAtEnd'
  BY <1>6 DEF NullAtEnd
<1> QED
  BY <1>2, <1>6, <1>7, <1>9, <1>10, <1>11, InvQuiet DEF ScanOn

(* The run that alloc_pages marks is made of free frames, does not wrap,   *)
(* and ends at paddr.                                                      *)
LEMMA RunIsFree ==
    ASSUME Inv, ScanFound
    PROVE  /\ Run(call.paddr, call.count) \subseteq 1 .. call.paddr
           /\ Run(call.paddr, call.count) \subseteq Frames
           /\ \A f \in Run(call.paddr, call.count) : ~ framemap[f]
<1> USE Sizes
<1> DEFINE p == call.paddr
           c == call.contig
<1>1. Scanning
  BY DEF ScanFound, Scanning
<1>2. /\ framemap[0] /\ framemap \in [Frames -> BOOLEAN]
      /\ call.count \in 1 .. NFrames
      /\ p \in 0 .. NFrames - 1 /\ c \in Nat
  BY <1>1, CallFacts
<1>3. ~ framemap[p] /\ call.count = c + 1
  BY <1>2 DEF ScanFound, Completes
<1>4. p > 0
  BY <1>2, <1>3
<1>5. c < p /\ \A f \in p - c .. p - 1 : ~ framemap[f]
  BY <1>1, <1>4 DEF Inv, ContigFree
<1>6. ASSUME NEW f \in Run(p, call.count)
      PROVE  f \in p - c .. p
  <2>1. PICK i \in 0 .. call.count - 1 : f = (p - i + NFrames) % NFrames
    BY DEF Run
  <2>2. p - i \in 0 .. NFrames - 1 /\ i \in 0 .. c
    BY <1>2, <1>3, <1>5
  <2>3. f = p - i
    BY <2>1, <2>2, WrapMod
  <2>4. p \in Int /\ c \in Int
    BY <1>2
  <2> HIDE DEF p, c
  <2> QED
    BY <2>2, <2>3, <2>4
<1>7. \A f \in p - c .. p : f \in 1 .. p /\ f \in Frames /\ ~ framemap[f]
  BY <1>2, <1>3, <1>5 DEF Frames
<1> QED
  BY <1>6, <1>7

LEMMA InvScanFound == Inv /\ ScanFound => Inv'
<1> SUFFICES ASSUME Inv, ScanFound PROVE Inv'
  OBVIOUS
<1> USE Sizes
<1> DEFINE R == Run(call.paddr, call.count)
           g == call.holder
<1>1. Scanning
  BY DEF ScanFound, Scanning
<1>2. entry = 0 /\ g \in Holders
  BY <1>1, CallFacts
<1>3. R \subseteq Frames /\ \A f \in R : ~ framemap[f]
  BY RunIsFree
<1>4. /\ framemap' = [f \in Frames |-> framemap[f] \/ f \in R]
      /\ owned' = [owned EXCEPT ![g] = R]
      /\ call' = Idle /\ mmap' = mmap /\ entry' = entry
  BY DEF ScanFound
<1>5. /\ framemap \in [Frames -> BOOLEAN]
      /\ owned \in [Holders -> SUBSET Frames]
  BY DEF Inv, TypeOK
<1> HIDE DEF R
<1>6. \A f \in Frames : framemap'[f] <=> framemap[f] \/ f \in R
  BY <1>4
<1>7. \A h \in Holders : owned'[h] = IF h = g THEN R ELSE owned[h]
  BY <1>2, <1>4, <1>5
<1>8. TypeOK' /\ CallOK'
  <2>1. framemap' \in [Frames -> BOOLEAN]
    BY <1>4, <1>5
  <2>2. owned' \in [Holders -> SUBSET Frames]
    BY <1>3, <1>4, <1>5
  <2> QED
    BY <2>1, <2>2, <1>4 DEF Inv, TypeOK, CallOK, Idle, Scanning, Frames
<1>9. BootFirst'
  BY <1>2, <1>4 DEF BootFirst
<1>10. FramesExclusive'
  <2>1. \A h \in Holders : \A f \in owned'[h] : framemap'[f]
    BY <1>3, <1>5, <1>6, <1>7 DEF Inv, FramesExclusive
  <2>2. \A h \in Holders : owned[h] \cap R = {}
    BY <1>3 DEF Inv, FramesExclusive
  <2>3. \A h, k \in Holders : h # k => owned'[h] \cap owned'[k] = {}
    BY <2>2, <1>7 DEF Inv, FramesExclusive
  <2> QED
    BY <2>1, <2>3 DEF FramesExclusive
<1>11. \A f \in Frames : OutOfReach(f) => OutOfReach(f)'
  BY <1>3, <1>6, <1>7 DEF OutOfReach
<1>12. KernelKept'
  <2> SUFFICES ASSUME NEW f \in 0 .. KernFrames - 1 PROVE OutOfReach(f)'
    BY DEF KernelKept, OutOfReach
  <2>1. OutOfReach(f) /\ f \in Frames
    BY <1>2 DEF Inv, KernelKept, OutOfReach, Frames
  <2> QED
    BY <2>1, <1>11
<1>13. RegionsMarked'
  BY <1>4, <1>11 DEF Inv, RegionsMarked, Aligned, Touches
<1>14. ContigFree' /\ NothingMissed' /\ NullAtEnd'
  BY <1>4 DEF ContigFree, NothingMissed, NullAtEnd, Scanning, Idle
<1> QED
  BY <1>8, <1>9, <1>10, <1>12, <1>13, <1>14 DEF Inv

LEMMA InvScanNull == Inv /\ (ScanNull \/ AllocNull) => Inv'
<1> SUFFICES ASSUME Inv, ScanNull \/ AllocNull PROVE Inv'
  OBVIOUS
<1> USE Sizes
<1>1. Scanning
  BY DEF ScanNull, AllocNull, Scanning
<1>2. entry = 0 /\ call.holder \in Holders /\ call.count \in Counts
  BY <1>1, CallFacts
<1>3. CASE ScanNull
  <2>1. call' = [call EXCEPT !.pc = "null"] /\ framemap' = framemap
    BY <1>3 DEF ScanNull
  <2>2. ~ call.high /\ call.paddr >= LowFrames
    BY <1>3 DEF ScanNull, InBounds, Inv, CallOK, Frames
  <2>3. CallOK' /\ call'.count = call.count /\ call'.contig = call.contig
        /\ call'.paddr = call.paddr /\ call'.high = call.high
        /\ call'.holder = call.holder
    BY <2>1 DEF Inv, CallOK
  <2>4. ContigFree' /\ NullAtEnd'
    BY <2>1, <2>2, <2>3, <1>1 DEF Inv, ContigFree, NullAtEnd
  <2>5. NothingMissed'
    BY <2>1, <2>3, <1>1 DEF Inv, NothingMissed, FreeRun
  <2> QED
    BY <2>3, <2>4, <2>5, <1>2, <1>3, InvQuiet DEF ScanNull
<1>4. CASE AllocNull
  <2>1. call' = Idle /\ ~ Scanning'
    BY <1>4 DEF AllocNull, Scanning, Idle
  <2>2. CallOK'
    BY <2>1 DEF CallOK, Idle, Frames
  <2>3. ContigFree' /\ NothingMissed' /\ NullAtEnd'
    BY <2>1 DEF ContigFree, NothingMissed, NullAtEnd, Idle
  <2> QED
    BY <2>1, <2>2, <2>3, <1>2, <1>4, InvQuiet DEF AllocNull
<1> QED
  BY <1>3, <1>4
-----------------------------------------------------------------------------
(* free_pages clears what its caller held, and that was nobody else's.     *)
LEMMA InvFreePages ==
    ASSUME Inv, NEW g \in Holders, FreePages(g)
    PROVE  Inv'
<1> USE Sizes
<1>1. /\ framemap' = [f \in Frames |-> framemap[f] /\ f \notin owned[g]]
      /\ owned' = [owned EXCEPT ![g] = {}]
      /\ owned[g] # {} /\ call.pc = "idle"
      /\ call' = call /\ mmap' = mmap /\ entry' = entry
  BY DEF FreePages
<1>2. /\ framemap \in [Frames -> BOOLEAN]
      /\ owned \in [Holders -> SUBSET Frames]
  BY DEF Inv, TypeOK
<1>3. entry = 0
  BY <1>1 DEF Inv, BootFirst
<1>4. \A f \in Frames : framemap'[f] <=> framemap[f] /\ f \notin owned[g]
  BY <1>1
<1>5. \A h \in Holders : owned'[h] = IF h = g THEN {} ELSE owned[h]
  BY <1>1, <1>2
<1>6. TypeOK' /\ CallOK'
  <2>1. framemap' \in [Frames -> BOOLEAN]
    BY <1>1, <1>2
  <2>2. owned' \in [Holders -> SUBSET Frames]
    BY <1>1, <1>2
  <2> QED
    BY <2>1, <2>2, <1>1 DEF Inv, TypeOK, CallOK, Scanning
<1>7. BootFirst'
  BY <1>1, <1>3 DEF BootFirst
<1>8. FramesExclusive'
  <2>1. ASSUME NEW h \in Holders, NEW f \in owned'[h] PROVE framemap'[f]
    <3>1. h # g /\ f \in owned[h] /\ f \in Frames
      BY <1>2, <1>5
    <3>2. framemap[f] /\ f \notin owned[g]
      BY <3>1 DEF Inv, FramesExclusive
    <3> QED
      BY <3>1, <3>2, <1>4
  <2>2. \A h, k \in Holders : h # k => owned'[h] \cap owned'[k] = {}
    BY <1>5 DEF Inv, FramesExclusive
  <2> QED
    BY <2>1, <2>2 DEF FramesExclusive
<1>9. \A f \in Frames : OutOfReach(f) => OutOfReach(f)'
  BY <1>4, <1>5 DEF OutOfReach
<1>10. KernelKept'
  <2> SUFFICES ASSUME NEW f \in 0 .. KernFrames - 1 PROVE OutOfReach(f)'
    BY DEF KernelKept, OutOfReach
  <2>1. OutOfReach(f) /\ f \in Frames
    BY <1>3 DEF Inv, KernelKept, OutOfReach, Frames
  <2> QED
    BY <2>1, <1>9
<1>11. RegionsMarked'
  BY <1>1, <1>9 DEF Inv, RegionsMarked, Aligned, Touches
<1>12. ContigFree' /\ NothingMissed' /\ NullAtEnd'
  BY <1>1 DEF ContigFree, NothingMissed, NullAtEnd, Scanning
<1> QED
  BY <1>6, <1>7, <1>8, <1>10, <1>11, <1>12 DEF Inv

LEMMA InvStutter == Inv /\ UNCHANGED vars => Inv'
<1> SUFFICES ASSUME Inv, UNCHANGED vars PROVE Inv'
  OBVIOUS
<1>1. /\ mmap' = mmap /\ entry' = entry /\ framemap' = framemap
      /\ owned' = owned /\ call' = call
  BY DEF vars
<1>2. TypeOK' /\ CallOK' /\ BootFirst' /\ FramesExclusive' /\ KernelKept'
  BY <1>1 DEF Inv, TypeOK, CallOK, BootFirst, FramesExclusive, KernelKept,
              Scanning
<1>3. \A f \in Frames : OutOfReach(f) => OutOfReach(f)'
  BY <1>1 DEF OutOfReach
<1>4. RegionsMarked'
  BY <1>1, <1>3 DEF Inv, RegionsMarked, Aligned, Touches
<1>5. ContigFree' /\ NothingMissed' /\ NullAtEnd'
  BY <1>1 DEF Inv, ContigFree, NothingMissed, NullAtEnd, Scanning, FreeRun
<1> QED
  BY <1>2, <1>4, <1>5 DEF Inv

LEMMA InvNext == Inv /\ [Next]_vars => Inv'
<1> SUFFICES ASSUME Inv, [Next]_vars PROVE Inv'
  OBVIOUS
<1>1. CASE ReserveEntry
  BY <1>1, InvReserveEntry
<1>2. CASE ReserveKernel
  BY <1>2, InvReserveKernel
<1>3. CASE ScanStep
  BY <1>3, InvScanOn, InvScanFound, InvScanNull DEF ScanStep
<1>4. ASSUME NEW h \in Holders, NEW high \in BOOLEAN, NEW count \in Counts,
             AllocPages(h, high, count)
      PROVE  Inv'
  BY <1>4, InvAllocPages
<1>5. ASSUME NEW h \in Holders, FreePages(h) PROVE Inv'
  BY <1>5, InvFreePages
<1>6. CASE UNCHANGED vars
  BY <1>6, InvStutter
<1> QED
  BY <1>1, <1>2, <1>3, <1>4, <1>5, <1>6 DEF Next

(* The inductive invariant holds in every state.                           *)
LEMMA Invariant == Spec => []Inv
BY InvInit, InvNext, PTL DEF Spec
-----------------------------------------------------------------------------
(* The bitmap, the callers' frames and the loop variables of alloc_pages   *)
(* keep their types; contig never passes the count it is compared with.    *)
THEOREM TypeCorrect == Spec => []TypeOK
<1>1. Inv => TypeOK
  BY DEF Inv
<1> QED
  BY <1>1, Invariant, PTL

(* Whatever alloc_pages and free_pages are called for and in which order,  *)
(* two callers never hold the same frame, and a held frame stays marked.   *)
THEOREM Exclusive == Spec => []FramesExclusive
<1>1. Inv => FramesExclusive
  BY DEF Inv
<1> QED
  BY <1>1, Invariant, PTL

(* For any memory map, alloc_pages gives away neither the frames of the    *)
(* kernel nor those of an unavailable, page-aligned region in 32 bits.     *)
THEOREM ReservedStays == Spec => []ReservedKept
<1>1. Inv => ReservedKept
  BY InvImplies
<1> QED
  BY <1>1, Invariant, PTL

(* First fit misses nothing: NULL for low memory means there was no run.   *)
THEOREM NullIsHonest == Spec => []NullMeansFull
<1>1. Inv => NullMeansFull
  BY InvImplies
<1> QED
  BY <1>1, Invariant, PTL

(* No step gives a caller without PMM_FLAGS_HIGHMEM a frame above the      *)
(* identity-mapped memory.                                                 *)
THEOREM LowIsLow == Spec => LowStaysLow
<1> DEFINE Low == \A h \in Holders :
                     ~ call.high /\ owned'[h] # owned[h] =>
                         owned'[h] \subseteq 0 .. LowFrames - 1
<1>1. Inv /\ [Next]_vars => [Low]_vars
  <2> SUFFICES ASSUME Inv, Next, NEW h \in Holders,
                      ~ call.high, owned'[h] # owned[h]
               PROVE  owned'[h] \subseteq 0 .. LowFrames - 1
    OBVIOUS
  <2> USE Sizes
  <2>1. CASE ScanFound
    <3>1. call.paddr \in Nat /\ call.paddr < LowFrames
      BY <2>1 DEF ScanFound, InBounds, Inv, TypeOK, Frames
    <3>2. Run(call.paddr, call.count) \subseteq 1 .. call.paddr
      BY <2>1, RunIsFree
    <3>3. Run(call.paddr, call.count) \subseteq 0 .. LowFrames - 1
      BY <3>1, <3>2
    <3>4. owned'[h] \in {owned[h], Run(call.paddr, call.count)}
      BY <2>1 DEF ScanFound, Inv, TypeOK
    <3> QED
      BY <3>3, <3>4
  <2>2. ASSUME NEW g \in Holders, FreePages(g)
        PROVE  owned'[h] \in {owned[h], {}}
    BY <2>2 DEF FreePages, Inv, TypeOK
  <2>3. ASSUME owned' = owned PROVE FALSE
    BY <2>3
  <2> QED
    BY <2>1, <2>2, <2>3
       DEF Next, ScanStep, ReserveEntry, ReserveKernel, ScanOn, ScanNull,
           AllocNull, AllocPages
<1>2. Spec => [][Low]_vars
  BY <1>1, Invariant, PTL DEF Spec
<1> QED
  BY <1>2 DEF LowStaysLow
=============================================================================
