-------------------------------- MODULE Pmm ---------------------------------
(***************************************************************************)
(* The physical page allocator of kernel/mm/paging.c: the frame bitmap,    *)
(* what paging_init reserves in it, and alloc_pages and free_pages.        *)
(*                                                                         *)
(* The loop of alloc_pages is modelled one iteration at a time: for        *)
(* PMM_FLAGS_HIGHMEM its bound is EOM = 2^32 - 1, which no page-aligned    *)
(* 32-bit address reaches, so paddr wraps to 0 and the loop goes on.       *)
(* Frames are numbered from 0; bytes are counted only in reserve.          *)
(***************************************************************************)
EXTENDS Integers, Sequences, FiniteSets

CONSTANTS
    NFrames,    \* NFRAMES, the frames a 32-bit address can name
    LowFrames,  \* frames below KERN_IDENTITY_PHYS_END
    KernFrames, \* frames of reserve(0, PAGE_TABLE_SIZE)
    PageSize,   \* bytes in a page
    MemMaps,    \* the memory maps a bootloader may pass: sequences of entries
    Holders,    \* callers, each with at most one allocation at a time
    Counts      \* how many frames they ask for

Word == NFrames * PageSize          \* 2^32

ASSUME PmmAssumption ==
    /\ NFrames \in Nat /\ LowFrames \in Nat /\ KernFrames \in Nat
    /\ 0 < KernFrames /\ KernFrames < LowFrames /\ LowFrames < NFrames
    /\ PageSize \in Nat /\ PageSize > 1
    /\ Counts \subseteq 1 .. NFrames
    /\ MemMaps \subseteq Seq([addr : Nat, len : Nat, available : BOOLEAN])

VARIABLES
    mmap,       \* the memory map, mbd->mmap_addr
    entry,      \* the entry reserve_mem_map looks at; 0 once booted
    framemap,   \* framemap[f]: is frame f marked used?
    owned,      \* the frames each holder got from alloc_pages
    call        \* the call of alloc_pages in progress: flags, count and the
                \* loop variables paddr (as a frame) and contig

vars == <<mmap, entry, framemap, owned, call>>
-----------------------------------------------------------------------------
Frames == 0 .. NFrames - 1

(* PAGE_ROUND_DOWN and PAGE_ROUND_UP, in 32 bits                           *)
RoundDown(x) == x - (x % PageSize)
RoundUp(x) ==
    IF x % PageSize # 0 THEN (RoundDown(x) + PageSize) % Word ELSE x

(* reserve: start and length are rounded each on its own                   *)
Reserved(start, length) ==
    LET first == RoundDown(start)
        end == (first + RoundUp(length) - 1) % Word
    IN  {f \in Frames : first <= f * PageSize /\ f * PageSize < end}
reserve(map, start, length) ==
    [f \in Frames |-> map[f] \/ f \in Reserved(start, length)]

Idle == [pc |-> "idle", high |-> FALSE, count |-> 0, paddr |-> 0, contig |-> 0,
         holder |-> 0]

Init ==
    /\ mmap \in MemMaps
    /\ entry = 1
    /\ framemap = [f \in Frames |-> FALSE]
    /\ owned = [h \in Holders |-> {}]
    /\ call = Idle

(* mutant: the test of the entry's type is the wrong way round             *)
ReserveAvailable ==
    /\ entry \in 1 .. Len(mmap)
    /\ framemap' =
         IF ~ mmap[entry].available THEN framemap
         ELSE reserve(framemap, mmap[entry].addr % Word, mmap[entry].len % Word)
    /\ entry' = entry + 1
    /\ UNCHANGED <<mmap, owned, call>>
(* reserve_mem_map: the low words of an entry that is not available        *)
ReserveEntry ==
    /\ entry \in 1 .. Len(mmap)
    /\ framemap' =
         IF mmap[entry].available THEN framemap
         ELSE reserve(framemap, mmap[entry].addr % Word, mmap[entry].len % Word)
    /\ entry' = entry + 1
    /\ UNCHANGED <<mmap, owned, call>>

(* paging_init ends with the first 4 MiB, where the kernel is              *)
ReserveKernel ==
    /\ entry = Len(mmap) + 1
    /\ framemap' = reserve(framemap, 0, KernFrames * PageSize)
    /\ entry' = 0
    /\ UNCHANGED <<mmap, owned, call>>
-----------------------------------------------------------------------------
(* alloc_pages is called: where the scan starts                            *)
AllocPages(h, high, count) ==
    /\ entry = 0
    /\ call.pc = "idle"
    /\ owned[h] = {}
    /\ call' = [pc |-> "scan", high |-> high, count |-> count,
                paddr |-> IF high THEN LowFrames ELSE 0,
                contig |-> 0, holder |-> h]
    /\ UNCHANGED <<mmap, entry, framemap, owned>>

(* The count frames that end with paddr, in 32-bit arithmetic              *)
Run(paddr, count) ==
    {(paddr - i + NFrames) % NFrames : i \in 0 .. count - 1}

(* mutants: the low scan runs one frame too far, or on for ever            *)
InBoundsPlusOne == call.high \/ call.paddr <= LowFrames
InBoundsAlways == TRUE
(* The loop test.  paddr < EOM always holds.                               *)
InBounds == call.high \/ call.paddr < LowFrames

NextNoWrap(p) == p + 1      \* mutant: 64-bit addresses
NextPage(p) == (p + 1) % NFrames

(* mutant: contig++ == count                                               *)
CompletesLate == ~ framemap[call.paddr] /\ call.contig = call.count
(* ++contig == count at a free frame                                       *)
Completes == ~ framemap[call.paddr] /\ call.contig + 1 = call.count

(* mutant: a used frame does not reset contig                              *)
ScanNoReset ==
    /\ call.pc = "scan" /\ InBounds /\ ~ Completes
    /\ call' = [call EXCEPT
                  !.contig = IF framemap[call.paddr] THEN @ ELSE @ + 1,
                  !.paddr = NextPage(@)]
    /\ UNCHANGED <<mmap, entry, framemap, owned>>
(* One iteration that does not complete a run                              *)
ScanOn ==
    /\ call.pc = "scan" /\ InBounds /\ ~ Completes
    /\ call' = [call EXCEPT
                  !.contig = IF framemap[call.paddr] THEN 0 ELSE @ + 1,
                  !.paddr = NextPage(@)]
    /\ UNCHANGED <<mmap, entry, framemap, owned>>

(* One iteration that does: the frames are marked and their base returned  *)
ScanFound ==
    /\ call.pc = "scan" /\ InBounds /\ Completes
    /\ framemap' = [f \in Frames |->
                       framemap[f] \/ f \in Run(call.paddr, call.count)]
    /\ owned' = [owned EXCEPT ![call.holder] = Run(call.paddr, call.count)]
    /\ call' = Idle
    /\ UNCHANGED <<mmap, entry>>

(* The loop ends: NULL                                                     *)
ScanNull ==
    /\ call.pc = "scan" /\ ~ InBounds
    /\ call' = [call EXCEPT !.pc = "null"]
    /\ UNCHANGED <<mmap, entry, framemap, owned>>
AllocNull ==
    /\ call.pc = "null"
    /\ call' = Idle
    /\ UNCHANGED <<mmap, entry, framemap, owned>>

(* free_pages of what a holder got                                         *)
FreePages(h) ==
    /\ call.pc = "idle"
    /\ owned[h] # {}
    /\ framemap' = [f \in Frames |-> framemap[f] /\ f \notin owned[h]]
    /\ owned' = [owned EXCEPT ![h] = {}]
    /\ UNCHANGED <<mmap, entry, call>>

ScanStep == ScanOn \/ ScanFound \/ ScanNull \/ AllocNull

Next ==
    \/ ReserveEntry \/ ReserveKernel
    \/ ScanStep
    \/ \E h \in Holders :
        \/ \E high \in BOOLEAN, count \in Counts : AllocPages(h, high, count)
        \/ FreePages(h)

Spec == Init /\ [][Next]_vars

(* alloc_pages runs on; nothing preempts the kernel for good               *)
FairSpec == Spec /\ WF_vars(ScanStep)
-----------------------------------------------------------------------------
Scanning == call.pc \in {"scan", "null"}

(* The state has its type.                                                 *)
TypeOK ==
    /\ mmap \in MemMaps
    /\ entry \in 0 .. Len(mmap) + 1
    /\ framemap \in [Frames -> BOOLEAN]
    /\ owned \in [Holders -> SUBSET Frames]
    /\ call.pc \in {"idle", "scan", "null"}
    /\ call.paddr \in Frames /\ call.contig \in 0 .. NFrames
    /\ Scanning => call.holder \in Holders /\ call.count \in Counts

(* alloc_pages hands out frames that were free and marks them, and         *)
(* free_pages gives back no more: what two callers hold never overlaps,    *)
(* and is marked for as long as they hold it.                              *)
FramesExclusive ==
    /\ \A h \in Holders : \A f \in owned[h] : framemap[f]
    /\ \A g, h \in Holders : g # h => owned[g] \cap owned[h] = {}

KernelKept ==
    entry = 0 =>
        \A f \in 0 .. KernFrames - 1 :
            framemap[f] /\ \A h \in Holders : f \notin owned[h]

Touches(e, f) ==
    /\ e.len > 0 /\ ~ e.available
    /\ e.addr < (f + 1) * PageSize /\ f * PageSize < e.addr + e.len
Aligned(e) ==
    e.addr % PageSize = 0 /\ e.len % PageSize = 0 /\ e.addr + e.len <= Word
RegionKept(e) ==
    \A f \in Frames : Touches(e, f) => \A h \in Holders : f \notin owned[h]
(* Reserved memory is never given away: the kernel's own, whose frame 0    *)
(* would make a successful alloc_pages look like a failed one; nor a frame *)
(* that an unavailable region of the map touches, provided the region is   *)
(* page-aligned and ends within 32 bits.                                   *)
ReservedKept ==
    /\ KernelKept
    /\ \A i \in 1 .. Len(mmap) : Aligned(mmap[i]) => RegionKept(mmap[i])

(* alloc_pages for low memory returns NULL only if no run of that many     *)
(* frames is free there.                                                   *)
FreeRun(base, count) ==
    \A f \in base .. base + count - 1 : ~ framemap[f]
NullMeansFull ==
    call.pc = "null" =>
        \A base \in 0 .. LowFrames - call.count : ~ FreeRun(base, call.count)

(* What alloc_pages returns without PMM_FLAGS_HIGHMEM is low memory, which *)
(* the kernel can reach through KP2V.                                      *)
LowStaysLow ==
    [][\A h \in Holders :
          ~ call.high /\ owned'[h] # owned[h] =>
              owned'[h] \subseteq 0 .. LowFrames - 1]_vars

(* Every call for low memory returns.                                      *)
LowReturns == (call.pc = "scan" /\ ~ call.high) ~> call.pc = "idle"

(* What mm/paging.h says and the code does not do: HIGHMEM returns 0 on    *)
(* failure (109), and reserve covers [start, start + length) (125).        *)
HighReturns == (call.pc = "scan" /\ call.high) ~> call.pc = "idle"
AllRegionsKept == \A i \in 1 .. Len(mmap) : RegionKept(mmap[i])
=============================================================================
