------------------------------- MODULE Space --------------------------------
(***************************************************************************)
(* The address spaces of the three-process demo, down to frames and page   *)
(* tables: make_user_proc_with_message (core/kernel.c) writes code and     *)
(* data through temporary mappings (Vmm), create_proc and proc_map_pages   *)
(* (proc/proc.c) build the directory, and any allocation can fail.  Then   *)
(* the processes run, and sys_print_string (core/syscall.c) copies bytes   *)
(* from whatever address they pass.                                        *)
(*                                                                         *)
(* Memory that alloc_pages hands out holds old data: Junk is a frame that  *)
(* an entry which was never cleared may point at.                          *)
(***************************************************************************)
EXTENDS Integers, Sequences, FiniteSetsExt

CONSTANTS
    NProcs,
    LowFrames, NSlots,      \* as in Vmm
    HighFrames,             \* frames of high memory
    FreeSets,               \* the frames that may be free at the start
    TableSize,              \* 1024, entries of a page table
    UserTables,             \* KERN_START_TBL
    CodePage, DataPage,     \* USER_TEST_CODE_VA, USER_TEST_DATA_VA
    StackPage, StackPages,  \* the pages below PROC_STACK_TOP
    PageSize, BufLen,       \* bytes of a page, and of the buffer of the call
    MsgLen,                 \* length of the messages
    MaxLen                  \* bounds the lengths processes pass

Procs == 1 .. NProcs
Frames == 1 .. LowFrames + HighFrames
Junk == 1
UserPages == UserTables * TableSize
Kinds == {"code", "data", "stack"}

ASSUME SpaceAssumption ==
    /\ NProcs \in Nat \ {0} /\ NSlots \in Nat /\ NSlots >= 2
    /\ LowFrames \in Nat \ {0} /\ HighFrames \in Nat
    /\ FreeSets \subseteq SUBSET (Frames \ {Junk})
    /\ TableSize \in Nat \ {0} /\ UserTables \in Nat
    /\ {CodePage, DataPage} \subseteq 0 .. UserPages - 1 /\ CodePage # DataPage
    /\ StackPage \in Nat /\ StackPages \in Nat \ {0}
    /\ StackPage + StackPages <= UserPages
    /\ {CodePage, DataPage} \cap (StackPage .. StackPage + StackPages - 1) = {}
    /\ BufLen \in Nat \ {0} /\ MaxLen \in Nat
    /\ PageSize \in Nat /\ MsgLen \in Nat /\ MsgLen < PageSize

VARIABLES
    free,       \* frames the bitmap has as free
    content,    \* what was written last into each frame
    pde,        \* pde[d][i]: the frame of table i of the directory at d
    table,      \* table[f][j]: the frame of page j of the table at f
    dir,        \* dir[p]: the frame of the directory of p; 0 is what KP2V of
                \* a failed alloc_pages comes to
    phys,       \* the frames taken for each process: code, data, stack
    boot,       \* the boot thread: where it is, the process it makes, the
                \* page it maps, and whether the process could be made
    made,       \* the processes it has
    sys,        \* the system call in progress
    pte, tlb, held  \* as in Vmm

memory == <<content, pde, table>>
window == <<pte, tlb, held>>
vars == <<free, memory, dir, phys, boot, made, sys, window>>

V == INSTANCE Vmm WITH Clients <- {"code", "data"}
-----------------------------------------------------------------------------
NoCall == [pc |-> "idle", p |-> 1, src |-> 0, len |-> 0, dest |-> <<>>]

Init ==
    /\ free \in FreeSets
    /\ content = [f \in Frames |-> <<"junk", 0>>]
    /\ pde = [d \in {0} \cup Frames |-> [i \in 0 .. UserTables - 1 |-> Junk]]
    /\ table = [f \in Frames |-> [j \in 0 .. TableSize - 1 |-> Junk]]
    /\ dir = [p \in Procs |-> 0]
    /\ phys = [p \in Procs |-> [kind \in Kinds |-> 0]]
    /\ boot = [pc |-> "alloc code", p |-> 1, k |-> 0, ok |-> TRUE]
    /\ made = {} /\ sys = NoCall
    /\ V!Init

me == boot.p
Goto(pc) == boot' = [boot EXCEPT !.pc = pc, !.k = 0]
At(pc) == boot.pc = pc
(* Both mappings are dropped on the way out.                               *)
GiveUp == boot' = [boot EXCEPT !.pc = "unmap code", !.ok = FALSE]

(* alloc_pages: the first run of free frames.  The search of high memory   *)
(* wraps around and goes through all of memory, and for ever if there is   *)
(* none: Pmm has the iterations.                                           *)
Runs(in, count) == {f \in in : f .. f + count - 1 \subseteq in \cap free}
FirstRun(in, count) == IF Runs(in, count) = {} THEN 0 ELSE Min(Runs(in, count))
alloc_low(count) == FirstRun(V!Low, count)
alloc_high(count) ==
    IF Runs(Frames \ V!Low, count) # {} THEN FirstRun(Frames \ V!Low, count)
    ELSE FirstRun(Frames, count)
(* mutant: the frames are not marked                                       *)
TakeNothing(f, count) == UNCHANGED free
Take(f, count) == free' = free \ (f .. f + count - 1)

(* A call of alloc_pages for pages the process will see                    *)
AllocUser(pc, kind, count, next) ==
    /\ At(pc)
    /\ LET f == alloc_high(count)
       IN  \/ /\ f # 0 /\ Take(f, count)
              /\ phys' = [phys EXCEPT ![me][kind] = f]
              /\ Goto(next)
           \/ f = 0 /\ Goto("hangs") /\ UNCHANGED <<free, phys>>
    /\ UNCHANGED <<memory, dir, made, sys, window>>
AllocCode == AllocUser("alloc code", "code", 1, "alloc data")
AllocData == AllocUser("alloc data", "data", 1, "map code")
AllocStack == AllocUser("alloc stack", "stack", StackPages, "stack")

MapWindow(pc, kind, next) ==
    /\ At(pc)
    /\ V!Kmap(kind, phys[me][kind])
    /\ Goto(next)
    /\ UNCHANGED <<free, memory, dir, phys, made, sys>>
MapCodePage == MapWindow("map code", "code", "map data")
MapDataPage == MapWindow("map data", "data", "write code")

(* The page is cleared and written through its mapping.                    *)
WritePage(pc, kind, next) ==
    /\ At(pc)
    /\ V!Access({held[kind].page})
    /\ content' = [content EXCEPT ![V!Translate(held[kind].page)] = <<kind, me>>]
    /\ Goto(next)
    /\ UNCHANGED <<free, pde, table, dir, phys, made, sys>>
WriteCode == WritePage("write code", "code", "write data")
WriteData == WritePage("write data", "data", "proc_t")

(* create_proc has a slot and memory for the proc_t, or not.               *)
AllocProc ==
    /\ At("proc_t")
    /\ Goto("dir") \/ GiveUp
    /\ UNCHANGED <<free, memory, dir, phys, made, sys, window>>

(* Two frames for the directory and its table pointers, cleared.  A failed *)
(* allocation is not noticed.  clone_page_dir shares the kernel half; the  *)
(* kernel's own directory has no user half to copy.                        *)
AllocDir ==
    /\ At("dir")
    /\ LET d == alloc_low(2)
       IN  /\ dir' = [dir EXCEPT ![me] = d]
           /\ IF d = 0 THEN UNCHANGED free ELSE Take(d, 2)
           /\ pde' = [pde EXCEPT ![d] = [i \in DOMAIN @ |-> 0]]
    /\ Goto("alloc stack")
    /\ UNCHANGED <<content, table, phys, made, sys, window>>
-----------------------------------------------------------------------------
Cleared == [j \in 0 .. TableSize - 1 |-> 0]
(* mutant: a new table keeps what the frame held                           *)
NewTableDirty(d, i, j, frame) ==
    LET t == alloc_low(1)
    IN  /\ pde[d][i] = 0 /\ t # 0 /\ Take(t, 1)
        /\ pde' = [pde EXCEPT ![d][i] = t]
        /\ table' = [table EXCEPT ![t] = [@ EXCEPT ![j] = frame]]
(* The directory has no table there yet.                                   *)
NewTable(d, i, j, frame) ==
    LET t == alloc_low(1)
    IN  /\ pde[d][i] = 0 /\ t # 0 /\ Take(t, 1)
        /\ pde' = [pde EXCEPT ![d][i] = t]
        /\ table' = [table EXCEPT ![t] = [Cleared EXCEPT ![j] = frame]]

SetPage(d, i, j, frame) ==
    /\ pde[d][i] # 0
    /\ table' = [table EXCEPT ![pde[d][i]][j] = frame]
    /\ UNCHANGED <<free, pde>>

(* mutant: the TLB is not flushed                                          *)
NoFlush == UNCHANGED window
flush_tlb == V!Flush

(* proc_map_pages, a page at a time: it flushes the TLB when all are       *)
(* mapped, and not when it runs out of page tables.                        *)
proc_map_pages(kind, virt, pages, next) ==
    /\ At(kind)
    /\ LET d == dir[me]
           i == (virt + boot.k) \div TableSize
           j == (virt + boot.k) % TableSize
           frame == phys[me][kind] + boot.k
       IN  \/ /\ NewTable(d, i, j, frame) \/ SetPage(d, i, j, frame)
              /\ \/ /\ boot.k + 1 < pages
                    /\ boot' = [boot EXCEPT !.k = @ + 1]
                    /\ UNCHANGED window
                 \/ boot.k + 1 = pages /\ Goto(next) /\ flush_tlb
           \/ /\ pde[d][i] = 0 /\ alloc_low(1) = 0
              /\ GiveUp
              /\ UNCHANGED <<free, pde, table, window>>
    /\ UNCHANGED <<content, dir, phys, made, sys>>
MapStack == proc_map_pages("stack", StackPage, StackPages, "code")
MapCode == proc_map_pages("code", CodePage, 1, "data")
MapData == proc_map_pages("data", DataPage, 1, "unmap code")

UnmapCode ==
    /\ At("unmap code")
    /\ V!Kunmap("code")
    /\ Goto("unmap data")
    /\ UNCHANGED <<free, memory, dir, phys, made, sys>>

(* make_user_proc_with_message returns, and the next one is made.          *)
Return ==
    /\ At("unmap data")
    /\ V!Kunmap("data")
    /\ made' = IF boot.ok THEN made \cup {me} ELSE made
    /\ boot' = [pc |-> IF me < NProcs THEN "alloc code" ELSE "check",
                p |-> IF me < NProcs THEN me + 1 ELSE me, k |-> 0, ok |-> TRUE]
    /\ UNCHANGED <<free, memory, dir, phys, sys>>

(* kernel_three_process_test runs them if it has them all.                 *)
CheckMade ==
    /\ At("check")
    /\ Goto(IF made = Procs THEN "running" ELSE "paused")
    /\ UNCHANGED <<free, memory, dir, phys, made, sys, window>>
-----------------------------------------------------------------------------
(* The frame a directory has for a user page, 0 if there is none           *)
Walk(p, page) ==
    IF page < UserPages /\ pde[dir[p]][page \div TableSize] # 0
    THEN table[pde[dir[p]][page \div TableSize]][page % TableSize] ELSE 0

(* mutant: what is checked is the page below                               *)
AccessibleBelow(p, addr) ==
    addr < UserPages * PageSize + 1 /\ Walk(p, (addr - 1) \div PageSize) # 0
user_addr_accessible(p, addr) ==
    addr < UserPages * PageSize /\ Walk(p, addr \div PageSize) # 0

NUL == <<0, 0>>
(* The byte at an address, named by its place; the message ends in NULs.   *)
Byte(p, addr) ==
    LET f == Walk(p, addr \div PageSize)
        off == addr % PageSize
    IN  IF f \in Frames /\ content[f][1] = "data" /\ off >= MsgLen THEN NUL
        ELSE <<f, off>>

(* sys_print_string, by a process with anything in its registers           *)
sys_print_string ==
    /\ At("running") /\ sys.pc = "idle"
    /\ \E p \in Procs, src \in 0 .. (UserPages + 1) * PageSize - 1, len \in 0 .. MaxLen :
         sys' = [pc |-> IF src = 0 \/ len = 0 THEN "EINVAL" ELSE "copy",
                 p |-> p, src |-> src, len |-> len, dest |-> <<>>]
    /\ UNCHANGED <<free, memory, dir, phys, boot, made, window>>

limit == Min({sys.len, BufLen - 1})
copied == Len(sys.dest)

(* copy_user_string, a byte at a time                                      *)
CopyByte ==
    /\ sys.pc = "copy" /\ copied < limit
    /\ LET addr == sys.src + copied
           c == Byte(sys.p, addr)
       IN  \/ /\ user_addr_accessible(sys.p, addr)
              /\ sys' = [sys EXCEPT !.dest = Append(@, c),
                                    !.pc = IF c = NUL THEN "SUCCESS" ELSE "copy"]
           \/ /\ ~ user_addr_accessible(sys.p, addr)
              /\ sys' = [sys EXCEPT !.pc = "EFAULT"]
    /\ UNCHANGED <<free, memory, dir, phys, boot, made, window>>

copy_user_string ==
    /\ sys.pc = "copy" /\ copied = limit
    /\ sys' = [sys EXCEPT !.dest = Append(@, NUL), !.pc = "SUCCESS"]
    /\ UNCHANGED <<free, memory, dir, phys, boot, made, window>>

SysReturn ==
    /\ sys.pc \in {"SUCCESS", "EINVAL", "EFAULT"}
    /\ sys' = NoCall
    /\ UNCHANGED <<free, memory, dir, phys, boot, made, window>>

(* The processor drops a translation.                                      *)
Evict ==
    /\ boot.pc \notin {"running", "paused", "hangs"}
    /\ \E v \in V!Pages : V!Evict(v)
    /\ UNCHANGED <<free, memory, dir, phys, boot, made, sys>>

Next ==
    \/ AllocCode \/ AllocData \/ MapCodePage \/ MapDataPage
    \/ WriteCode \/ WriteData
    \/ AllocProc \/ AllocDir \/ AllocStack \/ MapStack \/ MapCode \/ MapData
    \/ UnmapCode \/ Return \/ CheckMade
    \/ sys_print_string \/ CopyByte \/ copy_user_string \/ SysReturn
    \/ Evict

Spec == Init /\ [][Next]_vars
-----------------------------------------------------------------------------
(* The frames that were taken for a process, and those of its tables       *)
Own(p) ==
    ({phys[p]["code"], phys[p]["data"]} \cup
        (IF phys[p]["stack"] = 0 THEN {}
         ELSE phys[p]["stack"] .. phys[p]["stack"] + StackPages - 1))
    \ {0}
Tables(p) == {pde[dir[p]][i] : i \in 0 .. UserTables - 1} \ {0}
Private(p) == dir[p] # 0

(* When the demo is started (kernel.c:230-233) each process with a         *)
(* directory of its own finds there its code, its data and its stack, as   *)
(* they were written for it, although all were written at the same window  *)
(* addresses.                                                              *)
RunsOwnPages ==
    At("running") => \A p \in Procs : Private(p) =>
        /\ content[Walk(p, CodePage)] = <<"code", p>>
        /\ content[Walk(p, DataPage)] = <<"data", p>>
        /\ \A k \in 0 .. StackPages - 1 : Walk(p, StackPage + k) = phys[p]["stack"] + k

(* Isolation, at every step of their making: what the user half of a       *)
(* private directory reaches was taken for its process, and for no other   *)
(* and for no directory or page table.                                     *)
Isolated ==
    \A p \in Procs : Private(p) =>
        /\ \A page \in 0 .. UserPages - 1 : Walk(p, page) \in {0} \cup Own(p)
        /\ \A q \in Procs :
             /\ q # p => Own(p) \cap Own(q) = {}
             /\ Private(q) => Own(p) \cap ({dir[q], dir[q] + 1} \cup Tables(q)) = {}

(* kunmap of a low frame clears its permanent mapping, but the frames the  *)
(* kernel works on by that mapping, directories and page tables, never     *)
(* lose theirs: only user pages that high memory had no room for do.       *)
KernelMemoryMapped ==
    \A p \in Procs : Private(p) =>
        \A f \in {dir[p], dir[p] + 1} \cup Tables(p) : pte[f] = f

(* Each process begins with an empty window, whatever became of the last.  *)
(* A window address is stale, in the TLB, only after a process could not   *)
(* be made, for proc_map_pages flushes on the other way.                   *)
WindowClean ==
    /\ boot.pc \in {"alloc code", "check", "running", "paused"} =>
         \A v \in V!Slots : pte[v] = 0
    /\ (\E v \in V!Slots : tlb[v] \notin {0, pte[v]}) =>
         \/ ~ boot.ok
         \/ \E p \in 1 .. me - 1 : p \notin made
         \/ boot.pc \in {"check", "paused"} /\ made # Procs

Asked == Min({sys.len, BufLen - 1})
Unreachable(k) == Walk(sys.p, (sys.src + k) \div PageSize) = 0
(* A system call fails exactly if a byte of the string it asks for, up to  *)
(* a NUL and to what the buffer holds, is not mapped for the user          *)
(* (syscall.c:44-74); the kernel never reads such a byte, nor does it      *)
(* write past the buffer.                                                  *)
CopyRight ==
    /\ sys.pc \in {"SUCCESS", "EFAULT"} =>
        (sys.pc = "EFAULT" <=>
            \E k \in 0 .. Asked - 1 :
                Unreachable(k) /\ \A j \in 0 .. k - 1 : Byte(sys.p, sys.src + j) # NUL)
    /\ Len(sys.dest) <= BufLen
=============================================================================
