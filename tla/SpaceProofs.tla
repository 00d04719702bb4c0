---------------------------- MODULE SpaceProofs -----------------------------
(***************************************************************************)
(* Proofs about Space, for any number of processes, any low and high       *)
(* memory and any set of frames that are free at the start.                *)
(***************************************************************************)
EXTENDS Space, NumberFacts, TLAPS

(* The places of the boot thread, in the order it passes them              *)
BeforeDir ==
    {"alloc code", "alloc data", "map code", "map data", "write code",
     "write data", "proc_t", "dir"}
Mapping == {"alloc stack", "stack", "code", "data"}
Leaving == {"unmap code", "unmap data"}
Finished == {"check", "running", "paused"}
Places == BeforeDir \cup Mapping \cup Leaving \cup Finished \cup {"hangs"}

HasCodeWindow == {"map data", "write code", "write data", "proc_t", "dir",
                  "unmap code"} \cup Mapping
HasDataWindow == {"write code", "write data", "proc_t", "dir"} \cup Mapping \cup Leaving
CodeWritten == {"write data", "proc_t", "dir"} \cup Mapping \cup Leaving
DataWritten == {"proc_t", "dir"} \cup Mapping \cup Leaving

Windows == {"code", "data"}
Tabs == 0 .. UserTables - 1
Dirs == {0} \cup Frames
FrameOrNone == {0} \cup Frames

TypeOK ==
    /\ free \subseteq Frames \ {Junk}
    /\ content \in [Frames -> {"junk", "code", "data"} \X (0 .. NProcs)]
    /\ pde \in [Dirs -> [Tabs -> FrameOrNone]]
    /\ table \in [Frames -> [0 .. TableSize - 1 -> FrameOrNone]]
    /\ dir \in [Procs -> {0} \cup V!Low]
    /\ phys \in [Procs -> [Kinds -> FrameOrNone]]
    /\ boot \in [pc : Places, p : Procs, k : Nat, ok : BOOLEAN]
    /\ made \subseteq Procs
    /\ sys \in [pc : {"idle", "copy", "SUCCESS", "EINVAL", "EFAULT"}, p : Procs,
                src : Nat, len : Nat, dest : Seq(Int \X Int)]
    /\ pte \in [V!Pages -> FrameOrNone]
    /\ tlb \in [V!Pages -> FrameOrNone]
    /\ held \in [Windows -> [page : {0} \cup V!Pages, frame : FrameOrNone]]

(* The boot thread makes p and is at one of the places; it has not passed  *)
(* them for p.                                                             *)
Making(p, places) == p = me /\ boot.pc \in places
Ahead(p, places) == p > me \/ Making(p, places)

(* What the boot thread has not come to is untouched.                      *)
PhaseOK ==
    /\ boot.pc \in Finished => me = NProcs
    /\ ~ boot.ok => boot.pc \in Leaving
    /\ \A p \in Procs :
         /\ Ahead(p, BeforeDir) => dir[p] = 0
         /\ p \in made => p < me \/ boot.pc \in Finished
         /\ Ahead(p, {"alloc code"}) => phys[p]["code"] = 0
         /\ Ahead(p, {"alloc code", "alloc data"}) => phys[p]["data"] = 0
         /\ Ahead(p, BeforeDir \cup {"alloc stack"}) => phys[p]["stack"] = 0
         /\ p \in made => \A kind \in Kinds : phys[p][kind] # 0
    /\ boot.pc \notin {"alloc code", "hangs"} => phys[me]["code"] # 0
    /\ boot.pc \notin {"alloc code", "alloc data", "hangs"} => phys[me]["data"] # 0
    /\ boot.pc \in {"stack", "code", "data"} => phys[me]["stack"] # 0
    /\ boot.pc \in Leaving /\ boot.ok => phys[me]["stack"] # 0
    /\ boot.pc = "running" => made = Procs

(* A frame serves one purpose.  (A table of Junk is what an entry that was *)
(* never cleared points at.)                                               *)
IsTable(f) == \E d \in Dirs, i \in Tabs : pde[d][i] = f /\ f \notin {0, Junk}
FramesOK ==
    /\ \A p \in Procs :
         /\ Own(p) \subseteq Frames \ free
         /\ phys[p]["code"] = phys[p]["data"] => phys[p]["code"] = 0
         /\ \A q \in Procs :
              /\ q # p => Own(p) \cap Own(q) = {}
              /\ Private(q) => {dir[q], dir[q] + 1} \cap Own(p) = {}
    /\ \A q \in Procs : Private(q) => {dir[q], dir[q] + 1} \subseteq V!Low \ free
    /\ \A f \in Frames : IsTable(f) =>
         f \in V!Low \ free /\ \A p \in Procs : f \notin Own(p)

(* No two entries share a page table, and no two processes a directory     *)
(* but the one at frame 0.                                                 *)
Unshared(dirs) ==
    \A d \in Dirs, e \in Dirs, i \in Tabs, j \in Tabs :
        dirs[d][i] = dirs[e][j] /\ dirs[d][i] \notin {0, Junk} => d = e /\ i = j
TablesOK ==
    /\ Unshared(pde)
    /\ \A p \in Procs : Private(p) =>
         /\ \A q \in Procs : dir[q] = dir[p] => q = p
         /\ \A i \in Tabs : pde[dir[p]][i] # Junk
    /\ boot.pc = "alloc stack" => \A i \in Tabs : pde[dir[me]][i] = 0

(* What the user halves reach                                              *)
StackDone(p, n) == \A j \in 0 .. n - 1 : Walk(p, StackPage + j) = phys[p]["stack"] + j
CodeDone(p) == Walk(p, CodePage) = phys[p]["code"]
DataDone(p) == Walk(p, DataPage) = phys[p]["data"]
Stays(p) == p \in made \/ (Making(p, Leaving) /\ boot.ok)
WalkOK ==
    /\ \A p \in Procs : Private(p) =>
         /\ \A page \in 0 .. UserPages - 1 : Walk(p, page) \in {0} \cup Own(p)
         /\ Stays(p) \/ Making(p, {"code", "data"}) => StackDone(p, StackPages)
         /\ Stays(p) \/ Making(p, {"data"}) => CodeDone(p)
         /\ Stays(p) => DataDone(p)
         /\ Making(p, {"stack"}) => StackDone(p, boot.k)
    /\ boot.pc = "stack" => boot.k < StackPages
    /\ boot.pc \in {"code", "data"} => boot.k = 0

(* The window: what is mapped there is held, and what is unmapped in low   *)
(* memory belongs to a process.                                            *)
WindowOK ==
    /\ \A v \in V!Low :
         /\ pte[v] \in {0, v} /\ tlb[v] \in {0, v}
         /\ pte[v] = v \/ \E p \in Procs : v \in Own(p)
    /\ boot.pc \notin Leaving \cup Finished \cup {"hangs"} =>
         \A c \in Windows : phys[me][c] \in V!Low => pte[phys[me][c]] = phys[me][c]
    /\ \A c \in Windows : held[c].page # 0 =>
         /\ held[c].frame = phys[me][c] /\ phys[me][c] # 0
         /\ pte[held[c].page] = held[c].frame
         /\ held[c].page \in V!Low => held[c].page = held[c].frame
    /\ held["code"].page = held["data"].page => held["code"].page = 0
    /\ boot.pc # "hangs" =>
         /\ held["code"].page # 0 <=> boot.pc \in HasCodeWindow
         /\ held["data"].page # 0 <=> boot.pc \in HasDataWindow
    /\ \A v \in V!Slots : pte[v] # 0 => \E c \in Windows : held[c].page = v

(* As long as every process could be made, the TLB has nothing stale in    *)
(* the window, and what was written arrived where it belongs.              *)
Done == IF boot.pc \in Finished THEN Procs ELSE 1 .. me - 1
AllSoFar == Done \subseteq made
FreshOK ==
    /\ AllSoFar /\ boot.ok => \A v \in V!Slots : tlb[v] \in {0, pte[v]}
    /\ boot.pc \in Leaving /\ boot.ok => \A v \in V!Slots : tlb[v] = 0
    /\ AllSoFar =>
         /\ \A p \in Done : /\ content[phys[p]["code"]] = <<"code", p>>
                            /\ content[phys[p]["data"]] = <<"data", p>>
         /\ boot.pc \in CodeWritten => content[phys[me]["code"]] = <<"code", me>>
         /\ boot.pc \in DataWritten => content[phys[me]["data"]] = <<"data", me>>

(* A system call in progress has read what it could, and no NUL.           *)
Readable(k) == ~ Unreachable(k) /\ Byte(sys.p, sys.src + k) # NUL
SysOK ==
    /\ sys.pc # "idle" => boot.pc = "running"
    /\ sys.pc \in {"copy", "EFAULT"} =>
         copied <= limit /\ \A k \in 0 .. copied - 1 : Readable(k)
    /\ sys.pc = "EFAULT" => copied < limit /\ Unreachable(copied)
    /\ sys.pc = "SUCCESS" =>
         \/ \A k \in 0 .. limit - 1 : Readable(k)
         \/ \E k \in 0 .. limit - 1 :
              /\ ~ Unreachable(k) /\ Byte(sys.p, sys.src + k) = NUL
              /\ \A j \in 0 .. k - 1 : Readable(j)
    /\ Len(sys.dest) <= BufLen

Inv ==
    TypeOK /\ PhaseOK /\ FramesOK /\ TablesOK /\ WalkOK /\ WindowOK /\ FreshOK /\ SysOK
-----------------------------------------------------------------------------
LEMMA LeastElement ==
    ASSUME NEW S \in SUBSET Nat, S # {}
    PROVE  Min(S) \in S /\ \A y \in S : Min(S) <= y
BY LeastNumber DEF Min

(* The entry of a page in the tables of a directory                        *)
TabOf(page) == page \div TableSize
EntryOf(page) == page % TableSize
LEMMA PlaceOfPage ==
    ASSUME NEW page \in 0 .. UserPages - 1
    PROVE  TabOf(page) \in Tabs /\ EntryOf(page) \in 0 .. TableSize - 1
<1>1. TableSize \in Nat \ {0} /\ UserTables \in Nat /\ UserTables * TableSize \in Nat
  BY SpaceAssumption
<1>2. page \in Nat /\ page < UserTables * TableSize
  BY <1>1 DEF UserPages
<1>3. page \div TableSize < UserTables
  BY <1>1, <1>2, DivBelow
<1>4. page \div TableSize \in Nat /\ page % TableSize \in 0 .. TableSize - 1
  BY <1>1, <1>2, DivMod
<1> QED
  BY <1>1, <1>3, <1>4 DEF TabOf, EntryOf, Tabs

LEMMA PlacesDiffer ==
    ASSUME NEW x \in Nat, NEW y \in Nat,
           TabOf(x) = TabOf(y), EntryOf(x) = EntryOf(y)
    PROVE  x = y
<1>1. TableSize \in Nat \ {0}
  BY SpaceAssumption
<1>2. x = TabOf(x) * TableSize + EntryOf(x)
  BY <1>1, DivMod DEF TabOf, EntryOf
<1>3. y = TabOf(y) * TableSize + EntryOf(y)
  BY <1>1, DivMod DEF TabOf, EntryOf
<1> QED
  BY <1>2, <1>3
-----------------------------------------------------------------------------
(* Frames and pages are numbers.                                           *)
LEMMA Sizes ==
    /\ NProcs \in Nat \ {0} /\ LowFrames \in Nat \ {0} /\ HighFrames \in Nat
    /\ NSlots \in Nat /\ StackPage \in Nat /\ StackPages \in Nat \ {0}
    /\ Procs \subseteq Nat \ {0} /\ Frames \subseteq Nat \ {0} /\ V!Low \subseteq Frames
    /\ V!Slots \subseteq Nat \ {0} /\ V!Low \cap V!Slots = {} /\ Junk \in Frames
    /\ BufLen \in Nat \ {0} /\ PageSize \in Nat \ {0} /\ TableSize \in Nat \ {0}
    /\ UserTables \in Nat /\ UserPages \in Nat /\ MsgLen \in Nat /\ MaxLen \in Nat
<1>1. /\ NProcs \in Nat \ {0} /\ LowFrames \in Nat \ {0} /\ HighFrames \in Nat
      /\ NSlots \in Nat /\ StackPage \in Nat /\ StackPages \in Nat \ {0}
  BY SpaceAssumption
<1>2. /\ BufLen \in Nat \ {0} /\ PageSize \in Nat \ {0} /\ TableSize \in Nat \ {0}
      /\ UserTables \in Nat /\ MsgLen \in Nat /\ MaxLen \in Nat
  BY SpaceAssumption
<1>3. UserPages \in Nat
  BY <1>2 DEF UserPages
<1>4. /\ Procs \subseteq Nat \ {0} /\ Frames \subseteq Nat \ {0} /\ V!Low \subseteq Frames
      /\ V!Slots \subseteq Nat \ {0} /\ V!Low \cap V!Slots = {} /\ Junk \in Frames
  BY <1>1 DEF Procs, Frames, V!Low, V!Slots, V!ApicPage, Junk
<1> QED
  BY <1>1, <1>2, <1>3, <1>4

(* The pages of code, data and stack lie in the user half, apart.          *)
LEMMA PagesInHalf ==
    /\ CodePage \in 0 .. UserPages - 1 /\ DataPage \in 0 .. UserPages - 1
    /\ CodePage # DataPage
    /\ \A j \in 0 .. StackPages - 1 :
         /\ StackPage + j \in 0 .. UserPages - 1
         /\ StackPage + j # CodePage /\ StackPage + j # DataPage
<1>1. /\ CodePage \in 0 .. UserPages - 1 /\ DataPage \in 0 .. UserPages - 1
      /\ CodePage # DataPage
  BY SpaceAssumption
<1>2. /\ StackPage \in Nat /\ StackPages \in Nat /\ UserPages \in Nat
      /\ StackPage + StackPages <= UserPages
      /\ CodePage \notin StackPage .. StackPage + StackPages - 1
      /\ DataPage \notin StackPage .. StackPage + StackPages - 1
  BY SpaceAssumption, Sizes
<1> QED
  BY <1>1, <1>2

(* alloc_pages returns a run of free frames, in low memory for low         *)
(* requests, or nothing.                                                   *)
LEMMA RunFound ==
    ASSUME NEW in \in SUBSET Frames, NEW count \in Nat, Runs(in, count) # {}
    PROVE  /\ Min(Runs(in, count)) \in in
           /\ Min(Runs(in, count)) .. Min(Runs(in, count)) + count - 1 \subseteq in \cap free
<1>1. Runs(in, count) \in SUBSET Nat
  BY Sizes DEF Runs
<1>2. Min(Runs(in, count)) \in Runs(in, count)
  BY <1>1, LeastElement
<1> QED
  BY <1>2 DEF Runs

LEMMA LowRun ==
    ASSUME NEW count \in Nat, alloc_low(count) # 0
    PROVE  /\ alloc_low(count) \in V!Low
           /\ alloc_low(count) .. alloc_low(count) + count - 1 \subseteq V!Low \cap free
<1>1. V!Low \in SUBSET Frames
  BY Sizes
<1>2. Runs(V!Low, count) # {} /\ alloc_low(count) = Min(Runs(V!Low, count))
  BY DEF alloc_low, FirstRun
<1> QED
  BY <1>1, <1>2, RunFound

LEMMA HighRun ==
    ASSUME NEW count \in Nat, alloc_high(count) # 0
    PROVE  /\ alloc_high(count) \in Frames
           /\ alloc_high(count) .. alloc_high(count) + count - 1 \subseteq Frames \cap free
<1>1. CASE Runs(Frames \ V!Low, count) = {}
  <2>1. Runs(Frames, count) # {} /\ alloc_high(count) = Min(Runs(Frames, count))
    BY <1>1 DEF alloc_high, FirstRun
  <2>2. Frames \in SUBSET Frames
    OBVIOUS
  <2> QED
    BY <2>1, <2>2, RunFound
<1>2. CASE Runs(Frames \ V!Low, count) # {}
  <2> DEFINE high == Frames \ V!Low
             m == Min(Runs(high, count))
  <2>1. alloc_high(count) = m
    BY <1>2 DEF alloc_high, FirstRun
  <2>2. high \in SUBSET Frames /\ Runs(high, count) # {}
    BY <1>2
  <2> HIDE DEF high
  <2>3. m \in high /\ m .. m + count - 1 \subseteq high \cap free
    BY <2>2, RunFound
  <2> HIDE DEF m
  <2> QED
    BY <2>1, <2>2, <2>3
<1> QED
  BY <1>1, <1>2

(* The boot thread moves on.                                               *)
LEMMA GotoFacts ==
    ASSUME TypeOK, NEW pc \in Places, Goto(pc)
    PROVE  /\ boot'.pc = pc /\ boot'.p = boot.p /\ boot'.k = 0 /\ boot'.ok = boot.ok
           /\ boot' \in [pc : Places, p : Procs, k : Nat, ok : BOOLEAN]
<1>1. boot \in [pc : Places, p : Procs, k : Nat, ok : BOOLEAN]
  BY DEF TypeOK
<1>2. boot' = [boot EXCEPT !.pc = pc, !.k = 0]
  BY DEF Goto
<1>3. boot'.pc = pc /\ boot'.p = boot.p /\ boot'.k = 0 /\ boot'.ok = boot.ok
  BY <1>1, <1>2, Zenon
<1>4. 0 \in Nat
  OBVIOUS
<1>5. boot' \in [pc : Places, p : Procs, k : Nat, ok : BOOLEAN]
  BY <1>1, <1>2, <1>4, Zenon
<1> QED
  BY <1>3, <1>5

LEMMA GiveUpFacts ==
    ASSUME TypeOK, GiveUp
    PROVE  /\ boot'.pc = "unmap code" /\ boot'.p = boot.p /\ boot'.k = boot.k
           /\ boot'.ok = FALSE
           /\ boot' \in [pc : Places, p : Procs, k : Nat, ok : BOOLEAN]
<1>1. boot \in [pc : Places, p : Procs, k : Nat, ok : BOOLEAN]
  BY DEF TypeOK
<1>2. boot' = [boot EXCEPT !.pc = "unmap code", !.ok = FALSE]
  BY DEF GiveUp
<1>3. "unmap code" \in Places
  BY DEF Places, Leaving
<1> QED
  BY <1>1, <1>2, <1>3, Zenon

(* Each conjunct holds in the initial state, for any set of free frames.   *)
LEMMA InvInit == Init => Inv
<1> SUFFICES ASSUME Init PROVE Inv
  OBVIOUS
<1>1. /\ boot.pc = "alloc code" /\ boot.p = 1 /\ boot.k = 0 /\ boot.ok = TRUE
      /\ boot = [pc |-> "alloc code", p |-> 1, k |-> 0, ok |-> TRUE]
      /\ made = {} /\ sys = NoCall /\ sys.pc = "idle" /\ sys.dest = <<>>
  BY DEF Init, NoCall
<1>2. /\ dir = [p \in Procs |-> 0] /\ phys = [p \in Procs |-> [kind \in Kinds |-> 0]]
      /\ pde = [d \in Dirs |-> [i \in Tabs |-> Junk]]
      /\ table = [f \in Frames |-> [j \in 0 .. TableSize - 1 |-> Junk]]
      /\ content = [f \in Frames |-> <<"junk", 0>>]
      /\ pte = [v \in V!Pages |-> IF v \in V!Low THEN v ELSE 0]
      /\ tlb = [v \in V!Pages |-> 0]
      /\ held = [c \in Windows |-> [page |-> 0, frame |-> 0]]
      /\ free \in FreeSets
  BY DEF Init, V!Init, V!Nothing, Dirs, Tabs, Windows
<1>3. TypeOK
  <2>1. free \subseteq Frames \ {Junk}
    BY <1>2, SpaceAssumption
  <2>2. content \in [Frames -> {"junk", "code", "data"} \X (0 .. NProcs)]
    BY <1>2, Sizes
  <2>3. pde \in [Dirs -> [Tabs -> FrameOrNone]]
    BY <1>2, Sizes DEF FrameOrNone
  <2>4. table \in [Frames -> [0 .. TableSize - 1 -> FrameOrNone]]
    BY <1>2, Sizes DEF FrameOrNone
  <2>5. dir \in [Procs -> {0} \cup V!Low] /\ phys \in [Procs -> [Kinds -> FrameOrNone]]
    BY <1>2 DEF FrameOrNone
  <2>6. boot \in [pc : Places, p : Procs, k : Nat, ok : BOOLEAN]
    <3>1. "alloc code" \in Places /\ 1 \in Procs /\ 0 \in Nat
      BY Sizes DEF Places, BeforeDir, Procs
    <3> QED
      BY <1>1, <3>1, Zenon
  <2>7. sys \in [pc : {"idle", "copy", "SUCCESS", "EINVAL", "EFAULT"}, p : Procs,
                 src : Nat, len : Nat, dest : Seq(Int \X Int)]
    <3>1. 1 \in Procs /\ 0 \in Nat /\ <<>> \in Seq(Int \X Int)
      BY Sizes DEF Procs
    <3>2. sys = [pc |-> "idle", p |-> 1, src |-> 0, len |-> 0, dest |-> <<>>]
      BY <1>1 DEF NoCall
    <3> QED
      BY <3>1, <3>2, Zenon
  <2>8. /\ pte \in [V!Pages -> FrameOrNone] /\ tlb \in [V!Pages -> FrameOrNone]
        /\ held \in [Windows -> [page : {0} \cup V!Pages, frame : FrameOrNone]]
    BY <1>2, Sizes DEF FrameOrNone
  <2> QED
    BY <1>1, <2>1, <2>2, <2>3, <2>4, <2>5, <2>6, <2>7, <2>8 DEF TypeOK
<1>4. \A p \in Procs : Own(p) = {} /\ dir[p] = 0 /\ \A kind \in Kinds : phys[p][kind] = 0
  BY <1>2 DEF Own, Kinds
<1>5. PhaseOK
  BY <1>1, <1>4 DEF PhaseOK, Ahead, Making, Finished, Leaving, Kinds, BeforeDir, me
<1>6. FramesOK
  BY <1>2, <1>4 DEF FramesOK, Kinds, Private, IsTable
<1>7. TablesOK
  BY <1>1, <1>2, <1>4 DEF TablesOK, Unshared, Private
<1>8. WalkOK
  BY <1>1, <1>4 DEF WalkOK, Private
<1>9. WindowOK
  BY <1>1, <1>2, Sizes DEF WindowOK, HasCodeWindow, HasDataWindow, Windows, Mapping, Leaving, V!Pages
<1>10. FreshOK
  <2>1. Done = {}
    <3>1. boot.pc \notin Finished
      BY <1>1 DEF Finished
    <3>2. me = 1
      BY <1>1, Zenon DEF me
    <3>3. 1 .. 1 - 1 = {}
      OBVIOUS
    <3>4. Done = 1 .. me - 1
      BY <3>1 DEF Done
    <3> QED
      BY <3>2, <3>3, <3>4
  <2>2. boot.pc \notin Leaving /\ boot.pc \notin CodeWritten /\ boot.pc \notin DataWritten
    BY <1>1 DEF Leaving, CodeWritten, DataWritten, Mapping
  <2> QED
    BY <1>2, <2>1, <2>2 DEF FreshOK, V!Pages
<1>11. SysOK
  <2>1. Len(sys.dest) = 0
    BY <1>1
  <2>2. Len(sys.dest) <= BufLen
    BY <2>1, Sizes
  <2>3. sys.pc = "idle"
    BY <1>1
  <2> QED
    BY <2>2, <2>3 DEF SysOK
<1> QED
  BY <1>3, <1>5, <1>6, <1>7, <1>8, <1>9, <1>10, <1>11 DEF Inv
-----------------------------------------------------------------------------
(* A run that alloc_pages found is taken for a process: nobody else has    *)
(* any of it.                                                              *)
LEMMA TakeUser ==
    ASSUME Inv, NEW kind \in Kinds, phys[boot.p][kind] = 0,
           NEW run \in SUBSET (Frames \cap free), NEW f \in run,
           run = IF kind = "stack" THEN f .. f + StackPages - 1 ELSE {f},
           free' = free \ run,
           \A p \in Procs, x \in Kinds :
             phys'[p][x] = IF p = boot.p /\ x = kind THEN f ELSE phys[p][x],
           UNCHANGED <<pde, dir>>
    PROVE  /\ \A p \in Procs : Own(p) \subseteq Own(p)' /\ (p # boot.p => Own(p)' = Own(p))
           /\ FramesOK'
<1> USE Sizes
<1>1. boot.p \in Procs /\ phys \in [Procs -> [Kinds -> FrameOrNone]]
  BY DEF Inv, TypeOK
<1>2. f \in Frames /\ run \subseteq Frames \cap free
  OBVIOUS
<1>3. free' = free \ run
  OBVIOUS
<1>5. \A p \in Procs, x \in Kinds :
        phys'[p][x] = IF p = boot.p /\ x = kind THEN f ELSE phys[p][x]
  OBVIOUS
<1>6. {"code", "data", "stack"} = Kinds
  BY DEF Kinds
<1>7. \A p \in Procs : p # boot.p => Own(p)' = Own(p)
  BY <1>5, <1>6 DEF Own
<1>8. Own(boot.p) \cup run = (({phys'[boot.p]["code"], phys'[boot.p]["data"]} \cup
        (IF phys'[boot.p]["stack"] = 0 THEN {}
         ELSE phys'[boot.p]["stack"] .. phys'[boot.p]["stack"] + StackPages - 1))
        \ {0})
  <2>1. 0 \notin run
    BY <1>2
  <2>2. CASE kind = "code"
    <3>1. run = {f}
      BY <2>2
    <3>2. phys'[boot.p]["code"] = f /\ phys[boot.p]["code"] = 0
          /\ phys'[boot.p]["data"] = phys[boot.p]["data"]
          /\ phys'[boot.p]["stack"] = phys[boot.p]["stack"]
      BY <1>1, <1>5, <1>6, <2>2
    <3> QED
      BY <2>1, <3>1, <3>2 DEF Own
  <2>3. CASE kind = "data"
    <3>1. run = {f}
      BY <2>3
    <3>2. phys'[boot.p]["data"] = f /\ phys[boot.p]["data"] = 0
          /\ phys'[boot.p]["code"] = phys[boot.p]["code"]
          /\ phys'[boot.p]["stack"] = phys[boot.p]["stack"]
      BY <1>1, <1>5, <1>6, <2>3
    <3> QED
      BY <2>1, <3>1, <3>2 DEF Own
  <2>4. CASE kind = "stack"
    <3>1. run = f .. f + StackPages - 1
      BY <2>4
    <3>2. phys'[boot.p]["stack"] = f /\ phys[boot.p]["stack"] = 0
          /\ phys'[boot.p]["code"] = phys[boot.p]["code"]
          /\ phys'[boot.p]["data"] = phys[boot.p]["data"]
      BY <1>1, <1>5, <1>6, <2>4
    <3> QED
      BY <2>1, <3>1, <3>2 DEF Own
  <2> QED
    BY <1>6, <2>2, <2>3, <2>4
<1>9. \A p \in Procs : Own(p)' = IF p = boot.p THEN Own(p) \cup run ELSE Own(p)
  BY <1>7, <1>8 DEF Own
<1>10. FramesOK'
  <2>1. ASSUME NEW p \in Procs PROVE Own(p)' \subseteq Frames \ free'
    <3>1. Own(p) \subseteq Frames \ free
      BY DEF Inv, FramesOK
    <3>2. Own(p)' \subseteq Own(p) \cup run
      BY <1>9
    <3> QED
      BY <1>2, <1>3, <3>1, <3>2
  <2>2. ASSUME NEW p \in Procs, phys'[p]["code"] = phys'[p]["data"]
        PROVE  phys'[p]["code"] = 0
    <3>1. \A x \in {"code", "data"} : phys[p][x] # 0 => phys[p][x] \in Own(p)
      BY DEF Own
    <3>2. f \in free
      OBVIOUS
    <3>3. \A x \in {"code", "data"} : phys[p][x] # f
      BY <1>2, <3>1, <3>2 DEF Inv, FramesOK
    <3> QED
      BY <1>5, <1>6, <2>2, <3>3 DEF Inv, FramesOK
  <2>3. ASSUME NEW p \in Procs, NEW q \in Procs, q # p
        PROVE  Own(p)' \cap Own(q)' = {}
    BY <1>2, <1>9, <2>3 DEF Inv, FramesOK
  <2>4. ASSUME NEW p \in Procs, NEW q \in Procs, Private(q)
        PROVE  {dir[q], dir[q] + 1} \cap Own(p)' = {}
    BY <1>2, <1>9, <2>4 DEF Inv, FramesOK
  <2>5. ASSUME NEW q \in Procs, Private(q)
        PROVE  {dir[q], dir[q] + 1} \subseteq V!Low \ free'
    BY <1>3, <2>5 DEF Inv, FramesOK
  <2>6. ASSUME NEW x \in Frames, IsTable(x)
        PROVE  x \in V!Low \ free' /\ \A p \in Procs : x \notin Own(p)'
    BY <1>2, <1>3, <1>9, <2>6 DEF Inv, FramesOK
  <2>7. /\ \A p \in Procs : Private(p)' <=> Private(p)
        /\ \A x \in Frames : IsTable(x)' <=> IsTable(x)
        /\ dir' = dir
    BY DEF Private, IsTable
  <2>8. ASSUME NEW q \in Procs, Private(q)'
        PROVE  /\ {dir'[q], dir'[q] + 1} \subseteq V!Low \ free'
               /\ \A p \in Procs : {dir'[q], dir'[q] + 1} \cap Own(p)' = {}
    BY <2>4, <2>5, <2>7, <2>8
  <2>9. ASSUME NEW x \in Frames, IsTable(x)'
        PROVE  x \in V!Low \ free' /\ \A p \in Procs : x \notin Own(p)'
    BY <2>6, <2>7, <2>9
  <2> QED
    BY <2>1, <2>2, <2>3, <2>8, <2>9, Zenon DEF FramesOK
<1> QED
  BY <1>9, <1>10

(* proc_map_pages enters a frame for a page: the tables of no other        *)
(* private directory and no other page of this one change.                 *)
LEMMA MapEntry ==
    ASSUME Inv, NEW page \in 0 .. UserPages - 1, NEW frame \in Frames,
           \/ NewTable(dir[boot.p], TabOf(page), EntryOf(page), frame)
           \/ SetPage(dir[boot.p], TabOf(page), EntryOf(page), frame),
           UNCHANGED <<dir, phys>>
    PROVE  /\ free' \subseteq free
           /\ pde' \in [Dirs -> [Tabs -> FrameOrNone]]
           /\ table' \in [Frames -> [0 .. TableSize - 1 -> FrameOrNone]]
           /\ FramesOK'
           /\ Unshared(pde')
           /\ \A p \in Procs : Private(p) => \A i \in Tabs : pde'[dir[p]][i] # Junk
           /\ \A p \in Procs : Private(p) => \A y \in 0 .. UserPages - 1 :
                Walk(p, y)' = IF p = boot.p /\ y = page THEN frame ELSE Walk(p, y)
<1> USE Sizes
<1> DEFINE d0 == dir[boot.p]
           i0 == TabOf(page)
           j0 == EntryOf(page)
           Entries == 0 .. TableSize - 1
<1>1. /\ boot.p \in Procs /\ d0 \in Dirs /\ i0 \in Tabs /\ j0 \in Entries
      /\ pde \in [Dirs -> [Tabs -> FrameOrNone]]
      /\ table \in [Frames -> [Entries -> FrameOrNone]]
      /\ \A p \in Procs : dir[p] \in Dirs
      /\ free \subseteq Frames \ {Junk}
  BY PlaceOfPage DEF Inv, TypeOK, Dirs
<1>2. \A y \in 0 .. UserPages - 1 : TabOf(y) \in Tabs /\ EntryOf(y) \in Entries
  BY PlaceOfPage
<1>3. \A y \in 0 .. UserPages - 1 : y # page => TabOf(y) # i0 \/ EntryOf(y) # j0
  BY PlacesDiffer
<1>4. \A p \in Procs, y \in 0 .. UserPages - 1 :
        Walk(p, y) = IF pde[dir[p]][TabOf(y)] # 0
                     THEN table[pde[dir[p]][TabOf(y)]][EntryOf(y)] ELSE 0
  BY DEF Walk, TabOf, EntryOf
<1>5. \A p \in Procs, y \in 0 .. UserPages - 1 :
        Walk(p, y)' = IF pde'[dir[p]][TabOf(y)] # 0
                      THEN table'[pde'[dir[p]][TabOf(y)]][EntryOf(y)] ELSE 0
  BY DEF Walk, TabOf, EntryOf
<1>6. \A p \in Procs : Own(p)' = Own(p) /\ (Private(p)' <=> Private(p))
  BY DEF Own, Private
<1>7. \A d \in Dirs, i \in Tabs : pde[d][i] \notin {0, Junk} =>
        /\ pde[d][i] \in V!Low \ free
        /\ \A p \in Procs : pde[d][i] \notin Own(p)
  <2> SUFFICES ASSUME NEW d \in Dirs, NEW i \in Tabs, pde[d][i] \notin {0, Junk}
               PROVE  /\ pde[d][i] \in V!Low \ free
                      /\ \A p \in Procs : pde[d][i] \notin Own(p)
    OBVIOUS
  <2>1. pde[d][i] \in Frames
    BY <1>1 DEF FrameOrNone
  <2>2. IsTable(pde[d][i])
    BY DEF IsTable
  <2> QED
    BY <2>1, <2>2 DEF Inv, FramesOK
<1>8. \A d \in Dirs, e \in Dirs, i \in Tabs, j \in Tabs :
        pde[d][i] = pde[e][j] /\ pde[d][i] \notin {0, Junk} => d = e /\ i = j
  BY DEF Inv, TablesOK, Unshared
<1>9. \A p \in Procs : Private(p) =>
        /\ \A q \in Procs : dir[q] = dir[p] => q = p
        /\ \A i \in Tabs : pde[dir[p]][i] # Junk
  BY DEF Inv, TablesOK
<1> HIDE DEF d0, i0, j0, Entries
<1>10. CASE SetPage(dir[boot.p], TabOf(page), EntryOf(page), frame)
  <2>1. /\ pde' = pde /\ free' = free /\ pde[d0][i0] # 0
        /\ table' = [table EXCEPT ![pde[d0][i0]][j0] = frame]
    BY <1>10 DEF SetPage, d0, i0, j0
  <2>2. pde[d0][i0] \in Frames
    BY <1>1, <2>1 DEF FrameOrNone
  <2>3. \A t \in Frames, j \in Entries :
          table'[t][j] = IF t = pde[d0][i0] /\ j = j0 THEN frame ELSE table[t][j]
    BY <1>1, <2>1, <2>2
  <2>4. table' \in [Frames -> [Entries -> FrameOrNone]]
    BY <1>1, <2>1, <2>2 DEF FrameOrNone
  <2>5. ASSUME NEW p \in Procs, Private(p), NEW y \in 0 .. UserPages - 1
        PROVE  Walk(p, y)' = IF p = boot.p /\ y = page THEN frame ELSE Walk(p, y)
    <3> DEFINE t == pde[dir[p]][TabOf(y)]
    <3>1. CASE t = 0
      <4>1. ~ (p = boot.p /\ y = page)
        BY <2>1, <3>1 DEF d0, i0
      <4> QED
        BY <1>4, <1>5, <2>1, <3>1, <4>1
    <3>2. CASE t # 0
      <4>1. t \in Frames /\ EntryOf(y) \in Entries /\ TabOf(y) \in Tabs
        BY <1>1, <1>2, <3>2 DEF FrameOrNone
      <4>2. t = pde[d0][i0] <=> (p = boot.p /\ TabOf(y) = i0)
        <5>1. t # Junk /\ dir[p] \in Dirs
          BY <1>1, <1>9, <2>5, <4>1
        <5>2. t = pde[d0][i0] => dir[p] = d0 /\ TabOf(y) = i0
          BY <1>1, <1>8, <3>2, <4>1, <5>1
        <5>3. dir[p] = d0 => p = boot.p
          BY <1>1, <1>9, <2>5 DEF d0
        <5> QED
          BY <5>2, <5>3 DEF d0
      <4>3. Walk(p, y)' = table'[t][EntryOf(y)] /\ Walk(p, y) = table[t][EntryOf(y)]
        BY <1>4, <1>5, <2>1, <3>2
      <4>4. y = page <=> (TabOf(y) = i0 /\ EntryOf(y) = j0)
        BY <1>3 DEF i0, j0
      <4> QED
        BY <2>3, <4>1, <4>2, <4>3, <4>4
    <3> QED
      BY <3>1, <3>2
  <2>6. FramesOK'
    BY <1>6, <2>1 DEF Inv, FramesOK, IsTable
  <2> QED
    <3>1. Unshared(pde')
      BY <2>1 DEF Inv, TablesOK
    <3> QED
      BY <1>1, <1>9, <2>1, <2>4, <2>5, <2>6, <3>1 DEF Entries
<1>11. CASE NewTable(dir[boot.p], TabOf(page), EntryOf(page), frame)
  <2> DEFINE t0 == alloc_low(1)
  <2>1. /\ pde[d0][i0] = 0 /\ t0 # 0 /\ free' = free \ (t0 .. t0 + 1 - 1)
        /\ pde' = [pde EXCEPT ![d0][i0] = t0]
        /\ table' = [table EXCEPT ![t0] = [Cleared EXCEPT ![j0] = frame]]
    BY <1>11 DEF NewTable, Take, d0, i0, j0
  <2>2. t0 \in V!Low /\ t0 \in free /\ free' = free \ {t0}
    BY <2>1, LowRun
  <2> HIDE DEF t0
  <2>3. t0 # Junk /\ t0 \in Frames /\ t0 \in FrameOrNone
    BY <1>1, <2>2 DEF FrameOrNone
  <2>4. pde' \in [Dirs -> [Tabs -> FrameOrNone]]
    BY <1>1, <2>1, <2>3
  <2>5. \A d \in Dirs, i \in Tabs :
          pde'[d][i] = IF d = d0 /\ i = i0 THEN t0 ELSE pde[d][i]
    BY <1>1, <2>1
  <2>6. [Cleared EXCEPT ![j0] = frame] \in [Entries -> FrameOrNone]
        /\ \A j \in Entries : [Cleared EXCEPT ![j0] = frame][j] = IF j = j0 THEN frame ELSE 0
    BY <1>1 DEF Cleared, Entries, FrameOrNone
  <2>7. table' \in [Frames -> [Entries -> FrameOrNone]]
    BY <1>1, <2>1, <2>3, <2>6
  <2>8. \A t \in Frames, j \in Entries :
          table'[t][j] = IF t = t0 THEN (IF j = j0 THEN frame ELSE 0) ELSE table[t][j]
    BY <1>1, <2>1, <2>3, <2>6
  <2>9. \A d \in Dirs, i \in Tabs : pde[d][i] # t0
    BY <1>7, <2>2, <2>3, <2>1
  <2>10. ASSUME NEW p \in Procs, Private(p), NEW y \in 0 .. UserPages - 1
         PROVE  Walk(p, y)' = IF p = boot.p /\ y = page THEN frame ELSE Walk(p, y)
    <3>1. EntryOf(y) \in Entries /\ TabOf(y) \in Tabs /\ dir[p] \in Dirs
      BY <1>1, <1>2
    <3>2. dir[p] = d0 <=> p = boot.p
      BY <1>1, <1>9, <2>10 DEF d0
    <3>3. CASE dir[p] = d0 /\ TabOf(y) = i0
      <4>1. Walk(p, y) = 0
        BY <1>4, <2>1, <3>3
      <4>2. Walk(p, y)' = table'[t0][EntryOf(y)]
        BY <1>5, <2>1, <2>5, <3>1, <3>3
      <4>3. y = page <=> EntryOf(y) = j0
        BY <1>3, <3>3 DEF j0
      <4> QED
        BY <2>3, <2>8, <3>1, <3>2, <3>3, <4>1, <4>2, <4>3
    <3>4. CASE ~ (dir[p] = d0 /\ TabOf(y) = i0)
      <4>1. pde'[dir[p]][TabOf(y)] = pde[dir[p]][TabOf(y)]
        BY <2>5, <3>1, <3>4
      <4>2. ~ (p = boot.p /\ y = page)
        BY <3>2, <3>4 DEF i0
      <4>3. CASE pde[dir[p]][TabOf(y)] = 0
        BY <1>4, <1>5, <4>1, <4>2, <4>3
      <4>4. CASE pde[dir[p]][TabOf(y)] # 0
        <5>1. pde[dir[p]][TabOf(y)] \in Frames /\ pde[dir[p]][TabOf(y)] # t0
          BY <1>1, <2>9, <3>1, <4>4 DEF FrameOrNone
        <5>2. table'[pde[dir[p]][TabOf(y)]][EntryOf(y)] = table[pde[dir[p]][TabOf(y)]][EntryOf(y)]
          BY <2>8, <3>1, <5>1
        <5> QED
          BY <1>4, <1>5, <4>1, <4>2, <4>4, <5>2
      <4> QED
        BY <4>3, <4>4
    <3> QED
      BY <3>3, <3>4
  <2>11. FramesOK'
    <3>1. \A p \in Procs : t0 \notin Own(p)
      BY <2>2 DEF Inv, FramesOK
    <3>2. \A x \in Frames : IsTable(x)' => x = t0 \/ IsTable(x)
      BY <2>5 DEF IsTable
    <3>3. ASSUME NEW x \in Frames, IsTable(x)'
          PROVE  x \in V!Low \ free' /\ \A p \in Procs : x \notin Own(p)'
      BY <1>6, <2>2, <3>1, <3>2, <3>3 DEF Inv, FramesOK
    <3>4. free' \subseteq free
      BY <2>2
    <3>5. ASSUME NEW p \in Procs
          PROVE  /\ Own(p)' \subseteq Frames \ free'
                 /\ phys'[p]["code"] = phys'[p]["data"] => phys'[p]["code"] = 0
                 /\ Private(p)' =>
                      {dir'[p], dir'[p] + 1} \subseteq V!Low \ free'
      BY <1>6, <3>4 DEF Inv, FramesOK
    <3>6. ASSUME NEW p \in Procs, NEW q \in Procs
          PROVE  /\ q # p => Own(p)' \cap Own(q)' = {}
                 /\ Private(q)' => {dir'[q], dir'[q] + 1} \cap Own(p)' = {}
      BY <1>6 DEF Inv, FramesOK
    <3> QED
      BY <3>3, <3>5, <3>6 DEF FramesOK
  <2>12. ASSUME NEW d \in Dirs, NEW e \in Dirs, NEW i \in Tabs, NEW j \in Tabs,
                pde'[d][i] = pde'[e][j], pde'[d][i] \notin {0, Junk}
         PROVE  d = e /\ i = j
    BY <1>8, <2>5, <2>9, <2>12
  <2>13. ASSUME NEW p \in Procs, Private(p), NEW i \in Tabs
         PROVE  pde'[dir[p]][i] # Junk
    BY <1>1, <1>9, <2>3, <2>5, <2>13
  <2> QED
    <3>1. Unshared(pde')
      BY <2>12 DEF Unshared
    <3> QED
      BY <2>2, <2>4, <2>7, <2>10, <2>11, <2>13, <3>1 DEF Entries
<1> QED
  BY <1>10, <1>11
-----------------------------------------------------------------------------
(* The process that is being made is not among those that were.            *)
LEMMA BootFacts ==
    ASSUME Inv
    PROVE  /\ boot.p \in Procs /\ boot.pc \in Places /\ boot.k \in Nat /\ boot.ok \in BOOLEAN
           /\ boot.pc \notin Leaving => boot.ok = TRUE
           /\ boot.pc \notin Finished => boot.p \notin made /\ boot.p \notin Done
           /\ Done \subseteq Procs
<1>1. /\ boot.p \in Procs /\ boot.pc \in Places /\ boot.k \in Nat /\ boot.ok \in BOOLEAN
  BY DEF Inv, TypeOK
<1>2. boot.pc \notin Leaving => boot.ok = TRUE
  BY <1>1 DEF Inv, PhaseOK
<1>3. boot.p \in 1 .. NProcs /\ NProcs \in Nat
  BY <1>1, Sizes DEF Procs
<1>4. 1 .. boot.p - 1 \subseteq 1 .. NProcs /\ boot.p \notin 1 .. boot.p - 1
  <2>1. ASSUME NEW n \in 1 .. NProcs
        PROVE  1 .. n - 1 \subseteq 1 .. NProcs /\ n \notin 1 .. n - 1
    BY <1>3
  <2> QED
    BY <1>3, <2>1
<1>5. boot.pc \notin Finished => boot.p \notin made
  <2>1. \A p \in Procs : p \in made => p < boot.p \/ boot.pc \in Finished
    BY DEF Inv, PhaseOK, me
  <2>2. ~ (boot.p < boot.p)
    BY <1>3
  <2> QED
    BY <1>1, <2>1, <2>2
<1>6. boot.pc \notin Finished => boot.p \notin Done
  BY <1>4 DEF Done, me
<1>7. Done \subseteq Procs
  BY <1>4 DEF Done, Procs, me
<1> QED
  BY <1>1, <1>2, <1>5, <1>6, <1>7

(* No step of the boot thread falls into a system call.                    *)
LEMMA SysIdle ==
    ASSUME Inv, boot.pc # "running", UNCHANGED sys
    PROVE  SysOK'
<1>1. sys.pc = "idle" /\ Len(sys.dest) <= BufLen
  BY DEF Inv, SysOK
<1> QED
  BY <1>1 DEF SysOK

(* Conjuncts whose variables do not change                                 *)
LEMMA FramesKeep ==
    ASSUME Inv, UNCHANGED <<free, pde, dir, phys>>
    PROVE  FramesOK' /\ \A p \in Procs : Own(p)' = Own(p) /\ (Private(p)' <=> Private(p))
<1>1. \A p \in Procs : Own(p)' = Own(p) /\ (Private(p)' <=> Private(p))
  BY DEF Own, Private
<1>2. \A f \in Frames : IsTable(f)' <=> IsTable(f)
  BY DEF IsTable
<1> QED
  BY <1>1, <1>2 DEF Inv, FramesOK

LEMMA TablesKeep ==
    ASSUME Inv, UNCHANGED <<pde, dir>>, boot'.pc # "alloc stack"
    PROVE  TablesOK'
<1>1. pde' = pde /\ dir' = dir /\ \A p \in Procs : Private(p)' <=> Private(p)
  BY DEF Private
<1>2. Unshared(pde)
  BY DEF Inv, TablesOK
<1>3. Unshared(pde')
  BY <1>1, <1>2
<1>4. \A p \in Procs : Private(p) =>
         /\ \A q \in Procs : dir[q] = dir[p] => q = p
         /\ \A i \in Tabs : pde[dir[p]][i] # Junk
  BY DEF Inv, TablesOK
<1>5. \A p \in Procs : Private(p)' =>
         /\ \A q \in Procs : dir'[q] = dir'[p] => q = p
         /\ \A i \in Tabs : pde'[dir'[p]][i] # Junk
  BY <1>1, <1>4
<1> QED
  BY <1>3, <1>5 DEF TablesOK

LEMMA WalkSame ==
    ASSUME UNCHANGED <<pde, table, dir>>
    PROVE  \A p, page : Walk(p, page)' = Walk(p, page)
BY DEF Walk

(* As the boot thread goes on within the making of a process, what it did  *)
(* for the others stays.                                                   *)
LEMMA MappedKeep ==
    ASSUME Inv, boot'.p = boot.p, made' = made,
           boot.pc \in BeforeDir \cup Leaving, boot'.pc \in BeforeDir \cup Leaving \cup {"hangs"},
           boot.pc \in Leaving => boot.pc = "unmap code" /\ boot'.pc \in Leaving,
           boot.pc \notin Leaving => boot'.ok = FALSE \/ boot'.pc \notin Leaving,
           boot.pc \in Leaving => boot'.ok = boot.ok,
           UNCHANGED <<pde, table, dir>>,
           \A p \in Procs : Private(p) => \A kind \in Kinds : phys'[p][kind] = phys[p][kind]
    PROVE  WalkOK' /\ TablesOK'
<1>1. \A p, page : Walk(p, page)' = Walk(p, page)
  BY WalkSame
<1>2. \A p \in Procs : Private(p)' <=> Private(p)
  BY DEF Private
<1>3. \A p \in Procs : Private(p) => Own(p)' = Own(p)
  BY DEF Own, Kinds
<1>4. /\ boot'.pc \notin {"stack", "code", "data", "alloc stack"}
      /\ boot.pc \notin {"stack", "code", "data", "alloc stack"}
  BY DEF BeforeDir, Leaving
<1>5. \A p \in Procs : Stays(p)' => Stays(p)
  BY DEF Stays, Making, me, BeforeDir, Leaving
<1>6. WalkOK'
  <2> SUFFICES ASSUME NEW p \in Procs, Private(p)
               PROVE  /\ \A page \in 0 .. UserPages - 1 : Walk(p, page)' \in {0} \cup Own(p)'
                      /\ Stays(p)' => StackDone(p, StackPages)' /\ CodeDone(p)' /\ DataDone(p)'
    BY <1>2, <1>4 DEF WalkOK, Making
  <2>1. \A page \in 0 .. UserPages - 1 : Walk(p, page)' \in {0} \cup Own(p)'
    BY <1>1, <1>3 DEF Inv, WalkOK
  <2>2. Stays(p) => StackDone(p, StackPages) /\ CodeDone(p) /\ DataDone(p)
    BY DEF Inv, WalkOK
  <2>3. \A kind \in {"code", "data", "stack"} : phys'[p][kind] = phys[p][kind]
    BY DEF Kinds
  <2>4. StackDone(p, StackPages)' <=> StackDone(p, StackPages)
    BY <1>1, <2>3 DEF StackDone
  <2>5. (CodeDone(p)' <=> CodeDone(p)) /\ (DataDone(p)' <=> DataDone(p))
    BY <1>1, <2>3 DEF CodeDone, DataDone
  <2> QED
    BY <1>5, <2>1, <2>2, <2>4, <2>5
<1>7. TablesOK'
  BY <1>4, TablesKeep
<1> QED
  BY <1>6, <1>7

(* A private process whose pages and frames stay keeps what it has mapped. *)
LEMMA DoneSame ==
    ASSUME Inv, NEW p \in Procs, Private(p), Stays(p)' => Stays(p),
           \A page \in 0 .. UserPages - 1 : Walk(p, page)' = Walk(p, page),
           \A kind \in Kinds : phys'[p][kind] = phys[p][kind],
           Own(p) \subseteq Own(p)'
    PROVE  /\ \A page \in 0 .. UserPages - 1 : Walk(p, page)' \in {0} \cup Own(p)'
           /\ Stays(p)' => StackDone(p, StackPages)' /\ CodeDone(p)' /\ DataDone(p)'
<1>1. \A page \in 0 .. UserPages - 1 : Walk(p, page) \in {0} \cup Own(p)
  BY DEF Inv, WalkOK
<1>2. Stays(p) => StackDone(p, StackPages) /\ CodeDone(p) /\ DataDone(p)
  BY DEF Inv, WalkOK
<1>3. \A kind \in {"code", "data", "stack"} : phys'[p][kind] = phys[p][kind]
  BY DEF Kinds
<1>4. /\ CodePage \in 0 .. UserPages - 1 /\ DataPage \in 0 .. UserPages - 1
      /\ \A j \in 0 .. StackPages - 1 : StackPage + j \in 0 .. UserPages - 1
  BY PagesInHalf
<1>5. StackDone(p, StackPages) => StackDone(p, StackPages)'
  BY <1>3, <1>4 DEF StackDone
<1>6. (CodeDone(p) => CodeDone(p)') /\ (DataDone(p) => DataDone(p)')
  BY <1>3, <1>4 DEF CodeDone, DataDone
<1> QED
  BY <1>1, <1>2, <1>5, <1>6

(* AllocCode and AllocData: a frame for a process without a directory      *)
LEMMA InvAllocPage ==
    ASSUME Inv, AllocCode \/ AllocData
    PROVE  Inv'
<1> USE Sizes
<1>1. /\ TypeOK /\ boot.p \in Procs /\ boot.ok = TRUE /\ dir[boot.p] = 0 /\ boot.p \notin made
      /\ phys[boot.p]["stack"] = 0 /\ phys[boot.p]["data"] = 0
      /\ boot.pc = "alloc code" => phys[boot.p]["code"] = 0
      /\ boot.pc \in {"alloc code", "alloc data"}
      /\ UNCHANGED <<content, pde, table, dir, made, sys, pte, tlb, held>>
  <2>1. /\ boot.pc \in {"alloc code", "alloc data"}
        /\ UNCHANGED <<content, pde, table, dir, made, sys, pte, tlb, held>>
    BY DEF AllocCode, AllocData, AllocUser, At, memory, window
  <2>2. boot.p \in Procs /\ TypeOK /\ boot.pc \notin Leaving \cup Finished /\ boot.pc \in BeforeDir
    BY <2>1, BootFacts DEF Inv, BeforeDir, Leaving, Finished
  <2>3. boot.ok = TRUE /\ boot.p \notin made
    BY <2>2, BootFacts
  <2>4. dir[boot.p] = 0 /\ phys[boot.p]["stack"] = 0
    BY <2>2 DEF Inv, PhaseOK, Ahead, Making, me
  <2>5. /\ phys[boot.p]["data"] = 0
        /\ boot.pc = "alloc code" => phys[boot.p]["code"] = 0
    BY <2>1, <2>2 DEF Inv, PhaseOK, Ahead, Making, me
  <2> QED
    BY <2>1, <2>2, <2>3, <2>4, <2>5
<1>2. \/ UNCHANGED <<free, phys>> /\ Goto("hangs")
      \/ boot.pc = "alloc code" /\ Goto("alloc data") /\ \E f :
           f = alloc_high(1) /\ f # 0 /\ Take(f, 1) /\ phys' = [phys EXCEPT ![me]["code"] = f]
      \/ boot.pc = "alloc data" /\ Goto("map code") /\ \E f :
           f = alloc_high(1) /\ f # 0 /\ Take(f, 1) /\ phys' = [phys EXCEPT ![me]["data"] = f]
  BY DEF AllocCode, AllocData, AllocUser, At
<1>3. PICK kind \in {"code", "data"} :
        /\ phys[boot.p][kind] = 0
        /\ \/ UNCHANGED <<free, phys>> /\ Goto("hangs")
           \/ /\ boot.pc = (IF kind = "code" THEN "alloc code" ELSE "alloc data")
              /\ Goto(IF kind = "code" THEN "alloc data" ELSE "map code")
              /\ \E f : f = alloc_high(1) /\ f # 0 /\ Take(f, 1)
                        /\ phys' = [phys EXCEPT ![me][kind] = f]
  BY <1>1, <1>2
<1>4. /\ boot'.p = boot.p /\ boot'.ok = TRUE
      /\ boot' \in [pc : Places, p : Procs, k : Nat, ok : BOOLEAN]
      /\ \/ boot'.pc = "hangs" /\ UNCHANGED <<free, phys>>
         \/ boot.pc = "alloc code" /\ boot'.pc = "alloc data" /\ kind = "code"
         \/ boot.pc = "alloc data" /\ boot'.pc = "map code" /\ kind = "data"
  <2>1. {"hangs", "alloc data", "map code"} \subseteq Places
    BY DEF Places, BeforeDir
  <2> QED
    BY <1>1, <1>3, <2>1, GotoFacts
<1>5. /\ free' \subseteq free
      /\ phys' \in [Procs -> [Kinds -> FrameOrNone]]
      /\ \A p \in Procs, x \in Kinds :
           phys'[p][x] = phys[p][x] \/ (p = boot.p /\ x = kind)
      /\ \A p \in Procs : Own(p) \subseteq Own(p)' /\ (p # boot.p => Own(p)' = Own(p))
      /\ boot'.pc # "hangs" => phys'[boot.p][kind] # 0 /\ phys'[boot.p][kind] \in free
      /\ FramesOK'
  <2>1. CASE UNCHANGED <<free, phys>> /\ Goto("hangs")
    <3>1. boot'.pc = "hangs"
      BY <1>1, <2>1, GotoFacts DEF Places
    <3> QED
      BY <1>1, <2>1, <3>1, FramesKeep DEF Inv, TypeOK
  <2>2. CASE ~ (UNCHANGED <<free, phys>> /\ Goto("hangs"))
    <3>1. PICK f : f = alloc_high(1) /\ f # 0 /\ Take(f, 1)
                   /\ phys' = [phys EXCEPT ![me][kind] = f]
      BY <1>3, <2>2
    <3>2. kind \in Kinds /\ 1 = IF kind = "stack" THEN StackPages ELSE 1
      BY DEF Kinds
    <3>3. phys[boot.p][kind] = 0 /\ UNCHANGED <<pde, dir>>
      BY <1>1, <1>3
    <3>4. f \in Frames /\ f .. f + 1 - 1 = {f} /\ {f} \subseteq Frames \cap free
      BY <3>1, HighRun
    <3>5. free' = free \ {f}
      BY <3>1, <3>4 DEF Take
    <3>6. phys \in [Procs -> [Kinds -> FrameOrNone]] /\ boot.p \in Procs
      BY DEF Inv, TypeOK
    <3>7. phys' \in [Procs -> [Kinds -> FrameOrNone]]
      BY <3>1, <3>2, <3>4, <3>6 DEF me, FrameOrNone
    <3>8. \A p \in Procs, x \in Kinds :
            phys'[p][x] = IF p = boot.p /\ x = kind THEN f ELSE phys[p][x]
      BY <3>1, <3>2, <3>6 DEF me
    <3>9. /\ \A p \in Procs : Own(p) \subseteq Own(p)' /\ (p # boot.p => Own(p)' = Own(p))
          /\ FramesOK'
      <4> DEFINE run == {f}
      <4>1. run \in SUBSET (Frames \cap free) /\ f \in run /\ free' = free \ run
            /\ run = IF kind = "stack" THEN f .. f + StackPages - 1 ELSE {f}
        BY <3>4, <3>5
      <4> HIDE DEF run
      <4> QED
        BY <3>2, <3>3, <3>8, <4>1, TakeUser
    <3> QED
      BY <3>1, <3>2, <3>4, <3>5, <3>6, <3>7, <3>8, <3>9
  <2> QED
    BY <2>1, <2>2
<1>6. TypeOK'
  BY <1>1, <1>4, <1>5 DEF TypeOK
<1>7. "code" \in Kinds /\ "data" \in Kinds /\ "stack" \in Kinds
  BY DEF Kinds
<1>8. PhaseOK'
  <2>1. \A p \in Procs : Ahead(p, BeforeDir)' => Ahead(p, BeforeDir)
    BY <1>1, <1>4 DEF Ahead, Making, me, BeforeDir
  <2>2. \A p \in Procs : p \in made => p < boot.p
    BY <1>1 DEF Inv, PhaseOK, Finished, me
  <2>3. ASSUME NEW p \in Procs
        PROVE  /\ Ahead(p, {"alloc code"})' => phys'[p]["code"] = 0
               /\ Ahead(p, {"alloc code", "alloc data"})' => phys'[p]["data"] = 0
               /\ Ahead(p, BeforeDir \cup {"alloc stack"})' => phys'[p]["stack"] = 0
    <3>1. /\ Ahead(p, {"alloc code"}) => phys[p]["code"] = 0
          /\ Ahead(p, {"alloc code", "alloc data"}) => phys[p]["data"] = 0
          /\ Ahead(p, BeforeDir \cup {"alloc stack"}) => phys[p]["stack"] = 0
      BY DEF Inv, PhaseOK
    <3>2. CASE p # boot.p
      BY <1>1, <1>4, <1>5, <1>7, <3>1, <3>2 DEF Ahead, Making, me
    <3>3. CASE p = boot.p
      <4>0. boot'.p = p /\ ~ (p > p) /\ boot'.pc # "alloc code"
        <5>1. boot'.p = p
          BY <1>4, <3>3
        <5>2. boot'.pc # "alloc code"
          BY <1>4
        <5>3. ~ (p > p)
          BY p \in Nat
        <5> QED
          BY <5>1, <5>2, <5>3
      <4>1. ~ Ahead(p, {"alloc code"})'
        BY <4>0 DEF Ahead, Making, me
      <4>2. Ahead(p, {"alloc code", "alloc data"})' => phys'[p]["data"] = 0
        <5>1. Ahead(p, {"alloc code", "alloc data"})' => boot'.pc = "alloc data"
          BY <4>0 DEF Ahead, Making, me
        <5>2. boot'.pc = "alloc data" => kind = "code"
          BY <1>4
        <5> QED
          BY <1>1, <1>5, <1>7, <3>3, <5>1, <5>2
      <4>3. phys'[p]["stack"] = 0
        BY <1>1, <1>5, <1>7, <3>3
      <4> QED
        BY <4>1, <4>2, <4>3
    <3> QED
      BY <3>2, <3>3
  <2>4. ASSUME NEW p \in made, NEW x \in Kinds PROVE phys'[p][x] # 0
    <3>1. p \in Procs /\ p # boot.p
      BY <1>1 DEF TypeOK
    <3>2. phys[p][x] # 0
      BY <3>1 DEF Inv, PhaseOK
    <3> QED
      BY <1>5, <3>1, <3>2
  <2>5. boot'.pc \notin {"alloc code", "hangs"} => phys'[boot.p]["code"] # 0
    BY <1>1, <1>4, <1>5, <1>7 DEF Inv, PhaseOK, me
  <2>6. boot'.pc \notin {"alloc code", "alloc data", "hangs"} => phys'[boot.p]["data"] # 0
    BY <1>4, <1>5, <1>7
  <2>7. boot'.pc \notin Finished \cup Leaving \cup {"stack", "code", "data", "running"}
    BY <1>4 DEF Finished, Leaving
  <2>8. ASSUME NEW p \in Procs, Ahead(p, BeforeDir)' PROVE dir'[p] = 0
    BY <1>1, <2>1, <2>8 DEF Inv, PhaseOK
  <2> QED
    BY <1>1, <1>4, <2>2, <2>3, <2>4, <2>5, <2>6, <2>7, <2>8 DEF PhaseOK, me
<1>9. WalkOK' /\ TablesOK'
  <2>1. ASSUME NEW p \in Procs, Private(p), NEW x \in Kinds PROVE phys'[p][x] = phys[p][x]
    BY <1>1, <1>5, <2>1 DEF Private
  <2> QED
    BY <1>1, <1>4, <2>1, MappedKeep DEF BeforeDir, Leaving
<1>10. /\ boot.pc \notin HasCodeWindow \cup HasDataWindow
       /\ boot'.pc \notin HasCodeWindow \cup HasDataWindow
  BY <1>1, <1>4 DEF HasCodeWindow, HasDataWindow, Mapping, Leaving
<1>11. held["code"].page = 0 /\ held["data"].page = 0
  BY <1>1, <1>10 DEF Inv, WindowOK
<1>12. WindowOK'
  <2>1. ASSUME NEW v \in V!Low
        PROVE  /\ pte'[v] \in {0, v} /\ tlb'[v] \in {0, v}
               /\ pte'[v] = v \/ \E p \in Procs : v \in Own(p)'
    BY <1>1, <1>5 DEF Inv, WindowOK
  <2>2. ASSUME boot'.pc # "hangs", NEW c \in Windows, phys'[boot.p][c] \in V!Low
        PROVE  pte'[phys'[boot.p][c]] = phys'[boot.p][c]
    <3>1. CASE c = kind
      <4>1. phys'[boot.p][c] \in free
        BY <1>5, <2>2, <3>1
      <4>2. \A p \in Procs : phys'[boot.p][c] \notin Own(p)
        BY <4>1 DEF Inv, FramesOK
      <4> QED
        BY <1>1, <2>2, <4>2 DEF Inv, WindowOK
    <3>2. CASE c # kind
      <4>1. phys'[boot.p][c] = phys[boot.p][c]
        <5>1. c \in Kinds
          BY DEF Windows, Kinds
        <5> QED
          BY <1>1, <1>5, <3>2, <5>1
      <4>2. boot.pc \notin Leaving \cup Finished \cup {"hangs"}
        BY <1>1 DEF Leaving, Finished
      <4> QED
        BY <1>1, <2>2, <4>1, <4>2 DEF Inv, WindowOK, me
    <3> QED
      BY <3>1, <3>2
  <2>3. held' = held /\ \A c \in Windows : held'[c].page = 0
    BY <1>1, <1>11 DEF Windows
  <2>4. ASSUME NEW v \in V!Slots PROVE pte'[v] = 0
    <3>1. pte[v] # 0 => \E c \in Windows : held[c].page = v
      BY DEF Inv, WindowOK
    <3> QED
      BY <1>1, <2>3, <3>1
  <2> QED
    BY <1>4, <1>10, <1>11, <2>1, <2>2, <2>3, <2>4 DEF WindowOK, me, Windows
<1>13. FreshOK'
  <2>1. /\ boot.pc \notin Finished \cup Leaving \cup CodeWritten \cup DataWritten
        /\ boot'.pc \notin Finished \cup Leaving \cup CodeWritten \cup DataWritten
    BY <1>1, <1>4 DEF Finished, Leaving, CodeWritten, DataWritten, Mapping
  <2>2. Done' = Done /\ Done = 1 .. boot.p - 1
    BY <1>4, <2>1 DEF Done, me
  <2>3. AllSoFar' <=> AllSoFar
    BY <1>1, <2>2 DEF AllSoFar
  <2>4. ASSUME NEW p \in Done PROVE p \in Procs /\ p # boot.p
    BY <2>1, BootFacts
  <2>5. \A p \in Done : phys'[p]["code"] = phys[p]["code"] /\ phys'[p]["data"] = phys[p]["data"]
    BY <1>5, <1>7, <2>4
  <2> QED
    BY <1>1, <1>4, <2>1, <2>2, <2>3, <2>5 DEF Inv, FreshOK
<1>14. SysOK'
  BY <1>1, SysIdle
<1> QED
  BY <1>5, <1>6, <1>8, <1>9, <1>12, <1>13, <1>14 DEF Inv

(* The boot thread goes on in the making of a process.                     *)
LEMMA PhaseKeep ==
    ASSUME Inv, boot'.p = boot.p, UNCHANGED <<dir, phys, made>>,
           boot.pc \notin {"alloc code", "alloc data", "hangs"} \cup Finished,
           boot'.pc \notin {"alloc code", "alloc data"} \cup Finished,
           boot'.pc \in BeforeDir => boot.pc \in BeforeDir,
           boot'.pc = "alloc stack" => boot.pc = "alloc stack",
           boot'.pc \in {"stack", "code", "data"} => boot.pc \in {"stack", "code", "data"},
           boot'.pc \in Leaving /\ boot'.ok =>
             boot.pc \in {"code", "data"} \/ (boot.pc \in Leaving /\ boot.ok),
           ~ boot'.ok => boot'.pc \in Leaving
    PROVE  PhaseOK'
<1> USE DEF me
<1>1. ASSUME NEW p \in Procs
      PROVE  /\ Ahead(p, BeforeDir)' => Ahead(p, BeforeDir)
             /\ Ahead(p, {"alloc code"})' => Ahead(p, {"alloc code"})
             /\ Ahead(p, {"alloc code", "alloc data"})' => Ahead(p, {"alloc code", "alloc data"})
             /\ Ahead(p, BeforeDir \cup {"alloc stack"})' => Ahead(p, BeforeDir \cup {"alloc stack"})
  BY DEF Ahead, Making
<1>2. ASSUME NEW p \in Procs
      PROVE  /\ Ahead(p, BeforeDir) => dir[p] = 0
             /\ p \in made => p < boot.p
             /\ Ahead(p, {"alloc code"}) => phys[p]["code"] = 0
             /\ Ahead(p, {"alloc code", "alloc data"}) => phys[p]["data"] = 0
             /\ Ahead(p, BeforeDir \cup {"alloc stack"}) => phys[p]["stack"] = 0
             /\ p \in made => \A kind \in Kinds : phys[p][kind] # 0
  BY DEF Inv, PhaseOK
<1>3. phys[boot.p]["code"] # 0 /\ phys[boot.p]["data"] # 0
  BY DEF Inv, PhaseOK
<1>4. /\ boot'.pc \in {"stack", "code", "data"} => phys[boot.p]["stack"] # 0
      /\ boot'.pc \in Leaving /\ boot'.ok => phys[boot.p]["stack"] # 0
  BY DEF Inv, PhaseOK
<1>5. boot'.pc \notin Finished /\ boot'.pc # "running"
  BY DEF Finished
<1> QED
  BY <1>1, <1>2, <1>3, <1>4, <1>5 DEF PhaseOK

LEMMA FreshKeep ==
    ASSUME Inv, boot'.p = boot.p, UNCHANGED <<phys, made, content>>,
           boot.pc \notin Finished, boot'.pc \notin Finished,
           boot'.pc \in CodeWritten => boot.pc \in CodeWritten,
           boot'.pc \in DataWritten => boot.pc \in DataWritten,
           AllSoFar /\ boot'.ok => \A v \in V!Slots : tlb'[v] \in {0, pte'[v]},
           boot'.pc \in Leaving /\ boot'.ok => \A v \in V!Slots : tlb'[v] = 0
    PROVE  FreshOK'
<1>1. Done' = Done
  BY DEF Done, me
<1>2. AllSoFar' <=> AllSoFar
  BY <1>1 DEF AllSoFar
<1>3. AllSoFar =>
        /\ \A p \in Done : /\ content[phys[p]["code"]] = <<"code", p>>
                           /\ content[phys[p]["data"]] = <<"data", p>>
        /\ boot.pc \in CodeWritten => content[phys[boot.p]["code"]] = <<"code", boot.p>>
        /\ boot.pc \in DataWritten => content[phys[boot.p]["data"]] = <<"data", boot.p>>
  BY DEF Inv, FreshOK, me
<1> QED
  BY <1>1, <1>2, <1>3 DEF FreshOK, me

(* kmap gives the first free page of the window, or the page of a low      *)
(* frame.                                                                  *)
LEMMA KmapFacts ==
    ASSUME Inv, NEW c \in Windows, V!Kmap(c, phys[boot.p][c]), phys[boot.p][c] # 0,
           boot.pc \notin Leaving \cup Finished \cup {"hangs"}
    PROVE  /\ tlb' = tlb
           /\ \E v \in V!Pages :
                /\ held'[c].page = v /\ held'[c].frame = phys[boot.p][c]
                /\ held' \in [Windows -> [page : {0} \cup V!Pages, frame : FrameOrNone]]
                /\ \A x \in Windows : x # c => held'[x] = held[x]
                /\ v \in V!Low => v = phys[boot.p][c]
                /\ v \in V!Slots => pte[v] = 0
                /\ pte' \in [V!Pages -> FrameOrNone]
                /\ \A w \in V!Pages : pte'[w] = IF w = v THEN phys[boot.p][c] ELSE pte[w]
<1> DEFINE F == phys[boot.p][c]
<1>1. /\ F \in FrameOrNone /\ pte \in [V!Pages -> FrameOrNone]
      /\ held \in [Windows -> [page : {0} \cup V!Pages, frame : FrameOrNone]]
  BY DEF Inv, TypeOK, Windows, Kinds
<1>2. tlb' = tlb
  BY DEF V!Kmap
<1>3. F \in V!Low => pte[F] = F
  BY DEF Inv, WindowOK, me
<1>4. \/ F \in V!Low /\ held' = [held EXCEPT ![c] = [page |-> F, frame |-> F]] /\ pte' = pte
      \/ \E v \in V!Slots : /\ pte[v] = 0 /\ pte' = [pte EXCEPT ![v] = F]
                            /\ held' = [held EXCEPT ![c] = [page |-> v, frame |-> F]]
  BY DEF V!Kmap, V!FirstFree
<1> HIDE DEF F
<1>5. CASE F \in V!Low /\ held' = [held EXCEPT ![c] = [page |-> F, frame |-> F]] /\ pte' = pte
  <2>1. F \in V!Pages /\ F \notin V!Slots
    BY <1>5, Sizes DEF V!Pages
  <2>2. [page |-> F, frame |-> F] \in [page : {0} \cup V!Pages, frame : FrameOrNone]
    BY <1>1, <2>1
  <2>3. /\ held' \in [Windows -> [page : {0} \cup V!Pages, frame : FrameOrNone]]
        /\ held'[c] = [page |-> F, frame |-> F]
        /\ \A x \in Windows : x # c => held'[x] = held[x]
    BY <1>1, <1>5, <2>2
  <2>4. held'[c].page = F /\ held'[c].frame = F
    BY <2>3
  <2>5. /\ pte' \in [V!Pages -> FrameOrNone]
        /\ \A w \in V!Pages : pte'[w] = IF w = F THEN F ELSE pte[w]
    BY <1>1, <1>3, <1>5
  <2> QED
    BY <1>2, <2>1, <2>3, <2>4, <2>5 DEF F
<1>6. ASSUME NEW v \in V!Slots, pte[v] = 0, pte' = [pte EXCEPT ![v] = F],
             held' = [held EXCEPT ![c] = [page |-> v, frame |-> F]]
      PROVE  /\ tlb' = tlb
             /\ \E w \in V!Pages :
                /\ held'[c].page = w /\ held'[c].frame = F
                /\ held' \in [Windows -> [page : {0} \cup V!Pages, frame : FrameOrNone]]
                /\ \A x \in Windows : x # c => held'[x] = held[x]
                /\ w \in V!Low => w = F
                /\ w \in V!Slots => pte[w] = 0
                /\ pte' \in [V!Pages -> FrameOrNone]
                /\ \A u \in V!Pages : pte'[u] = IF u = w THEN F ELSE pte[u]
  <2>1. v \in V!Pages /\ v \notin V!Low
    BY Sizes DEF V!Pages
  <2>2. [page |-> v, frame |-> F] \in [page : {0} \cup V!Pages, frame : FrameOrNone]
    BY <1>1, <2>1
  <2>3. /\ held' \in [Windows -> [page : {0} \cup V!Pages, frame : FrameOrNone]]
        /\ held'[c] = [page |-> v, frame |-> F]
        /\ \A x \in Windows : x # c => held'[x] = held[x]
    BY <1>1, <1>6, <2>2
  <2>4. held'[c].page = v /\ held'[c].frame = F
    BY <2>3
  <2>5. /\ pte' \in [V!Pages -> FrameOrNone]
        /\ \A u \in V!Pages : pte'[u] = IF u = v THEN F ELSE pte[u]
    BY <1>1, <1>6, <2>1
  <2> QED
    BY <1>2, <1>6, <2>1, <2>3, <2>4, <2>5
<1> QED
  BY <1>4, <1>5, <1>6 DEF F

(* MapCodePage and MapDataPage                                             *)
LEMMA InvMapWindow ==
    ASSUME Inv, MapCodePage \/ MapDataPage
    PROVE  Inv'
<1>1. PICK c \in Windows :
        /\ boot.pc = (IF c = "code" THEN "map code" ELSE "map data")
        /\ V!Kmap(c, phys[boot.p][c])
        /\ Goto(IF c = "code" THEN "map data" ELSE "write code")
        /\ UNCHANGED <<free, content, pde, table, dir, phys, made, sys>>
  BY DEF MapCodePage, MapDataPage, MapWindow, At, Windows, me, memory
<1>2. /\ boot.pc \in {"map code", "map data"} /\ boot'.pc \in {"map data", "write code"}
      /\ boot'.p = boot.p /\ boot'.ok = boot.ok
      /\ boot' \in [pc : Places, p : Procs, k : Nat, ok : BOOLEAN]
      /\ boot'.pc = IF c = "code" THEN "map data" ELSE "write code"
  <2>1. {"map data", "write code"} \subseteq Places /\ TypeOK
    BY DEF Places, BeforeDir, Inv
  <2>2. (IF c = "code" THEN "map data" ELSE "write code") \in Places
    BY <2>1
  <2> QED
    BY <1>1, <2>1, <2>2, GotoFacts
<1>3. /\ boot.pc \in BeforeDir /\ boot'.pc \in BeforeDir /\ boot.ok = TRUE
      /\ boot.pc \notin Leaving \cup Finished \cup {"hangs", "alloc code", "alloc data"}
      /\ boot'.pc \notin Leaving \cup Finished
           \cup {"hangs", "alloc code", "alloc data", "alloc stack", "stack", "code", "data"}
      /\ boot'.pc \notin CodeWritten \cup DataWritten
  <2>1. boot.pc \notin Leaving
    BY <1>2 DEF Leaving
  <2> QED
    BY <1>2, <2>1, BootFacts
       DEF BeforeDir, Leaving, Finished, CodeWritten, DataWritten, Mapping
<1>4. phys[boot.p]["code"] # 0 /\ phys[boot.p]["data"] # 0
  BY <1>3 DEF Inv, PhaseOK, me
<1>5. phys[boot.p][c] # 0
  BY <1>4 DEF Windows
<1>6. PICK v \in V!Pages :
        /\ held'[c].page = v /\ held'[c].frame = phys[boot.p][c]
        /\ held' \in [Windows -> [page : {0} \cup V!Pages, frame : FrameOrNone]]
        /\ \A x \in Windows : x # c => held'[x] = held[x]
        /\ v \in V!Low => v = phys[boot.p][c]
        /\ v \in V!Slots => pte[v] = 0
        /\ pte' \in [V!Pages -> FrameOrNone]
        /\ \A w \in V!Pages : pte'[w] = IF w = v THEN phys[boot.p][c] ELSE pte[w]
  BY <1>1, <1>3, <1>5, KmapFacts
<1>7. tlb' = tlb
  BY <1>1, <1>3, <1>5, KmapFacts
<1>8. TypeOK'
  BY <1>1, <1>2, <1>6, <1>7 DEF Inv, TypeOK
<1>9. PhaseOK'
  BY <1>1, <1>2, <1>3, PhaseKeep
<1>10. FramesOK' /\ \A p \in Procs : Own(p)' = Own(p)
  BY <1>1, FramesKeep
<1>11. WalkOK' /\ TablesOK'
  BY <1>1, <1>2, <1>3, MappedKeep
<1>12. WindowOK'
  <2> USE Sizes
  <2>1. v # 0 /\ V!Low \subseteq V!Pages /\ V!Slots \subseteq V!Pages
    BY DEF V!Pages
  <2>2. ASSUME NEW w \in V!Low
        PROVE  /\ pte'[w] \in {0, w} /\ tlb'[w] \in {0, w}
               /\ pte'[w] = w \/ \E p \in Procs : w \in Own(p)'
    <3>1. /\ pte[w] \in {0, w} /\ tlb[w] \in {0, w}
          /\ pte[w] = w \/ \E p \in Procs : w \in Own(p)
      BY DEF Inv, WindowOK
    <3> QED
      BY <1>6, <1>7, <1>10, <2>1, <3>1
  <2>3. ASSUME NEW x \in Windows, phys[boot.p][x] \in V!Low
        PROVE  pte'[phys[boot.p][x]] = phys[boot.p][x]
    <3>1. pte[phys[boot.p][x]] = phys[boot.p][x]
      BY <1>3, <2>3 DEF Inv, WindowOK, me
    <3> QED
      BY <1>6, <2>1, <2>3, <3>1
  <2>4. held["data"].page = 0 /\ (c = "code" => held["code"].page = 0)
    BY <1>1, <1>2 DEF Inv, WindowOK, HasCodeWindow, HasDataWindow, Mapping, Leaving
  <2>5. ASSUME NEW x \in Windows, x # c, held[x].page # 0
        PROVE  /\ c = "data" /\ x = "code"
               /\ held[x].frame = phys[boot.p][x] /\ phys[boot.p][x] # 0
               /\ pte[held[x].page] = held[x].frame
               /\ held[x].page \in V!Low => held[x].page = held[x].frame
               /\ held[x].page \in V!Pages
               /\ held[x].page # v
    <3>1. c = "data" /\ x = "code"
      BY <2>4, <2>5 DEF Windows
    <3>2. /\ held[x].frame = phys[boot.p][x] /\ phys[boot.p][x] # 0
          /\ pte[held[x].page] = held[x].frame
          /\ held[x].page \in V!Low => held[x].page = held[x].frame
      BY <2>5 DEF Inv, WindowOK, me
    <3>3. held[x].page \in V!Pages
      BY <2>5 DEF Inv, TypeOK
    <3>4. phys[boot.p]["code"] # phys[boot.p]["data"]
      BY <1>4, BootFacts DEF Inv, FramesOK
    <3>5. held[x].page # v
      BY <1>6, <3>1, <3>2, <3>3, <3>4 DEF V!Pages
    <3> QED
      BY <3>1, <3>2, <3>3, <3>5
  <2>6. ASSUME NEW x \in Windows, held'[x].page # 0
        PROVE  /\ held'[x].frame = phys[boot.p][x] /\ phys[boot.p][x] # 0
               /\ pte'[held'[x].page] = held'[x].frame
               /\ held'[x].page \in V!Low => held'[x].page = held'[x].frame
    <3>1. CASE x = c
      BY <1>5, <1>6, <3>1
    <3>2. CASE x # c
      <4>1. held'[x] = held[x]
        BY <1>6, <3>2
      <4>2. pte'[held[x].page] = pte[held[x].page]
        BY <1>6, <2>5, <2>6, <3>2, <4>1
      <4> QED
        BY <2>5, <2>6, <3>2, <4>1, <4>2
    <3> QED
      BY <3>1, <3>2
  <2>7. "code" \in Windows /\ "data" \in Windows /\ \A x \in Windows : x = "code" \/ x = "data"
    BY DEF Windows
  <2>8. held'["code"].page = held'["data"].page => held'["code"].page = 0
    <3>1. CASE c = "code"
      BY <1>6, <2>1, <2>4, <2>7, <3>1
    <3>2. CASE c = "data"
      BY <1>6, <2>1, <2>5, <2>7, <3>2
    <3> QED
      BY <2>7, <3>1, <3>2
  <2>9. /\ held'["code"].page # 0 <=> boot'.pc \in HasCodeWindow
        /\ held'["data"].page # 0 <=> boot'.pc \in HasDataWindow
    <3>1. CASE c = "code"
      <4>1. boot'.pc = "map data" /\ held'["code"].page # 0 /\ held'["data"].page = 0
        BY <1>2, <1>6, <2>1, <2>4, <2>7, <3>1
      <4> QED
        BY <4>1 DEF HasCodeWindow, HasDataWindow, Mapping, Leaving
    <3>2. CASE c = "data"
      <4>1. held["code"].page # 0
        BY <1>1, <3>2 DEF Inv, WindowOK, HasCodeWindow
      <4>2. boot'.pc = "write code" /\ held'["code"].page # 0 /\ held'["data"].page # 0
        BY <1>2, <1>6, <2>1, <2>7, <3>2, <4>1
      <4> QED
        BY <4>2 DEF HasCodeWindow, HasDataWindow
    <3> QED
      BY <2>7, <3>1, <3>2
  <2>10. ASSUME NEW w \in V!Slots, pte'[w] # 0 PROVE \E x \in Windows : held'[x].page = w
    <3>1. pte[w] # 0 => \E x \in Windows : held[x].page = w
      BY DEF Inv, WindowOK
    <3>2. CASE w = v
      BY <1>6, <3>2
    <3>3. CASE w # v
      <4>1. PICK x \in Windows : held[x].page = w
        BY <1>6, <2>1, <2>10, <3>1, <3>3
      <4>2. x # c
        BY <1>1, <2>4, <2>7, <4>1
      <4> QED
        BY <1>6, <4>1, <4>2
    <3> QED
      BY <3>2, <3>3
  <2>11. phys' = phys /\ boot'.p = boot.p
    BY <1>1, <1>2
  <2> QED
    BY <2>2, <2>3, <2>6, <2>8, <2>9, <2>10, <2>11 DEF WindowOK, me
<1>13. FreshOK'
  <2>1. ASSUME AllSoFar, NEW w \in V!Slots PROVE tlb'[w] \in {0, pte'[w]}
    <3>1. tlb[w] \in {0, pte[w]} /\ w \in V!Pages
      BY <1>3, <2>1 DEF Inv, FreshOK, V!Pages
    <3> QED
      BY <1>6, <1>7, <3>1
  <2> QED
    BY <1>1, <1>2, <1>3, <2>1, FreshKeep
<1>14. SysOK'
  BY <1>1, <1>2, SysIdle
<1> QED
  BY <1>8, <1>9, <1>10, <1>11, <1>12, <1>13, <1>14 DEF Inv

(* The window stays as it is while the boot thread goes on.                *)
LEMMA WindowKeep ==
    ASSUME Inv, boot'.p = boot.p, UNCHANGED <<pte, held>>,
           boot.pc # "hangs" /\ boot.pc \notin Finished,
           boot.pc \in Leaving => boot'.pc \in Leaving,
           boot'.pc # "hangs" => /\ boot'.pc \in HasCodeWindow <=> boot.pc \in HasCodeWindow
                                 /\ boot'.pc \in HasDataWindow <=> boot.pc \in HasDataWindow,
           \A v \in V!Low : tlb'[v] \in {0, v},
           \A c \in Windows : phys'[boot.p][c] = phys[boot.p][c],
           \A p \in Procs : Own(p) \subseteq Own(p)'
    PROVE  WindowOK'
<1>1. ASSUME NEW v \in V!Low
      PROVE  pte[v] \in {0, v} /\ (pte[v] = v \/ \E p \in Procs : v \in Own(p)')
  BY DEF Inv, WindowOK
<1>2. boot'.pc \notin Leaving \cup Finished \cup {"hangs"} =>
        \A c \in Windows : phys[boot.p][c] \in V!Low => pte[phys[boot.p][c]] = phys[boot.p][c]
  BY DEF Inv, WindowOK, me
<1>3. \A c \in Windows : held[c].page # 0 =>
        /\ held[c].frame = phys[boot.p][c] /\ phys[boot.p][c] # 0
        /\ pte[held[c].page] = held[c].frame
        /\ held[c].page \in V!Low => held[c].page = held[c].frame
  BY DEF Inv, WindowOK, me
<1>4. /\ held["code"].page = held["data"].page => held["code"].page = 0
      /\ held["code"].page # 0 <=> boot.pc \in HasCodeWindow
      /\ held["data"].page # 0 <=> boot.pc \in HasDataWindow
      /\ \A v \in V!Slots : pte[v] # 0 => \E c \in Windows : held[c].page = v
  BY DEF Inv, WindowOK
<1> QED
  BY <1>1, <1>2, <1>3, <1>4 DEF WindowOK, me

(* WriteCode and WriteData: as long as no translation is stale, what is    *)
(* written through the window arrives in the frame of the process.         *)
LEMMA InvWritePage ==
    ASSUME Inv, WriteCode \/ WriteData
    PROVE  Inv'
<1> DEFINE Target(c) == V!Translate(held[c].page)
<1>1. PICK c \in Windows :
        /\ boot.pc = (IF c = "code" THEN "write code" ELSE "write data")
        /\ tlb' = [v \in V!Pages |->
                     IF v \in {held[c].page} THEN V!Translate(v) ELSE tlb[v]]
        /\ content' = [content EXCEPT ![Target(c)] = <<c, boot.p>>]
        /\ Goto(IF c = "code" THEN "write data" ELSE "proc_t")
        /\ UNCHANGED <<free, pde, table, dir, phys, made, sys, pte, held>>
  BY DEF WriteCode, WriteData, WritePage, V!Access, At, Windows, me
<1>2. /\ boot.pc \in {"write code", "write data"} /\ boot'.pc \in {"write data", "proc_t"}
      /\ boot'.p = boot.p /\ boot'.ok = boot.ok
      /\ boot' \in [pc : Places, p : Procs, k : Nat, ok : BOOLEAN]
      /\ boot'.pc = IF c = "code" THEN "write data" ELSE "proc_t"
  <2>1. {"write data", "proc_t"} \subseteq Places /\ TypeOK
    BY DEF Places, BeforeDir, Inv
  <2>2. (IF c = "code" THEN "write data" ELSE "proc_t") \in Places
    BY <2>1
  <2> QED
    BY <1>1, <2>1, <2>2, GotoFacts
<1>3. /\ boot.pc \in BeforeDir /\ boot'.pc \in BeforeDir /\ boot.ok = TRUE
      /\ boot.pc \notin Leaving \cup Finished \cup {"hangs", "alloc code", "alloc data"}
      /\ boot'.pc \notin Leaving \cup Finished
           \cup {"hangs", "alloc code", "alloc data", "alloc stack", "stack", "code", "data"}
      /\ boot.pc \in HasCodeWindow /\ boot'.pc \in HasCodeWindow
      /\ boot.pc \in HasDataWindow /\ boot'.pc \in HasDataWindow
  <2>1. boot.pc \notin Leaving
    BY <1>2 DEF Leaving
  <2> QED
    BY <1>2, <2>1, BootFacts
       DEF BeforeDir, Leaving, Finished, HasCodeWindow, HasDataWindow
<1>4. boot.p \in Procs /\ phys[boot.p]["code"] # phys[boot.p]["data"]
      /\ phys[boot.p]["code"] \in Frames /\ phys[boot.p]["data"] \in Frames
  <2>1. boot.p \in Procs /\ boot.p \in 1 .. NProcs
    BY BootFacts DEF Procs
  <2>2. phys[boot.p]["code"] # 0 /\ phys[boot.p]["data"] # 0
    BY <1>3 DEF Inv, PhaseOK, me
  <2>3. phys[boot.p]["code"] # phys[boot.p]["data"]
    BY <2>1, <2>2 DEF Inv, FramesOK
  <2> QED
    BY <2>1, <2>2, <2>3 DEF Inv, TypeOK, Kinds, FrameOrNone
<1>5. /\ held[c].page # 0 /\ held[c].page \in V!Pages
      /\ pte[held[c].page] = phys[boot.p][c] /\ phys[boot.p][c] # 0
      /\ held[c].page \in V!Low => held[c].page = phys[boot.p][c]
  <2>1. held["code"].page # 0 /\ held["data"].page # 0
    BY <1>3 DEF Inv, WindowOK
  <2>2. held[c].page # 0
    BY <2>1 DEF Windows
  <2>3. held[c].page \in V!Pages
    BY <2>2 DEF Inv, TypeOK
  <2> QED
    BY <2>2, <2>3 DEF Inv, WindowOK, me
<1>6. \A v \in V!Pages : tlb'[v] = IF v = held[c].page THEN Target(c) ELSE tlb[v]
  BY <1>1
<1>7. Target(c) = IF tlb[held[c].page] # 0 THEN tlb[held[c].page] ELSE phys[boot.p][c]
  BY <1>5 DEF V!Translate
<1>8. AllSoFar => Target(c) = phys[boot.p][c]
  <2>1. CASE held[c].page \in V!Low
    BY <1>5, <1>7, <2>1 DEF Inv, WindowOK
  <2>2. CASE held[c].page \in V!Slots
    BY <1>3, <1>5, <1>7, <2>2 DEF Inv, FreshOK
  <2> QED
    BY <1>5, <2>1, <2>2 DEF V!Pages
<1> HIDE DEF Target
<1>9. tlb \in [V!Pages -> FrameOrNone] /\ content \in [Frames -> {"junk", "code", "data"} \X (0 .. NProcs)]
  BY DEF Inv, TypeOK
<1>10. TypeOK'
  <2>1. tlb' \in [V!Pages -> FrameOrNone]
    <3>1. phys[boot.p][c] \in FrameOrNone
      BY <1>4 DEF Windows, FrameOrNone
    <3>2. Target(c) \in FrameOrNone
      BY <1>5, <1>7, <1>9, <3>1
    <3>3. tlb' = [v \in V!Pages |-> tlb'[v]]
      BY <1>1
    <3> QED
      BY <1>6, <1>9, <3>2, <3>3
  <2>2. content' \in [Frames -> {"junk", "code", "data"} \X (0 .. NProcs)]
    <3>1. <<c, boot.p>> \in {"junk", "code", "data"} \X (0 .. NProcs)
      BY <1>4, Sizes DEF Windows, Procs
    <3> QED
      BY <1>1, <1>9, <3>1
  <2> QED
    BY <1>1, <1>2, <2>1, <2>2 DEF Inv, TypeOK
<1>11. PhaseOK'
  BY <1>1, <1>2, <1>3, PhaseKeep
<1>12. FramesOK' /\ \A p \in Procs : Own(p)' = Own(p)
  BY <1>1, FramesKeep
<1>13. WalkOK' /\ TablesOK'
  BY <1>1, <1>2, <1>3, MappedKeep
<1>14. WindowOK'
  <2>1. ASSUME NEW v \in V!Low PROVE tlb'[v] \in {0, v}
    <3>1. tlb[v] \in {0, v} /\ v \in V!Pages
      BY DEF Inv, WindowOK, V!Pages
    <3>2. v = held[c].page => Target(c) \in {0, v}
      BY <1>5, <1>7, <3>1
    <3> QED
      BY <1>6, <3>1, <3>2
  <2> QED
    BY <1>1, <1>2, <1>3, <1>12, <2>1, WindowKeep
<1>15. FreshOK'
  <2>1. Done' = Done /\ Done \subseteq Procs /\ boot.p \notin Done
    BY <1>2, <1>3, BootFacts DEF Done, me
  <2>2. AllSoFar' <=> AllSoFar
    BY <1>1, <2>1 DEF AllSoFar
  <2>3. SUFFICES ASSUME AllSoFar PROVE FreshOK'
    BY <1>2, <1>3, <2>2 DEF FreshOK
  <2>4. ASSUME NEW v \in V!Slots PROVE tlb'[v] \in {0, pte[v]}
    <3>1. tlb[v] \in {0, pte[v]} /\ v \in V!Pages
      BY <1>3, <2>3 DEF Inv, FreshOK, V!Pages
    <3> QED
      BY <1>5, <1>6, <1>8, <2>3, <3>1
  <2>5. /\ \A p \in Done : /\ content[phys[p]["code"]] = <<"code", p>>
                           /\ content[phys[p]["data"]] = <<"data", p>>
        /\ boot.pc \in CodeWritten => content[phys[boot.p]["code"]] = <<"code", boot.p>>
    BY <2>3 DEF Inv, FreshOK, me
  <2>6. ASSUME NEW p \in Done
        PROVE  /\ content'[phys[p]["code"]] = <<"code", p>>
               /\ content'[phys[p]["data"]] = <<"data", p>>
    <3>1. \A x \in Windows : phys[boot.p][x] \in Own(boot.p)
      BY <1>4, Sizes DEF Own, Windows
    <3>2. p \in made /\ p \in Procs /\ p # boot.p
      BY <2>1, <2>3 DEF AllSoFar
    <3>3. phys[p]["code"] # 0 /\ phys[p]["data"] # 0
      BY <3>2 DEF Inv, PhaseOK, Kinds
    <3>4. phys[p]["code"] \in Own(p) /\ phys[p]["data"] \in Own(p)
      BY <3>3 DEF Own
    <3>5. phys[p]["code"] # phys[boot.p][c] /\ phys[p]["data"] # phys[boot.p][c]
      BY <1>4, <3>1, <3>2, <3>4 DEF Inv, FramesOK
    <3>6. phys[p]["code"] \in Frames /\ phys[p]["data"] \in Frames
      BY <3>2, <3>4 DEF Inv, FramesOK
    <3> QED
      BY <1>1, <1>8, <1>9, <2>3, <2>5, <3>5, <3>6
  <2>7. boot'.pc \in CodeWritten => content'[phys[boot.p]["code"]] = <<"code", boot.p>>
    <3>1. CASE c = "code"
      BY <1>1, <1>4, <1>8, <1>9, <2>3, <3>1
    <3>2. CASE c = "data"
      <4>1. content[phys[boot.p]["code"]] = <<"code", boot.p>>
        BY <1>1, <2>5, <3>2 DEF CodeWritten
      <4> QED
        BY <1>1, <1>4, <1>8, <1>9, <2>3, <3>2, <4>1
    <3> QED
      BY <3>1, <3>2 DEF Windows
  <2>8. boot'.pc \in DataWritten => content'[phys[boot.p]["data"]] = <<"data", boot.p>>
    <3>1. boot'.pc \in DataWritten => c = "data"
      BY <1>2 DEF DataWritten, Windows, Mapping, Leaving
    <3> QED
      BY <1>1, <1>4, <1>8, <1>9, <2>3, <3>1
  <2> QED
    BY <1>1, <1>2, <1>3, <2>1, <2>2, <2>4, <2>6, <2>7, <2>8 DEF FreshOK, me
<1>16. SysOK'
  BY <1>1, <1>2, SysIdle
<1> QED
  BY <1>10, <1>11, <1>12, <1>13, <1>14, <1>15, <1>16 DEF Inv

(* AllocProc                                                               *)
LEMMA InvAllocProc ==
    ASSUME Inv, AllocProc
    PROVE  Inv'
<1>1. /\ boot.pc = "proc_t" /\ (Goto("dir") \/ GiveUp)
      /\ UNCHANGED <<free, content, pde, table, dir, phys, made, sys, pte, tlb, held>>
  BY DEF AllocProc, At, memory, window
<1>2. /\ boot'.p = boot.p /\ boot' \in [pc : Places, p : Procs, k : Nat, ok : BOOLEAN]
      /\ \/ boot'.pc = "dir" /\ boot'.ok = boot.ok
         \/ boot'.pc = "unmap code" /\ boot'.ok = FALSE
  <2>1. TypeOK /\ "dir" \in Places
    BY DEF Places, BeforeDir, Inv
  <2> QED
    BY <1>1, <2>1, GotoFacts, GiveUpFacts
<1>3. /\ boot.pc \in BeforeDir /\ boot.ok = TRUE
      /\ boot.pc \notin Leaving \cup Finished \cup {"hangs", "alloc code", "alloc data"}
      /\ boot'.pc \notin Finished
           \cup {"hangs", "alloc code", "alloc data", "alloc stack", "stack", "code", "data"}
      /\ boot'.pc \in BeforeDir \/ (boot'.pc \in Leaving /\ boot'.ok = FALSE)
      /\ boot.pc \in HasCodeWindow /\ boot'.pc \in HasCodeWindow
      /\ boot.pc \in HasDataWindow /\ boot'.pc \in HasDataWindow
      /\ boot.pc \in CodeWritten /\ boot.pc \in DataWritten
  <2>1. boot.pc \notin Leaving
    BY <1>1 DEF Leaving
  <2> QED
    BY <1>1, <1>2, <2>1, BootFacts
       DEF BeforeDir, Leaving, Finished, HasCodeWindow, HasDataWindow, CodeWritten, DataWritten
<1>4. (~ boot'.ok => boot'.pc \in Leaving) /\ ~ (boot'.pc \in Leaving /\ boot'.ok)
  BY <1>2, <1>3 DEF Leaving
<1>5. TypeOK'
  BY <1>1, <1>2 DEF Inv, TypeOK
<1>6. PhaseOK'
  BY <1>1, <1>2, <1>3, <1>4, PhaseKeep
<1>7. FramesOK' /\ \A p \in Procs : Own(p)' = Own(p)
  BY <1>1, FramesKeep
<1>8. WalkOK' /\ TablesOK'
  BY <1>1, <1>2, <1>3, MappedKeep DEF BeforeDir, Leaving
<1>9. WindowOK'
  <2>1. \A v \in V!Low : tlb'[v] \in {0, v}
    BY <1>1 DEF Inv, WindowOK
  <2> QED
    BY <1>1, <1>2, <1>3, <1>7, <2>1, WindowKeep
<1>10. FreshOK'
  <2>1. AllSoFar => \A v \in V!Slots : tlb'[v] \in {0, pte'[v]}
    BY <1>1, <1>3 DEF Inv, FreshOK
  <2> QED
    BY <1>1, <1>2, <1>3, <1>4, <2>1, FreshKeep
<1>11. SysOK'
  BY <1>1, SysIdle
<1> QED
  BY <1>5, <1>6, <1>7, <1>8, <1>9, <1>10, <1>11 DEF Inv

(* AllocDir: the new directory is empty, and nobody else's, or it is the   *)
(* one at frame 0.                                                         *)
LEMMA InvAllocDir ==
    ASSUME Inv, AllocDir
    PROVE  Inv'
<1> DEFINE d0 == alloc_low(2)
<1>1. /\ boot.pc = "dir" /\ Goto("alloc stack")
      /\ dir' = [dir EXCEPT ![boot.p] = d0]
      /\ free' = IF d0 = 0 THEN free ELSE free \ (d0 .. d0 + 2 - 1)
      /\ pde' = [pde EXCEPT ![d0] = [i \in DOMAIN pde[d0] |-> 0]]
      /\ UNCHANGED <<content, table, phys, made, sys, pte, tlb, held>>
  BY DEF AllocDir, At, Take, window, me
<1>2. /\ boot'.p = boot.p /\ boot' \in [pc : Places, p : Procs, k : Nat, ok : BOOLEAN]
      /\ boot'.pc = "alloc stack" /\ boot'.ok = boot.ok
  <2>1. TypeOK /\ "alloc stack" \in Places
    BY DEF Places, Mapping, Inv
  <2> QED
    BY <1>1, <2>1, GotoFacts
<1>3. d0 # 0 => d0 \in V!Low /\ {d0, d0 + 1} \subseteq V!Low \cap free
  <2>1. SUFFICES ASSUME d0 # 0 PROVE d0 \in V!Low /\ {d0, d0 + 1} \subseteq V!Low \cap free
    OBVIOUS
  <2>2. d0 \in V!Low /\ d0 .. d0 + 2 - 1 \subseteq V!Low \cap free
    BY <2>1, LowRun
  <2>3. d0 \in Nat
    BY <2>2, Sizes
  <2> QED
    BY <2>2, <2>3
<1>4. free' = IF d0 = 0 THEN free ELSE free \ {d0, d0 + 1}
  <2>1. \A n \in Nat : n .. n + 2 - 1 = {n, n + 1}
    OBVIOUS
  <2>2. d0 # 0 => d0 \in Nat
    BY <1>3, Sizes
  <2>3. d0 # 0 => d0 .. d0 + 2 - 1 = {d0, d0 + 1}
    BY <2>1, <2>2
  <2> QED
    BY <1>1, <2>3
<1> HIDE DEF d0
<1>5. /\ boot.p \in Procs /\ dir \in [Procs -> {0} \cup V!Low]
      /\ pde \in [Dirs -> [Tabs -> FrameOrNone]] /\ d0 \in Dirs
      /\ \A p \in Procs : dir[p] \in Dirs
  BY <1>3, Sizes, BootFacts DEF Inv, TypeOK, Dirs
<1>6. /\ boot.ok = TRUE /\ boot.pc \in BeforeDir /\ dir[boot.p] = 0 /\ phys[boot.p]["stack"] = 0
      /\ boot.p \notin made
      /\ boot.pc \notin Leaving \cup Finished \cup {"hangs", "alloc code", "alloc data"}
      /\ boot'.pc \notin Leaving \cup Finished \cup BeforeDir
           \cup {"hangs", "alloc code", "alloc data", "stack", "code", "data"}
      /\ boot.pc \in HasCodeWindow /\ boot'.pc \in HasCodeWindow
      /\ boot.pc \in HasDataWindow /\ boot'.pc \in HasDataWindow
      /\ boot.pc \in CodeWritten /\ boot.pc \in DataWritten
  <2>1. boot.pc \in BeforeDir /\ boot.pc \notin Leaving \cup Finished
    BY <1>1 DEF BeforeDir, Leaving, Finished
  <2>2. dir[boot.p] = 0 /\ phys[boot.p]["stack"] = 0
    BY <1>5, <2>1 DEF Inv, PhaseOK, Ahead, Making, me
  <2> QED
    BY <1>1, <1>2, <2>1, <2>2, BootFacts
       DEF BeforeDir, Leaving, Finished, HasCodeWindow, HasDataWindow, CodeWritten, DataWritten,
           Mapping
<1>7. /\ pde' \in [Dirs -> [Tabs -> FrameOrNone]]
      /\ \A d \in Dirs, i \in Tabs : pde'[d][i] = IF d = d0 THEN 0 ELSE pde[d][i]
  <2>1. [i \in DOMAIN pde[d0] |-> 0] = [i \in Tabs |-> 0]
    BY <1>5
  <2>2. pde' = [pde EXCEPT ![d0] = [i \in Tabs |-> 0]]
    BY <1>1, <2>1
  <2> QED
    BY <1>5, <2>2 DEF FrameOrNone
<1>8. /\ dir' \in [Procs -> {0} \cup V!Low]
      /\ \A p \in Procs : dir'[p] = IF p = boot.p THEN d0 ELSE dir[p]
  BY <1>1, <1>3, <1>5
<1>9. TypeOK'
  <2>1. free' \subseteq Frames \ {Junk}
    BY <1>4 DEF Inv, TypeOK
  <2> QED
    BY <1>1, <1>2, <1>7, <1>8, <2>1 DEF Inv, TypeOK
<1>10. \A p \in Procs : Own(p)' = Own(p)
  BY <1>1 DEF Own
<1>11. ASSUME NEW p \in Procs, dir'[p] # 0
       PROVE  IF p = boot.p THEN d0 # 0 ELSE Private(p) /\ dir[p] # d0
  <2>1. p # boot.p => Private(p)
    BY <1>8, <1>11 DEF Private
  <2>2. Private(p) => dir[p] \notin free
    BY DEF Inv, FramesOK
  <2> QED
    BY <1>3, <1>8, <1>11, <2>1, <2>2 DEF Private
<1>12. \A p \in Procs : Private(p)' <=> dir'[p] # 0
  BY DEF Private
<1>13. PhaseOK'
  <2> USE DEF me
  <2>1. ASSUME NEW p \in Procs
        PROVE  /\ Ahead(p, BeforeDir)' => p > boot.p
               /\ Ahead(p, {"alloc code"})' => p > boot.p
               /\ Ahead(p, {"alloc code", "alloc data"})' => p > boot.p
               /\ Ahead(p, BeforeDir \cup {"alloc stack"})' => p > boot.p \/ p = boot.p
               /\ p > boot.p => p # boot.p
    <3>1. p \in Nat /\ boot.p \in Nat /\ (p > boot.p => p # boot.p)
      <4>1. p \in Nat /\ boot.p \in Nat
        BY <1>5, Sizes
      <4>2. \A a, b \in Nat : a > b => a # b
        OBVIOUS
      <4> QED
        BY <4>1, <4>2
    <3>2. Making(p, BeforeDir)' = FALSE /\ Making(p, {"alloc code"})' = FALSE
          /\ Making(p, {"alloc code", "alloc data"})' = FALSE
      BY <1>6 DEF Making
    <3> QED
      BY <1>2, <3>1, <3>2 DEF Ahead, Making
  <2>2. ASSUME NEW p \in Procs
        PROVE  /\ p > boot.p => dir[p] = 0 /\ phys[p]["code"] = 0 /\ phys[p]["data"] = 0
                                /\ phys[p]["stack"] = 0
               /\ p \in made => p < boot.p
               /\ p \in made => \A kind \in Kinds : phys[p][kind] # 0
    BY <1>6 DEF Inv, PhaseOK, Ahead
  <2>3. phys[boot.p]["code"] # 0 /\ phys[boot.p]["data"] # 0
    BY <1>6 DEF Inv, PhaseOK
  <2>4. boot'.pc \notin Finished \cup Leaving \cup {"running", "stack", "code", "data"}
    BY <1>6 DEF Finished
  <2>5. \A p \in Procs : Ahead(p, BeforeDir)' => dir'[p] = 0
    BY <1>8, <2>1, <2>2
  <2>6. \A p \in Procs : Ahead(p, BeforeDir \cup {"alloc stack"})' => phys[p]["stack"] = 0
    BY <1>6, <2>1, <2>2
  <2>7. phys' = phys /\ made' = made /\ boot'.p = boot.p /\ boot'.ok = TRUE
    BY <1>1, <1>2, <1>6
  <2> QED
    BY <2>1, <2>2, <2>3, <2>4, <2>5, <2>6, <2>7 DEF PhaseOK
<1>14. FramesOK'
  <2>1. ASSUME NEW p \in Procs
        PROVE  /\ Own(p)' \subseteq Frames \ free'
               /\ phys'[p]["code"] = phys'[p]["data"] => phys'[p]["code"] = 0
               /\ \A q \in Procs : q # p => Own(p)' \cap Own(q)' = {}
    BY <1>1, <1>4, <1>10 DEF Inv, FramesOK
  <2>2. ASSUME NEW q \in Procs, Private(q)'
        PROVE  /\ {dir'[q], dir'[q] + 1} \subseteq V!Low \ free'
               /\ \A p \in Procs : {dir'[q], dir'[q] + 1} \cap Own(p)' = {}
    <3>1. CASE q = boot.p
      <4>1. d0 # 0 /\ dir'[q] = d0
        BY <1>8, <1>11, <1>12, <2>2, <3>1
      <4>2. \A p \in Procs : d0 \notin Own(p) /\ d0 + 1 \notin Own(p)
        BY <1>3, <4>1 DEF Inv, FramesOK
      <4> QED
        BY <1>3, <1>4, <1>10, <4>1, <4>2
    <3>2. CASE q # boot.p
      <4>1. Private(q) /\ dir'[q] = dir[q]
        BY <1>8, <1>11, <1>12, <2>2, <3>2
      <4> QED
        BY <1>4, <1>10, <4>1 DEF Inv, FramesOK
    <3> QED
      BY <3>1, <3>2
  <2>3. ASSUME NEW f \in Frames, IsTable(f)'
        PROVE  f \in V!Low \ free' /\ \A p \in Procs : f \notin Own(p)'
    <3>1. IsTable(f)
      BY <1>7, <2>3 DEF IsTable
    <3> QED
      BY <1>4, <1>10, <3>1 DEF Inv, FramesOK
  <2> QED
    BY <2>1, <2>2, <2>3, Zenon DEF FramesOK
<1>15. TablesOK'
  <2>1. Unshared(pde')
    <3>1. ASSUME NEW d \in Dirs, NEW e \in Dirs, NEW i \in Tabs, NEW j \in Tabs,
                 pde'[d][i] = pde'[e][j], pde'[d][i] \notin {0, Junk}
          PROVE  d = e /\ i = j
      <4>1. pde'[d][i] = pde[d][i] /\ pde'[e][j] = pde[e][j]
        BY <1>7, <3>1
      <4>2. pde[d][i] = pde[e][j] /\ pde[d][i] \notin {0, Junk}
        BY <3>1, <4>1
      <4>3. Unshared(pde)
        BY DEF Inv, TablesOK
      <4> QED
        BY <4>2, <4>3 DEF Unshared
    <3> QED
      BY <3>1 DEF Unshared
  <2>2. ASSUME NEW p \in Procs, Private(p)'
        PROVE  /\ \A q \in Procs : dir'[q] = dir'[p] => q = p
               /\ \A i \in Tabs : pde'[dir'[p]][i] # Junk
    <3>1. dir'[p] # 0
      BY <1>12, <2>2
    <3>2. CASE p = boot.p
      <4>1. dir'[p] = d0
        BY <1>8, <3>2
      <4>2. ASSUME NEW q \in Procs, dir'[q] = dir'[p] PROVE q = p
        BY <1>8, <1>11, <3>1, <3>2, <4>1, <4>2
      <4>3. \A i \in Tabs : pde'[d0][i] = 0
        BY <1>5, <1>7
      <4> QED
        BY <4>1, <4>2, <4>3 DEF Junk
    <3>3. CASE p # boot.p
      <4>1. Private(p) /\ dir'[p] = dir[p] /\ dir[p] # d0
        BY <1>8, <1>11, <3>1, <3>3
      <4>2. /\ \A q \in Procs : dir[q] = dir[p] => q = p
            /\ \A i \in Tabs : pde[dir[p]][i] # Junk
        BY <4>1 DEF Inv, TablesOK
      <4>3. \A i \in Tabs : pde'[dir[p]][i] = pde[dir[p]][i]
        BY <1>5, <1>7, <4>1
      <4> QED
        BY <1>8, <4>1, <4>2, <4>3
    <3> QED
      BY <3>2, <3>3
  <2>3. \A i \in Tabs : pde'[dir'[boot'.p]][i] = 0
    BY <1>2, <1>5, <1>7, <1>8
  <2> QED
    BY <2>1, <2>2, <2>3 DEF TablesOK, me
<1>16. WalkOK'
  <2>1. boot'.pc \notin {"stack", "code", "data"}
    BY <1>6
  <2>2. ASSUME NEW p \in Procs, Private(p)'
        PROVE  /\ \A page \in 0 .. UserPages - 1 : Walk(p, page)' \in {0} \cup Own(p)'
               /\ Stays(p)' => StackDone(p, StackPages)' /\ CodeDone(p)' /\ DataDone(p)'
    <3>1. dir'[p] # 0
      BY <1>12, <2>2
    <3>2. CASE p = boot.p
      <4>1. ASSUME NEW page \in 0 .. UserPages - 1 PROVE Walk(p, page)' = 0
        <5>1. dir'[p] = d0 /\ TabOf(page) \in Tabs
          BY <1>8, <3>2, PlaceOfPage
        <5>2. pde'[d0][page \div TableSize] = 0
          BY <1>5, <1>7, <5>1 DEF TabOf
        <5> QED
          BY <5>1, <5>2 DEF Walk
      <4>2. ~ Stays(p)'
        BY <1>1, <1>6, <3>2 DEF Stays, Making
      <4> QED
        BY <4>1, <4>2
    <3>3. CASE p # boot.p
      <4>1. Private(p) /\ dir'[p] = dir[p] /\ dir[p] # d0
        BY <1>8, <1>11, <3>1, <3>3
      <4>2. \A page \in 0 .. UserPages - 1 : Walk(p, page)' = Walk(p, page)
        <5> SUFFICES ASSUME NEW page \in 0 .. UserPages - 1
                     PROVE  Walk(p, page)' = Walk(p, page)
          OBVIOUS
        <5>1. page \div TableSize \in Tabs
          BY PlaceOfPage DEF TabOf
        <5>2. pde'[dir[p]][page \div TableSize] = pde[dir[p]][page \div TableSize]
          BY <1>5, <1>7, <4>1, <5>1
        <5>3. dir'[p] = dir[p] /\ table' = table
          BY <1>1, <4>1
        <5> DEFINE t == pde[dir[p]][page \div TableSize]
        <5>4. Walk(p, page) = IF page < UserPages /\ t # 0 THEN table[t][page % TableSize] ELSE 0
          BY DEF Walk
        <5>5. Walk(p, page)' = IF page < UserPages /\ t # 0 THEN table[t][page % TableSize] ELSE 0
          BY <5>2, <5>3 DEF Walk
        <5> QED
          BY <5>4, <5>5
      <4>3. Stays(p)' => Stays(p)
        BY <1>1, <1>2, <3>3 DEF Stays, Making, me
      <4> QED
        BY <1>1, <1>10, <4>1, <4>2, <4>3, DoneSame
    <3> QED
      BY <3>2, <3>3
  <2> QED
    BY <2>1, <2>2 DEF WalkOK, Making
<1>17. WindowOK'
  <2>1. \A v \in V!Low : tlb'[v] \in {0, v}
    BY <1>1 DEF Inv, WindowOK
  <2> QED
    BY <1>1, <1>2, <1>6, <1>10, <2>1, WindowKeep
<1>18. FreshOK'
  <2>1. AllSoFar => \A v \in V!Slots : tlb'[v] \in {0, pte'[v]}
    BY <1>1, <1>6 DEF Inv, FreshOK
  <2> QED
    BY <1>1, <1>2, <1>6, <2>1, FreshKeep
<1>19. SysOK'
  BY <1>1, SysIdle
<1> QED
  BY <1>9, <1>13, <1>14, <1>15, <1>16, <1>17, <1>18, <1>19 DEF Inv

(* AllocStack: the directory is still empty.                               *)
LEMMA InvAllocStack ==
    ASSUME Inv, AllocStack
    PROVE  Inv'
<1> DEFINE f == alloc_high(StackPages)
           run == f .. f + StackPages - 1
<1>1. /\ boot.pc = "alloc stack"
      /\ \/ /\ f # 0 /\ free' = free \ run /\ phys' = [phys EXCEPT ![boot.p]["stack"] = f]
            /\ Goto("stack")
         \/ f = 0 /\ Goto("hangs") /\ UNCHANGED <<free, phys>>
      /\ UNCHANGED <<content, pde, table, dir, made, sys, pte, tlb, held>>
  BY DEF AllocStack, AllocUser, At, Take, memory, window, me
<1>2. /\ boot'.p = boot.p /\ boot' \in [pc : Places, p : Procs, k : Nat, ok : BOOLEAN]
      /\ boot'.ok = boot.ok /\ boot'.k = 0
      /\ boot'.pc = IF f # 0 THEN "stack" ELSE "hangs"
  <2>1. TypeOK /\ "stack" \in Places /\ "hangs" \in Places
    BY DEF Places, Mapping, Inv
  <2> QED
    BY <1>1, <2>1, GotoFacts
<1>3. f # 0 => f \in Frames /\ run \subseteq Frames \cap free /\ f \in run
  <2>1. f # 0 => f \in Frames /\ run \subseteq Frames \cap free
    BY HighRun, Sizes
  <2>2. f \in Frames => f \in run
    <3>1. \A a \in Nat, n \in Nat \ {0} : a \in a .. a + n - 1
      OBVIOUS
    <3>2. StackPages \in Nat \ {0} /\ (f \in Frames => f \in Nat)
      BY Sizes
    <3> HIDE DEF f
    <3> QED
      BY <3>1, <3>2
  <2> QED
    BY <2>1, <2>2
<1> HIDE DEF f
<1>4. /\ boot.ok = TRUE /\ boot.p \in Procs /\ boot.p \notin made /\ boot.p \notin Done
      /\ phys[boot.p]["stack"] = 0
      /\ boot.pc \notin Leaving \cup Finished \cup {"hangs", "alloc code", "alloc data"}
      /\ boot'.pc \notin Leaving \cup Finished \cup BeforeDir \cup {"alloc stack", "code", "data"}
      /\ boot.pc \in HasCodeWindow /\ boot.pc \in HasDataWindow
      /\ boot'.pc # "hangs" => boot'.pc \in HasCodeWindow /\ boot'.pc \in HasDataWindow
      /\ boot.pc \in CodeWritten /\ boot.pc \in DataWritten
  <2>1. boot.pc \notin Leaving \cup Finished /\ boot.p \in Procs
    BY <1>1, BootFacts DEF Leaving, Finished
  <2>2. phys[boot.p]["stack"] = 0
    BY <1>1, <2>1 DEF Inv, PhaseOK, Ahead, Making, me
  <2> QED
    BY <1>1, <1>2, <2>1, <2>2, BootFacts
       DEF BeforeDir, Leaving, Finished, HasCodeWindow, HasDataWindow, CodeWritten, DataWritten,
           Mapping
<1>5. /\ "stack" \in Kinds /\ "code" \in Kinds /\ "data" \in Kinds
      /\ phys \in [Procs -> [Kinds -> FrameOrNone]]
  BY DEF Kinds, Inv, TypeOK
<1>6. /\ free' \subseteq free
      /\ phys' \in [Procs -> [Kinds -> FrameOrNone]]
      /\ \A p \in Procs, x \in Kinds :
           phys'[p][x] = IF p = boot.p /\ x = "stack" THEN f ELSE phys[p][x]
  <2>1. CASE f # 0
    <3>1. phys' = [phys EXCEPT ![boot.p]["stack"] = f] /\ f \in FrameOrNone
      BY <1>1, <1>3, <2>1 DEF FrameOrNone
    <3> QED
      BY <1>1, <1>4, <1>5, <2>1, <3>1
  <2>2. CASE f = 0
    <3>1. phys' = phys /\ free' = free
      BY <1>1, <2>2
    <3> QED
      BY <1>4, <1>5, <2>2, <3>1
  <2> QED
    BY <2>1, <2>2
<1>7. FramesOK' /\ \A p \in Procs : Own(p) \subseteq Own(p)'
  <2>1. CASE f # 0
    <3> HIDE DEF run
    <3>1. /\ run \in SUBSET (Frames \cap free) /\ f \in run /\ free' = free \ run
          /\ UNCHANGED <<pde, dir>> /\ phys[boot.p]["stack"] = 0
      BY <1>1, <1>3, <1>4, <2>1
    <3>2. PICK kind \in Kinds : kind = "stack"
      BY <1>5
    <3>3. run = IF kind = "stack" THEN f .. f + StackPages - 1 ELSE {f}
      BY <3>2 DEF run
    <3>4. \A p \in Procs, x \in Kinds :
            phys'[p][x] = IF p = boot.p /\ x = kind THEN f ELSE phys[p][x]
      BY <1>6, <3>2
    <3>5. phys[boot.p][kind] = 0
      BY <3>1, <3>2
    <3> QED
      BY <3>1, <3>3, <3>4, <3>5, TakeUser
  <2>2. CASE f = 0
    <3>1. phys' = phys /\ free' = free
      BY <1>1, <2>2
    <3> QED
      BY <1>1, <3>1, FramesKeep
  <2> QED
    BY <2>1, <2>2
<1>8. TypeOK'
  BY <1>1, <1>2, <1>6 DEF Inv, TypeOK
<1>9. PhaseOK'
  <2> USE DEF me
  <2>1. ASSUME NEW p \in Procs
        PROVE  /\ Ahead(p, BeforeDir)' => p > boot.p
               /\ Ahead(p, {"alloc code"})' => p > boot.p
               /\ Ahead(p, {"alloc code", "alloc data"})' => p > boot.p
               /\ Ahead(p, BeforeDir \cup {"alloc stack"})' => p > boot.p
               /\ p > boot.p => p # boot.p
    <3>1. p \in Nat /\ boot.p \in Nat
      BY <1>4, Sizes
    <3>2. \A a, b \in Nat : a > b => a # b
      OBVIOUS
    <3>3. boot'.pc \notin BeforeDir \cup {"alloc stack"} /\ boot'.pc \notin {"alloc code", "alloc data"}
      BY <1>4 DEF BeforeDir
    <3> QED
      BY <1>2, <3>1, <3>2, <3>3 DEF Ahead, Making
  <2>2. ASSUME NEW p \in Procs
        PROVE  /\ p > boot.p => dir[p] = 0 /\ phys[p]["code"] = 0 /\ phys[p]["data"] = 0
                                /\ phys[p]["stack"] = 0
               /\ p \in made => p < boot.p
               /\ p \in made => \A kind \in Kinds : phys[p][kind] # 0
    BY <1>4 DEF Inv, PhaseOK, Ahead
  <2>3. phys[boot.p]["code"] # 0 /\ phys[boot.p]["data"] # 0
    BY <1>4 DEF Inv, PhaseOK
  <2>4. boot'.pc \notin Finished \cup Leaving \cup {"running", "code", "data"}
    BY <1>4 DEF Finished
  <2>5. ASSUME NEW p \in Procs, p # boot.p, NEW x \in Kinds PROVE phys'[p][x] = phys[p][x]
    BY <1>6, <2>5
  <2>6. phys'[boot.p]["code"] # 0 /\ phys'[boot.p]["data"] # 0
        /\ (boot'.pc = "stack" => phys'[boot.p]["stack"] # 0)
    BY <1>2, <1>4, <1>5, <1>6, <2>3
  <2>7. ASSUME NEW p \in Procs
        PROVE  /\ p > boot.p => dir'[p] = 0 /\ phys'[p]["code"] = 0 /\ phys'[p]["data"] = 0
                                /\ phys'[p]["stack"] = 0
               /\ p \in made' => p < boot'.p
               /\ p \in made' => \A kind \in Kinds : phys'[p][kind] # 0
    BY <1>1, <1>2, <1>4, <1>5, <2>1, <2>2, <2>5
  <2>8. boot'.p = boot.p /\ boot'.ok = TRUE
    BY <1>2, <1>4
  <2> QED
    BY <2>1, <2>4, <2>6, <2>7, <2>8 DEF PhaseOK
<1>10. TablesOK'
  BY <1>1, <1>4, TablesKeep
<1>11. WalkOK'
  <2>1. \A p, page : Walk(p, page)' = Walk(p, page)
    BY <1>1, WalkSame
  <2>2. \A p \in Procs : Private(p)' <=> Private(p)
    BY <1>1 DEF Private
  <2>3. ASSUME NEW p \in Procs, Private(p)
        PROVE  /\ \A page \in 0 .. UserPages - 1 : Walk(p, page)' \in {0} \cup Own(p)'
               /\ Stays(p)' => StackDone(p, StackPages)' /\ CodeDone(p)' /\ DataDone(p)'
               /\ StackDone(p, 0)'
    <3>1. \A page \in 0 .. UserPages - 1 : Walk(p, page)' \in {0} \cup Own(p)'
      BY <1>7, <2>1, <2>3 DEF Inv, WalkOK
    <3>2. StackDone(p, 0)'
      BY DEF StackDone
    <3>3. CASE p = boot.p
      <4>1. ~ Stays(p)'
        BY <1>1, <1>4, <3>3 DEF Stays, Making
      <4> QED
        BY <3>1, <3>2, <4>1
    <3>4. CASE p # boot.p
      <4>1. Stays(p)' => Stays(p)
        BY <1>1, <1>2, <3>4 DEF Stays, Making, me
      <4>2. \A x \in Kinds : phys'[p][x] = phys[p][x]
        BY <1>6, <3>4
      <4> QED
        BY <1>7, <2>1, <2>3, <3>2, <4>1, <4>2, DoneSame
    <3> QED
      BY <3>3, <3>4
  <2>4. boot'.k = 0 /\ 0 < StackPages /\ boot'.pc \notin {"code", "data"}
    <3>1. boot'.k = 0
      BY <1>2
    <3>2. 0 < StackPages
      <4>1. \A n \in Nat \ {0} : 0 < n
        OBVIOUS
      <4>2. StackPages \in Nat \ {0}
        BY Sizes
      <4> QED
        BY <4>1, <4>2
    <3>3. boot'.pc \notin {"code", "data"}
      BY <1>4
    <3> QED
      BY <3>1, <3>2, <3>3
  <2> QED
    BY <2>2, <2>3, <2>4 DEF WalkOK, Making
<1>12. WindowOK'
  <2>1. \A v \in V!Low : tlb'[v] \in {0, v}
    BY <1>1 DEF Inv, WindowOK
  <2>2. \A c \in Windows : phys'[boot.p][c] = phys[boot.p][c]
    BY <1>4, <1>5, <1>6 DEF Windows
  <2> QED
    BY <1>1, <1>2, <1>4, <1>7, <2>1, <2>2, WindowKeep
<1>13. FreshOK'
  <2>1. Done' = Done /\ Done \subseteq Procs
    BY <1>2, <1>4, BootFacts DEF Done, me
  <2>2. AllSoFar' <=> AllSoFar
    BY <1>1, <2>1 DEF AllSoFar
  <2>3. \A p \in Procs : phys'[p]["code"] = phys[p]["code"] /\ phys'[p]["data"] = phys[p]["data"]
    BY <1>5, <1>6
  <2>4. AllSoFar =>
        /\ \A v \in V!Slots : tlb[v] \in {0, pte[v]}
        /\ \A p \in Done : /\ content[phys[p]["code"]] = <<"code", p>>
                           /\ content[phys[p]["data"]] = <<"data", p>>
        /\ content[phys[boot.p]["code"]] = <<"code", boot.p>>
        /\ content[phys[boot.p]["data"]] = <<"data", boot.p>>
    BY <1>4 DEF Inv, FreshOK, me
  <2>5. boot'.pc \notin Leaving /\ boot'.p = boot.p
    BY <1>2, <1>4
  <2>6. AllSoFar =>
        /\ \A p \in Done : /\ content'[phys'[p]["code"]] = <<"code", p>>
                           /\ content'[phys'[p]["data"]] = <<"data", p>>
        /\ content'[phys'[boot.p]["code"]] = <<"code", boot.p>>
        /\ content'[phys'[boot.p]["data"]] = <<"data", boot.p>>
    BY <1>1, <1>4, <2>1, <2>3, <2>4
  <2> QED
    BY <1>1, <2>1, <2>2, <2>4, <2>5, <2>6 DEF FreshOK, me
<1>14. SysOK'
  BY <1>1, SysIdle
<1> QED
  BY <1>7, <1>8, <1>9, <1>10, <1>11, <1>12, <1>13, <1>14 DEF Inv

(* A page table could not be had: the mappings of the window are dropped.  *)
LEMMA InvGiveUp ==
    ASSUME Inv, boot.pc \in {"stack", "code", "data"}, GiveUp,
           UNCHANGED <<free, content, pde, table, dir, phys, made, sys, pte, tlb, held>>
    PROVE  Inv'
<1>1. /\ boot'.pc = "unmap code" /\ boot'.p = boot.p /\ boot'.ok = FALSE
      /\ boot' \in [pc : Places, p : Procs, k : Nat, ok : BOOLEAN]
  BY GiveUpFacts DEF Inv
<1>2. /\ boot.pc \notin Leaving \cup Finished \cup {"hangs", "alloc code", "alloc data"}
      /\ boot'.pc \notin Finished \cup BeforeDir
           \cup {"hangs", "alloc code", "alloc data", "alloc stack", "stack", "code", "data"}
      /\ boot'.pc \in Leaving
      /\ boot.pc \in HasCodeWindow /\ boot'.pc \in HasCodeWindow
      /\ boot.pc \in HasDataWindow /\ boot'.pc \in HasDataWindow
      /\ boot.pc \in CodeWritten /\ boot.pc \in DataWritten
  BY <1>1 DEF BeforeDir, Leaving, Finished, HasCodeWindow, HasDataWindow, CodeWritten,
              DataWritten, Mapping
<1>3. boot.p \in Procs /\ boot.p \notin made
  BY <1>2, BootFacts
<1>4. TypeOK'
  BY <1>1 DEF Inv, TypeOK
<1>5. PhaseOK'
  BY <1>1, <1>2, PhaseKeep
<1>6. FramesOK' /\ \A p \in Procs : Own(p)' = Own(p) /\ (Private(p)' <=> Private(p))
  BY FramesKeep
<1>7. TablesOK'
  BY <1>2, TablesKeep
<1>8. WalkOK'
  <2>1. \A p, page : Walk(p, page)' = Walk(p, page)
    BY WalkSame
  <2>2. ASSUME NEW p \in Procs, Private(p)
        PROVE  /\ \A page \in 0 .. UserPages - 1 : Walk(p, page)' \in {0} \cup Own(p)'
               /\ Stays(p)' => StackDone(p, StackPages)' /\ CodeDone(p)' /\ DataDone(p)'
    <3>1. Stays(p)' => Stays(p)
      BY <1>1 DEF Stays, Making, me
    <3>2. \A kind \in Kinds : phys'[p][kind] = phys[p][kind]
      OBVIOUS
    <3> QED
      BY <1>6, <2>1, <2>2, <3>1, <3>2, DoneSame
  <2> QED
    BY <1>2, <1>6, <2>2 DEF WalkOK, Making
<1>9. WindowOK'
  <2>1. \A v \in V!Low : tlb'[v] \in {0, v}
    BY DEF Inv, WindowOK
  <2> QED
    BY <1>1, <1>2, <1>6, <2>1, WindowKeep
<1>10. FreshOK'
  BY <1>1, <1>2, FreshKeep
<1>11. SysOK'
  BY SysIdle
<1> QED
  BY <1>4, <1>5, <1>6, <1>7, <1>8, <1>9, <1>10, <1>11 DEF Inv

(* The pages of each kind, as proc_map_pages is asked for them             *)
Virt(kind) ==
    IF kind = "stack" THEN StackPage ELSE IF kind = "code" THEN CodePage ELSE DataPage
Count(kind) == IF kind = "stack" THEN StackPages ELSE 1
After(kind) ==
    IF kind = "stack" THEN "code" ELSE IF kind = "code" THEN "data" ELSE "unmap code"

(* The page it is at, and the frame for it, are the process's own.         *)
LEMMA PageAtHand ==
    ASSUME Inv, NEW kind \in Kinds, boot.pc = kind
    PROVE  /\ Virt(kind) + boot.k \in 0 .. UserPages - 1
           /\ phys[boot.p][kind] + boot.k \in Own(boot.p)
           /\ phys[boot.p][kind] + boot.k \in Frames
           /\ boot.k \in 0 .. Count(kind) - 1
<1>1. /\ boot.p \in Procs /\ boot.k \in Nat /\ kind \in {"code", "data", "stack"}
      /\ phys[boot.p][kind] \in FrameOrNone
  BY DEF Inv, TypeOK, Kinds
<1>2. phys[boot.p]["code"] # 0 /\ phys[boot.p]["data"] # 0 /\ phys[boot.p]["stack"] # 0
  BY <1>1 DEF Inv, PhaseOK, me
<1>3. phys[boot.p][kind] \in Nat /\ phys[boot.p][kind] # 0
  <2>1. phys[boot.p][kind] # 0
    BY <1>1, <1>2
  <2> QED
    BY <1>1, <2>1, Sizes DEF FrameOrNone
<1>4. kind = "stack" => boot.k < StackPages
  BY DEF Inv, WalkOK
<1>5. kind # "stack" => boot.k = 0
  BY <1>1 DEF Inv, WalkOK
<1>6. StackPages \in Nat /\ StackPage \in Nat
  BY Sizes
<1>7. boot.k \in 0 .. Count(kind) - 1
  BY <1>1, <1>4, <1>5, <1>6 DEF Count
<1>8. Virt(kind) + boot.k \in 0 .. UserPages - 1
  <2>1. CASE kind = "stack"
    <3>1. boot.k \in 0 .. StackPages - 1
      BY <1>7, <2>1 DEF Count
    <3> QED
      BY <2>1, <3>1, PagesInHalf DEF Virt
  <2>2. CASE kind # "stack"
    <3>1. Virt(kind) \in 0 .. UserPages - 1
      BY <2>2, PagesInHalf DEF Virt
    <3>2. \A a, n : a \in 0 .. n - 1 => a + 0 = a
      OBVIOUS
    <3> QED
      BY <1>5, <2>2, <3>1, <3>2
  <2> QED
    BY <2>1, <2>2
<1>9. phys[boot.p][kind] + boot.k \in Own(boot.p)
  <2>1. CASE kind = "stack"
    <3> DEFINE f == phys[boot.p]["stack"]
    <3>1. f \in Nat \ {0} /\ boot.k \in Nat /\ boot.k < StackPages
      BY <1>1, <1>3, <1>4, <2>1
    <3> HIDE DEF f
    <3>2. f + boot.k \in f .. f + StackPages - 1 /\ f + boot.k # 0 /\ f # 0
      BY <1>6, <3>1
    <3> QED
      BY <2>1, <3>2 DEF Own, f
  <2>2. CASE kind # "stack"
    <3>1. phys[boot.p][kind] + boot.k = phys[boot.p][kind]
      BY <1>3, <1>5, <2>2
    <3> QED
      BY <1>1, <1>3, <2>2, <3>1 DEF Own
  <2> QED
    BY <2>1, <2>2
<1>10. Own(boot.p) \subseteq Frames
  BY <1>1 DEF Inv, FramesOK
<1> QED
  BY <1>7, <1>8, <1>9, <1>10

(* MapStack, MapCode and MapData                                           *)
LEMMA InvMapPage ==
    ASSUME Inv, MapStack \/ MapCode \/ MapData
    PROVE  Inv'
<1>1. PICK kind \in Kinds :
        /\ boot.pc = kind
        /\ proc_map_pages(kind, Virt(kind), Count(kind), After(kind))
  BY DEF MapStack, MapCode, MapData, proc_map_pages, At, Kinds, Virt, Count, After
<1> DEFINE page == Virt(kind) + boot.k
           frame == phys[boot.p][kind] + boot.k
<1>2. /\ page \in 0 .. UserPages - 1 /\ frame \in Own(boot.p) /\ frame \in Frames
      /\ boot.k \in 0 .. Count(kind) - 1
  BY <1>1, PageAtHand
<1>3. UNCHANGED <<content, dir, phys, made, sys>>
  BY <1>1 DEF proc_map_pages
<1>4. \/ /\ \/ NewTable(dir[boot.p], TabOf(page), EntryOf(page), frame)
            \/ SetPage(dir[boot.p], TabOf(page), EntryOf(page), frame)
         /\ \/ /\ boot.k + 1 < Count(kind)
               /\ boot' = [boot EXCEPT !.k = @ + 1]
               /\ UNCHANGED window
            \/ boot.k + 1 = Count(kind) /\ Goto(After(kind)) /\ V!Flush
      \/ GiveUp /\ UNCHANGED <<free, pde, table, window>>
  BY <1>1 DEF proc_map_pages, TabOf, EntryOf, me, flush_tlb
<1> HIDE DEF page, frame
<1>5. CASE GiveUp /\ UNCHANGED <<free, pde, table, window>>
  <2>1. boot.pc \in {"stack", "code", "data"}
    BY <1>1 DEF Kinds
  <2> QED
    BY <1>3, <1>5, <2>1, InvGiveUp DEF window
<1> SUFFICES ASSUME ~ (GiveUp /\ UNCHANGED <<free, pde, table, window>>) PROVE Inv'
  BY <1>5
<1>6. /\ free' \subseteq free
      /\ pde' \in [Dirs -> [Tabs -> FrameOrNone]]
      /\ table' \in [Frames -> [0 .. TableSize - 1 -> FrameOrNone]]
      /\ FramesOK'
      /\ Unshared(pde')
      /\ \A p \in Procs : Private(p) => \A i \in Tabs : pde'[dir[p]][i] # Junk
      /\ \A p \in Procs : Private(p) => \A y \in 0 .. UserPages - 1 :
           Walk(p, y)' = IF p = boot.p /\ y = page THEN frame ELSE Walk(p, y)
  BY <1>2, <1>3, <1>4, MapEntry
<1>7. /\ boot'.p = boot.p /\ boot'.ok = boot.ok
      /\ boot' \in [pc : Places, p : Procs, k : Nat, ok : BOOLEAN]
      /\ UNCHANGED <<pte, held>>
      /\ \/ /\ boot.k + 1 < Count(kind) /\ boot'.pc = kind /\ boot'.k = boot.k + 1
            /\ tlb' = tlb
         \/ /\ boot.k + 1 = Count(kind) /\ boot'.pc = After(kind) /\ boot'.k = 0
            /\ tlb' = [v \in V!Pages |-> 0]
  <2>1. CASE boot' = [boot EXCEPT !.k = @ + 1] /\ boot.k + 1 < Count(kind) /\ UNCHANGED window
    <3>1. boot \in [pc : Places, p : Procs, k : Nat, ok : BOOLEAN] /\ boot.k + 1 \in Nat
      BY DEF Inv, TypeOK
    <3>2. /\ boot'.p = boot.p /\ boot'.ok = boot.ok /\ boot'.pc = boot.pc /\ boot'.k = boot.k + 1
          /\ boot' \in [pc : Places, p : Procs, k : Nat, ok : BOOLEAN]
      BY <2>1, <3>1
    <3> QED
      BY <1>1, <2>1, <3>2 DEF window
  <2>2. CASE boot.k + 1 = Count(kind) /\ Goto(After(kind)) /\ V!Flush
    <3>1. After(kind) \in Places /\ TypeOK
      BY DEF After, Places, Mapping, Leaving, Inv
    <3>2. /\ boot'.pc = After(kind) /\ boot'.p = boot.p /\ boot'.k = 0 /\ boot'.ok = boot.ok
          /\ boot' \in [pc : Places, p : Procs, k : Nat, ok : BOOLEAN]
      BY <2>2, <3>1, GotoFacts
    <3> QED
      BY <2>2, <3>2 DEF V!Flush
  <2> QED
    BY <1>4, <2>1, <2>2
<1>8. /\ kind \in {"stack", "code", "data"}
      /\ kind # "stack" => boot.k + 1 = Count(kind) /\ boot'.pc # kind
      /\ boot'.pc \in {kind, After(kind)}
  <2>1. kind \in {"stack", "code", "data"}
    BY DEF Kinds
  <2>2. kind # "stack" => Count(kind) = 1 /\ boot.k = 0
    <3>1. \A n : n \in 0 .. 1 - 1 => n = 0
      OBVIOUS
    <3> QED
      BY <1>2, <3>1 DEF Count
  <2>3. kind # "stack" => boot.k + 1 = Count(kind) /\ ~ (boot.k + 1 < Count(kind))
    BY <2>2
  <2> QED
    BY <1>7, <2>1, <2>3 DEF After
<1>9. /\ boot.pc \in {"stack", "code", "data"}
      /\ boot'.pc \in {"stack", "code", "data", "unmap code"}
      /\ boot'.pc = "unmap code" => kind = "data" /\ tlb' = [v \in V!Pages |-> 0]
  BY <1>1, <1>7, <1>8 DEF After
<1>10. /\ boot.pc \notin Leaving \cup Finished \cup {"hangs", "alloc code", "alloc data"}
       /\ boot'.pc \notin Finished \cup BeforeDir
            \cup {"hangs", "alloc code", "alloc data", "alloc stack"}
       /\ boot'.pc \in Leaving => boot'.pc = "unmap code"
       /\ boot.pc \in HasCodeWindow /\ boot'.pc \in HasCodeWindow
       /\ boot.pc \in HasDataWindow /\ boot'.pc \in HasDataWindow
       /\ boot.pc \in CodeWritten /\ boot.pc \in DataWritten
  BY <1>9 DEF BeforeDir, Leaving, Finished, HasCodeWindow, HasDataWindow, CodeWritten,
              DataWritten, Mapping
<1>11. boot.p \in Procs /\ boot.p \notin made /\ boot.ok = TRUE
  BY <1>10, BootFacts
<1>12. tlb' \in [V!Pages -> FrameOrNone] /\ \A v \in V!Pages : tlb'[v] \in {0, tlb[v]}
  <2>1. tlb \in [V!Pages -> FrameOrNone] /\ 0 \in FrameOrNone
    BY DEF Inv, TypeOK, FrameOrNone
  <2>2. tlb' = tlb \/ tlb' = [v \in V!Pages |-> 0]
    BY <1>7
  <2> QED
    BY <2>1, <2>2
<1>13. TypeOK'
  BY <1>3, <1>6, <1>7, <1>12 DEF Inv, TypeOK
<1>14. PhaseOK'
  <2>1. boot'.pc \in Leaving /\ boot'.ok => boot.pc \in {"code", "data"}
    BY <1>1, <1>9, <1>10
  <2> QED
    BY <1>3, <1>7, <1>9, <1>10, <1>11, <2>1, PhaseKeep
<1>15. \A p \in Procs : Own(p)' = Own(p) /\ (Private(p)' <=> Private(p))
  BY <1>3 DEF Own, Private
<1>16. TablesOK'
  <2>1. \A p \in Procs : Private(p) => \A q \in Procs : dir[q] = dir[p] => q = p
    BY DEF Inv, TablesOK
  <2>2. dir' = dir /\ boot'.pc # "alloc stack"
    BY <1>3, <1>10
  <2> QED
    BY <1>6, <1>15, <2>1, <2>2 DEF TablesOK
<1>17. WindowOK'
  <2>1. \A v \in V!Low : tlb'[v] \in {0, v}
    BY <1>12 DEF Inv, WindowOK, V!Pages
  <2> QED
    BY <1>3, <1>7, <1>10, <1>15, <2>1, WindowKeep
<1>18. FreshOK'
  <2>1. AllSoFar => \A v \in V!Slots : tlb'[v] \in {0, pte'[v]}
    BY <1>7, <1>11, <1>12 DEF Inv, FreshOK, V!Pages
  <2>2. boot'.pc \in Leaving => \A v \in V!Slots : tlb'[v] = 0
    BY <1>9, <1>10 DEF V!Pages
  <2> QED
    BY <1>3, <1>7, <1>10, <2>1, <2>2, FreshKeep
<1>19. SysOK'
  BY <1>3, <1>10, SysIdle DEF Finished
<1>20. WalkOK'
  <2>1. Count("stack") = StackPages /\ Virt("stack") = StackPage /\ Virt("code") = CodePage
        /\ Virt("data") = DataPage
    BY DEF Count, Virt
  <2>2. /\ boot'.pc = "stack" => boot'.k < StackPages
        /\ boot'.pc \in {"code", "data"} => boot'.k = 0
    BY <1>7, <1>8, <2>1 DEF After
  <2>3. ASSUME NEW p \in Procs, Private(p), p # boot.p
        PROVE  /\ \A y \in 0 .. UserPages - 1 : Walk(p, y)' \in {0} \cup Own(p)'
               /\ Stays(p)' => StackDone(p, StackPages)' /\ CodeDone(p)' /\ DataDone(p)'
               /\ \A places : ~ Making(p, places)'
    <3>1. Stays(p)' => Stays(p)
      BY <1>3, <1>7, <2>3 DEF Stays, Making, me
    <3>2. \A x \in Kinds : phys'[p][x] = phys[p][x]
      BY <1>3
    <3>3. \A y \in 0 .. UserPages - 1 : Walk(p, y)' = Walk(p, y)
      BY <1>6, <2>3
    <3>4. \A places : ~ Making(p, places)'
      BY <1>7, <2>3 DEF Making, me
    <3> QED
      BY <1>15, <2>3, <3>1, <3>2, <3>3, <3>4, DoneSame
  <2>4. ASSUME NEW p \in Procs, Private(p), p = boot.p
        PROVE  /\ \A y \in 0 .. UserPages - 1 : Walk(p, y)' \in {0} \cup Own(p)'
               /\ boot'.pc \in {"code", "data", "unmap code"} => StackDone(p, StackPages)'
               /\ boot'.pc \in {"data", "unmap code"} => CodeDone(p)'
               /\ boot'.pc = "unmap code" => DataDone(p)'
               /\ boot'.pc = "stack" => StackDone(p, boot.k)'
    <3>1. \A y \in 0 .. UserPages - 1 :
            Walk(p, y)' = IF y = page THEN frame ELSE Walk(p, y)
      BY <1>6, <2>4
    <3>2. \A y \in 0 .. UserPages - 1 : Walk(p, y)' \in {0} \cup Own(p)'
      <4>1. \A y \in 0 .. UserPages - 1 : Walk(p, y) \in {0} \cup Own(p)
        BY <2>4 DEF Inv, WalkOK
      <4>2. Own(p)' = Own(p) /\ frame \in Own(p)
        BY <1>2, <1>15, <2>4
      <4> QED
        BY <3>1, <4>1, <4>2
    <3>3. /\ boot.pc \in {"code", "data"} => StackDone(p, StackPages)
          /\ boot.pc = "data" => CodeDone(p)
          /\ boot.pc = "stack" => StackDone(p, boot.k)
      BY <2>4 DEF Inv, WalkOK, Making, me
    <3>4. phys' = phys /\ boot.k \in Nat /\ StackPage \in Nat /\ StackPages \in Nat
      BY <1>3, BootFacts, Sizes
    <3>5. CASE kind = "stack"
      <4>1. boot'.pc = "stack" => boot'.k = boot.k + 1
        BY <1>7, <3>5 DEF After
      <4>2. boot'.pc # "stack" => boot'.pc = "code" /\ boot.k + 1 = StackPages
        BY <1>7, <2>1, <3>5 DEF After
      <4>3. page = StackPage + boot.k /\ frame = phys[p]["stack"] + boot.k
        BY <2>1, <2>4, <3>5 DEF page, frame
      <4>4. ASSUME NEW j \in 0 .. (boot.k + 1) - 1
            PROVE  Walk(p, StackPage + j)' = phys'[p]["stack"] + j
        <5>1. j \in Nat /\ (j = boot.k \/ (j \in 0 .. boot.k - 1 /\ StackPage + j # StackPage + boot.k))
          BY <3>4
        <5>2. j \in 0 .. StackPages - 1
          <6>1. boot.k \in 0 .. StackPages - 1
            BY <1>2, <2>1, <3>5
          <6> QED
            BY <3>4, <6>1
        <5>3. StackPage + j \in 0 .. UserPages - 1
          BY <5>2, PagesInHalf
        <5>4. CASE j = boot.k
          BY <3>1, <3>4, <4>3, <5>3, <5>4
        <5>5. CASE j \in 0 .. boot.k - 1 /\ StackPage + j # StackPage + boot.k
          <6>1. Walk(p, StackPage + j) = phys[p]["stack"] + j
            BY <1>1, <3>3, <3>5, <5>5 DEF StackDone
          <6> QED
            BY <3>1, <3>4, <4>3, <5>3, <5>5, <6>1
        <5> QED
          BY <5>1, <5>4, <5>5
      <4>5. CASE boot'.pc = "stack"
        <5>1. StackDone(p, boot.k)'
          BY <4>1, <4>4, <4>5 DEF StackDone
        <5> QED
          BY <3>2, <4>5, <5>1
      <4>6. CASE boot'.pc # "stack"
        <5>1. StackDone(p, StackPages)'
          BY <4>2, <4>4, <4>6 DEF StackDone
        <5> QED
          BY <3>2, <4>2, <4>6, <5>1
      <4> QED
        BY <4>5, <4>6
    <3>6. CASE kind \in {"code", "data"}
      <4>1. page = Virt(kind) /\ frame = phys[p][kind]
        <5>1. boot.k = 0
          BY <1>1, <3>6 DEF Inv, WalkOK
        <5>2. Virt(kind) \in Nat
          <6>1. \A x, n : x \in 0 .. n - 1 => x \in Nat
            OBVIOUS
          <6> QED
            BY <3>6, <6>1, PagesInHalf DEF Virt
        <5>3. phys[p][kind] \in Nat
          <6>1. phys[p][kind] \in FrameOrNone
            BY DEF Inv, TypeOK
          <6>2. \A x \in FrameOrNone : x \in Nat
            BY Sizes DEF FrameOrNone
          <6> QED
            BY <6>1, <6>2
        <5> QED
          BY <2>4, <5>1, <5>2, <5>3 DEF page, frame
      <4>2. StackDone(p, StackPages)'
        <5>1. ASSUME NEW j \in 0 .. StackPages - 1
              PROVE  Walk(p, StackPage + j)' = phys'[p]["stack"] + j
          <6>1. StackPage + j \in 0 .. UserPages - 1 /\ StackPage + j # page
            BY <2>1, <3>6, <4>1, PagesInHalf
          <6>2. Walk(p, StackPage + j) = phys[p]["stack"] + j
            BY <1>1, <3>3, <3>6 DEF StackDone
          <6> QED
            BY <3>1, <3>4, <6>1, <6>2
        <5> QED
          BY <5>1 DEF StackDone
      <4>3. CASE kind = "code"
        <5>1. boot'.pc = "data"
          BY <1>8, <4>3 DEF After
        <5>2. CodeDone(p)'
          BY <2>1, <3>1, <3>4, <4>1, <4>3, PagesInHalf DEF CodeDone
        <5> QED
          BY <3>2, <4>2, <5>1, <5>2
      <4>4. CASE kind = "data"
        <5>1. boot'.pc = "unmap code"
          BY <1>8, <4>4 DEF After
        <5>2. Walk(p, CodePage) = phys[p]["code"]
          BY <1>1, <3>3, <4>4 DEF CodeDone
        <5>3. CodeDone(p)'
          BY <2>1, <3>1, <3>4, <4>1, <4>4, <5>2, PagesInHalf DEF CodeDone
        <5>4. DataDone(p)'
          BY <2>1, <3>1, <3>4, <4>1, <4>4, PagesInHalf DEF DataDone
        <5> QED
          BY <3>2, <4>2, <5>1, <5>3, <5>4
      <4> QED
        BY <3>6, <4>3, <4>4
    <3> QED
      BY <1>8, <3>5, <3>6
  <2>5. ASSUME NEW p \in Procs, Private(p)'
        PROVE  /\ \A y \in 0 .. UserPages - 1 : Walk(p, y)' \in {0} \cup Own(p)'
               /\ Stays(p)' \/ Making(p, {"code", "data"})' => StackDone(p, StackPages)'
               /\ Stays(p)' \/ Making(p, {"data"})' => CodeDone(p)'
               /\ Stays(p)' => DataDone(p)'
               /\ Making(p, {"stack"})' => StackDone(p, boot.k)'
    <3>1. CASE p = boot.p
      <4>1. Stays(p)' => boot'.pc = "unmap code"
        BY <1>3, <1>10, <1>11, <3>1 DEF Stays, Making
      <4>2. /\ Making(p, {"code", "data"})' => boot'.pc \in {"code", "data"}
            /\ Making(p, {"data"})' => boot'.pc = "data"
            /\ Making(p, {"stack"})' => boot'.pc = "stack"
        BY DEF Making
      <4>3. Private(p)
        BY <1>15, <2>5
      <4> QED
        BY <2>4, <3>1, <4>1, <4>2, <4>3
    <3>2. CASE p # boot.p
      BY <1>15, <2>3, <2>5, <3>2
    <3> QED
      BY <3>1, <3>2
  <2> QED
    BY <2>2, <2>5 DEF WalkOK
<1> QED
  BY <1>6, <1>13, <1>14, <1>16, <1>17, <1>18, <1>19, <1>20 DEF Inv

(* kunmap clears the page of the window, or of a low frame, which is then  *)
(* the process's own.                                                      *)
LEMMA KunmapFacts ==
    ASSUME Inv, NEW c \in Windows, V!Kunmap(c), held[c].page # 0
    PROVE  /\ tlb' = tlb
           /\ held[c].page \in V!Pages
           /\ held[c].page \in V!Low => held[c].page \in Own(boot.p)
           /\ pte' \in [V!Pages -> FrameOrNone]
           /\ \A w \in V!Pages : pte'[w] = IF w = held[c].page THEN 0 ELSE pte[w]
           /\ held' \in [Windows -> [page : {0} \cup V!Pages, frame : FrameOrNone]]
           /\ held'[c].page = 0
           /\ \A x \in Windows : x # c => held'[x] = held[x]
<1>1. /\ pte' = [pte EXCEPT ![held[c].page] = 0]
      /\ held' = [held EXCEPT ![c] = [page |-> 0, frame |-> 0]]
      /\ tlb' = tlb
  BY DEF V!Kunmap, V!Nothing
<1>2. /\ pte \in [V!Pages -> FrameOrNone] /\ 0 \in FrameOrNone
      /\ held \in [Windows -> [page : {0} \cup V!Pages, frame : FrameOrNone]]
  BY DEF Inv, TypeOK, FrameOrNone
<1>3. held[c].page \in V!Pages
  BY <1>2
<1>4. held[c].page \in V!Low => held[c].page = phys[boot.p][c] /\ phys[boot.p][c] # 0
  BY DEF Inv, WindowOK, me
<1>5. phys[boot.p][c] # 0 => phys[boot.p][c] \in Own(boot.p)
  BY DEF Own, Windows
<1>6. /\ pte' \in [V!Pages -> FrameOrNone]
      /\ \A w \in V!Pages : pte'[w] = IF w = held[c].page THEN 0 ELSE pte[w]
  BY <1>1, <1>2, <1>3
<1>7. [page |-> 0, frame |-> 0] \in [page : {0} \cup V!Pages, frame : FrameOrNone]
  BY <1>2
<1>8. /\ held' \in [Windows -> [page : {0} \cup V!Pages, frame : FrameOrNone]]
      /\ held'[c] = [page |-> 0, frame |-> 0]
      /\ \A x \in Windows : x # c => held'[x] = held[x]
  BY <1>1, <1>2, <1>7
<1> QED
  BY <1>1, <1>3, <1>4, <1>5, <1>6, <1>8

(* What a page table entry that kunmap clears leaves of the window         *)
LEMMA UnmapLow ==
    ASSUME Inv, NEW c \in Windows, V!Kunmap(c), held[c].page # 0,
           \A p \in Procs : Own(p)' = Own(p), NEW v \in V!Low
    PROVE  /\ pte'[v] \in {0, v} /\ tlb'[v] \in {0, v}
           /\ pte'[v] = v \/ \E p \in Procs : v \in Own(p)'
<1>1. /\ pte[v] \in {0, v} /\ tlb[v] \in {0, v}
      /\ pte[v] = v \/ \E p \in Procs : v \in Own(p)
  BY DEF Inv, WindowOK
<1>2. v \in V!Pages /\ boot.p \in Procs
  BY BootFacts DEF V!Pages
<1>3. pte'[v] = IF v = held[c].page THEN 0 ELSE pte[v]
  BY <1>2, KunmapFacts
<1>4. v = held[c].page => v \in Own(boot.p)
  BY KunmapFacts
<1>5. tlb' = tlb
  BY KunmapFacts
<1> QED
  BY <1>1, <1>2, <1>3, <1>4, <1>5

LEMMA InvUnmapCode ==
    ASSUME Inv, UnmapCode
    PROVE  Inv'
<1>1. /\ boot.pc = "unmap code" /\ V!Kunmap("code") /\ Goto("unmap data")
      /\ UNCHANGED <<free, content, pde, table, dir, phys, made, sys>>
  BY DEF UnmapCode, At, memory
<1>2. /\ boot'.pc = "unmap data" /\ boot'.p = boot.p /\ boot'.ok = boot.ok
      /\ boot' \in [pc : Places, p : Procs, k : Nat, ok : BOOLEAN]
  <2>1. "unmap data" \in Places /\ TypeOK
    BY DEF Places, Leaving, Inv
  <2> QED
    BY <1>1, <2>1, GotoFacts
<1>3. /\ boot.pc \in Leaving /\ boot'.pc \in Leaving
      /\ boot.pc \notin Finished \cup {"hangs", "alloc code", "alloc data"}
      /\ boot'.pc \notin Finished \cup BeforeDir
           \cup {"hangs", "alloc code", "alloc data", "alloc stack", "stack", "code", "data"}
      /\ boot.pc \in HasCodeWindow /\ boot'.pc \notin HasCodeWindow
      /\ boot.pc \in HasDataWindow /\ boot'.pc \in HasDataWindow
      /\ boot.pc \in CodeWritten /\ boot.pc \in DataWritten
  BY <1>1, <1>2 DEF BeforeDir, Leaving, Finished, HasCodeWindow, HasDataWindow, CodeWritten,
                    DataWritten, Mapping
<1>4. PICK c \in Windows : c = "code"
  BY DEF Windows
<1>5. /\ held["code"].page # 0 /\ held["data"].page # 0
      /\ held["code"].page # held["data"].page
  BY <1>3 DEF Inv, WindowOK
<1>6. V!Kunmap(c) /\ held[c].page # 0
  BY <1>1, <1>4, <1>5
<1>7. /\ tlb' = tlb
      /\ pte' \in [V!Pages -> FrameOrNone]
      /\ \A w \in V!Pages : pte'[w] = IF w = held[c].page THEN 0 ELSE pte[w]
      /\ held' \in [Windows -> [page : {0} \cup V!Pages, frame : FrameOrNone]]
      /\ held'[c].page = 0
      /\ \A x \in Windows : x # c => held'[x] = held[x]
  BY <1>6, KunmapFacts
<1>8. TypeOK'
  BY <1>1, <1>2, <1>7 DEF Inv, TypeOK
<1>9. PhaseOK'
  <2>1. ~ boot'.ok => boot'.pc \in Leaving
    BY <1>3
  <2> QED
    BY <1>1, <1>2, <1>3, <2>1, PhaseKeep
<1>10. FramesOK' /\ \A p \in Procs : Own(p)' = Own(p)
  BY <1>1, FramesKeep
<1>11. WalkOK' /\ TablesOK'
  BY <1>1, <1>2, <1>3, MappedKeep
<1>12. WindowOK'
  <2>1. \A v \in V!Low : /\ pte'[v] \in {0, v} /\ tlb'[v] \in {0, v}
                         /\ pte'[v] = v \/ \E p \in Procs : v \in Own(p)'
    BY <1>6, <1>10, UnmapLow
  <2>2. "code" \in Windows /\ "data" \in Windows /\ \A x \in Windows : x \in {"code", "data"}
    BY DEF Windows
  <2>3. held'["code"].page = 0 /\ held'["data"] = held["data"]
    BY <1>4, <1>7, <2>2
  <2>4. /\ held["data"].frame = phys[boot.p]["data"] /\ phys[boot.p]["data"] # 0
        /\ pte[held["data"].page] = held["data"].frame
        /\ held["data"].page \in V!Low => held["data"].page = held["data"].frame
    BY <1>5, <2>2 DEF Inv, WindowOK, me
  <2>5. held["data"].page \in V!Pages
    BY <1>5, <2>2 DEF Inv, TypeOK
  <2>6. pte'[held["data"].page] = held["data"].frame
    BY <1>4, <1>5, <1>7, <2>4, <2>5
  <2>7. ASSUME NEW x \in Windows, held'[x].page # 0
        PROVE  /\ held'[x].frame = phys'[boot'.p][x] /\ phys'[boot'.p][x] # 0
               /\ pte'[held'[x].page] = held'[x].frame
               /\ held'[x].page \in V!Low => held'[x].page = held'[x].frame
    <3>1. x = "data"
      BY <2>2, <2>3, <2>7
    <3>2. phys' = phys /\ boot'.p = boot.p
      BY <1>1, <1>2
    <3> QED
      BY <2>3, <2>4, <2>6, <3>1, <3>2
  <2>8. ASSUME NEW v \in V!Slots, pte'[v] # 0 PROVE \E x \in Windows : held'[x].page = v
    <3>1. v \in V!Pages
      BY DEF V!Pages
    <3>2. v # held["code"].page /\ pte[v] # 0
      BY <1>4, <1>7, <2>8, <3>1
    <3>3. PICK x \in Windows : held[x].page = v
      BY <3>2 DEF Inv, WindowOK
    <3> QED
      BY <2>2, <2>3, <3>2, <3>3
  <2> QED
    BY <1>3, <1>5, <2>1, <2>3, <2>7, <2>8 DEF WindowOK, me
<1>13. FreshOK'
  <2>1. boot.ok => \A v \in V!Slots : tlb[v] = 0
    BY <1>3 DEF Inv, FreshOK
  <2>2. boot'.ok => \A v \in V!Slots : tlb'[v] = 0
    BY <1>2, <1>7, <2>1
  <2> QED
    BY <1>1, <1>2, <1>3, <2>2, FreshKeep
<1>14. SysOK'
  BY <1>1, SysIdle
<1> QED
  BY <1>8, <1>9, <1>10, <1>11, <1>12, <1>13, <1>14 DEF Inv

(* Return: the process counts as made if nothing failed.                   *)
LEMMA InvReturn ==
    ASSUME Inv, Return
    PROVE  Inv'
<1>1. /\ boot.pc = "unmap data" /\ V!Kunmap("data")
      /\ made' = IF boot.ok THEN made \cup {boot.p} ELSE made
      /\ boot' = [pc |-> IF boot.p < NProcs THEN "alloc code" ELSE "check",
                  p |-> IF boot.p < NProcs THEN boot.p + 1 ELSE boot.p, k |-> 0, ok |-> TRUE]
      /\ UNCHANGED <<free, content, pde, table, dir, phys, sys>>
  BY DEF Return, At, memory, me
<1>2. /\ boot.pc \in Leaving /\ boot.pc \notin Finished
      /\ boot.pc \notin HasCodeWindow /\ boot.pc \in HasDataWindow
      /\ boot.pc \in CodeWritten /\ boot.pc \in DataWritten
  BY <1>1 DEF Leaving, Finished, HasCodeWindow, HasDataWindow, CodeWritten, DataWritten, Mapping
<1>3. /\ boot.p \in Procs /\ boot.p \notin made /\ boot.p \notin Done /\ boot.ok \in BOOLEAN
      /\ Done = 1 .. boot.p - 1
  BY <1>2, BootFacts DEF Done, me
<1>4. boot.p \in Nat /\ boot.p \in 1 .. NProcs /\ NProcs \in Nat
  BY <1>3, Sizes DEF Procs
<1>5. /\ boot'.pc = IF boot.p < NProcs THEN "alloc code" ELSE "check"
      /\ boot'.p = IF boot.p < NProcs THEN boot.p + 1 ELSE boot.p
      /\ boot'.k = 0 /\ boot'.ok = TRUE
  BY <1>1
<1>6. \A n \in Nat : \A a \in 1 .. n : (a < n => a + 1 \in 1 .. n) /\ a + 1 > a
  OBVIOUS
<1>7. boot'.p \in Procs /\ boot'.p \in Nat
  <2>1. boot'.p \in 1 .. NProcs
    BY <1>4, <1>5, <1>6
  <2> QED
    BY <2>1, Sizes DEF Procs
<1>8. boot' \in [pc : Places, p : Procs, k : Nat, ok : BOOLEAN]
  <2>1. {"alloc code", "check"} \subseteq Places /\ 0 \in Nat
    BY DEF Places, BeforeDir, Finished
  <2> QED
    BY <1>1, <1>5, <1>7, <2>1
<1>9. PICK c \in Windows : c = "data"
  BY DEF Windows
<1>10. held["code"].page = 0 /\ held["data"].page # 0
  BY <1>2 DEF Inv, WindowOK, Leaving
<1>11. V!Kunmap(c) /\ held[c].page # 0
  BY <1>1, <1>9, <1>10
<1>12. /\ tlb' = tlb
       /\ pte' \in [V!Pages -> FrameOrNone]
       /\ \A w \in V!Pages : pte'[w] = IF w = held[c].page THEN 0 ELSE pte[w]
       /\ held' \in [Windows -> [page : {0} \cup V!Pages, frame : FrameOrNone]]
       /\ held'[c].page = 0
       /\ \A x \in Windows : x # c => held'[x] = held[x]
  BY <1>11, KunmapFacts
<1>13. made' \subseteq Procs /\ \A p : p \in made' <=> p \in made \/ (p = boot.p /\ boot.ok)
  <2>1. made \subseteq Procs
    BY DEF Inv, TypeOK
  <2> QED
    BY <1>1, <1>3, <2>1
<1>14. TypeOK'
  BY <1>1, <1>8, <1>12, <1>13 DEF Inv, TypeOK
<1>15. boot'.pc \in {"alloc code", "check"} /\ (boot'.pc = "check" <=> ~ (boot.p < NProcs))
  BY <1>5
<1>16. /\ boot'.pc \notin Leaving \cup HasCodeWindow \cup HasDataWindow \cup CodeWritten
            \cup DataWritten \cup {"hangs", "alloc stack", "stack", "code", "data", "running"}
       /\ boot'.pc \in Finished <=> boot'.pc = "check"
  BY <1>15 DEF Leaving, Finished, HasCodeWindow, HasDataWindow, CodeWritten, DataWritten, Mapping
<1>17. PhaseOK'
  <2> USE DEF me
  <2>1. ASSUME NEW p \in Procs
        PROVE  /\ Ahead(p, BeforeDir)' => p > boot.p
               /\ Ahead(p, {"alloc code"})' => p > boot.p
               /\ Ahead(p, {"alloc code", "alloc data"})' => p > boot.p
               /\ Ahead(p, BeforeDir \cup {"alloc stack"})' => p > boot.p
               /\ p \in made' => p < boot'.p \/ boot'.pc \in Finished
    <3>1. p \in Nat
      BY Sizes
    <3>2. CASE boot.p < NProcs
      <4>1. boot'.p = boot.p + 1
        BY <1>5, <3>2
      <4>2. p > boot'.p \/ p = boot'.p => p > boot.p
        BY <1>4, <3>1, <4>1
      <4>3. p \in made => p < boot.p
        BY <1>2 DEF Inv, PhaseOK
      <4>4. p < boot.p \/ p = boot.p => p < boot'.p
        BY <1>4, <3>1, <4>1
      <4> QED
        BY <1>13, <4>2, <4>3, <4>4 DEF Ahead, Making
    <3>3. CASE ~ (boot.p < NProcs)
      <4>1. boot'.p = boot.p /\ boot'.pc = "check"
        BY <1>5, <3>3
      <4>2. boot'.pc \notin BeforeDir \cup {"alloc stack"} /\ boot'.pc \notin {"alloc code", "alloc data"}
            /\ boot'.pc \in Finished
        BY <4>1 DEF BeforeDir, Finished
      <4> QED
        BY <4>1, <4>2 DEF Ahead, Making
    <3> QED
      BY <3>2, <3>3
  <2>2. ASSUME NEW p \in Procs
        PROVE  /\ p > boot.p => dir[p] = 0 /\ phys[p]["code"] = 0 /\ phys[p]["data"] = 0
                                /\ phys[p]["stack"] = 0
               /\ p \in made => \A kind \in Kinds : phys[p][kind] # 0
    BY DEF Inv, PhaseOK, Ahead
  <2>3. phys[boot.p]["code"] # 0 /\ phys[boot.p]["data"] # 0
    BY <1>1 DEF Inv, PhaseOK
  <2>4. boot.ok => \A kind \in Kinds : phys[boot.p][kind] # 0
    <3>1. boot.ok => phys[boot.p]["stack"] # 0
      BY <1>2 DEF Inv, PhaseOK
    <3> QED
      BY <2>3, <3>1 DEF Kinds
  <2>5. boot'.pc \in Finished => boot'.p = NProcs
    <3>1. ~ (boot.p < NProcs) => boot.p = NProcs
      BY <1>4
    <3> QED
      BY <1>5, <1>15, <1>16, <3>1
  <2>6. boot'.pc # "alloc code" => boot'.p = boot.p
    BY <1>5
  <2>7. \A p \in Procs : p \in made' => \A kind \in Kinds : phys'[p][kind] # 0
    BY <1>1, <1>13, <2>2, <2>4
  <2>8. \A p \in Procs :
          /\ Ahead(p, BeforeDir)' => dir'[p] = 0
          /\ Ahead(p, {"alloc code"})' => phys'[p]["code"] = 0
          /\ Ahead(p, {"alloc code", "alloc data"})' => phys'[p]["data"] = 0
          /\ Ahead(p, BeforeDir \cup {"alloc stack"})' => phys'[p]["stack"] = 0
    BY <1>1, <2>1, <2>2
  <2>9. boot'.pc # "alloc code" => phys'[boot'.p]["code"] # 0 /\ phys'[boot'.p]["data"] # 0
    BY <1>1, <2>3, <2>6
  <2> QED
    BY <1>5, <1>16, <2>1, <2>5, <2>7, <2>8, <2>9 DEF PhaseOK
<1>18. FramesOK' /\ \A p \in Procs : Own(p)' = Own(p) /\ (Private(p)' <=> Private(p))
  BY <1>1, FramesKeep
<1>19. TablesOK'
  BY <1>1, <1>16, TablesKeep
<1>20. WalkOK'
  <2>1. \A p, page : Walk(p, page)' = Walk(p, page)
    BY <1>1, WalkSame
  <2>2. ASSUME NEW p \in Procs, Private(p)
        PROVE  /\ \A page \in 0 .. UserPages - 1 : Walk(p, page)' \in {0} \cup Own(p)'
               /\ Stays(p)' => StackDone(p, StackPages)' /\ CodeDone(p)' /\ DataDone(p)'
    <3>1. Stays(p)' => Stays(p)
      BY <1>2, <1>13, <1>16 DEF Stays, Making, me
    <3>2. \A kind \in Kinds : phys'[p][kind] = phys[p][kind]
      BY <1>1
    <3> QED
      BY <1>18, <2>1, <2>2, <3>1, <3>2, DoneSame
  <2> QED
    BY <1>16, <1>18, <2>2 DEF WalkOK, Making
<1>21. WindowOK'
  <2>1. \A v \in V!Low : /\ pte'[v] \in {0, v} /\ tlb'[v] \in {0, v}
                         /\ pte'[v] = v \/ \E p \in Procs : v \in Own(p)'
    BY <1>11, <1>18, UnmapLow
  <2>2. "code" \in Windows /\ "data" \in Windows /\ \A x \in Windows : x \in {"code", "data"}
    BY DEF Windows
  <2>3. \A x \in Windows : held'[x].page = 0
    BY <1>9, <1>10, <1>12, <2>2
  <2>4. boot'.pc \notin Finished =>
          \A x \in Windows : phys'[boot'.p][x] \notin V!Low
    <3>1. SUFFICES ASSUME boot.p < NProcs, NEW x \in Windows
                   PROVE  phys'[boot'.p][x] \notin V!Low
      BY <1>15, <1>16
    <3>2. boot'.p > boot.p
      BY <1>4, <1>5, <1>6, <3>1
    <3>3. phys[boot'.p]["code"] = 0 /\ phys[boot'.p]["data"] = 0
      BY <1>7, <3>2 DEF Inv, PhaseOK, Ahead, me
    <3>4. 0 \notin V!Low
      BY DEF V!Low
    <3>5. phys'[boot'.p][x] = 0
      BY <1>1, <2>2, <3>3
    <3> QED
      BY <3>4, <3>5
  <2>5. ASSUME NEW v \in V!Slots PROVE pte'[v] = 0
    <3>1. v \in V!Pages /\ v # 0
      BY Sizes DEF V!Pages
    <3>2. pte[v] # 0 => \E x \in Windows : held[x].page = v
      BY DEF Inv, WindowOK
    <3> QED
      BY <1>9, <1>10, <1>12, <2>2, <3>1, <3>2
  <2> QED
    BY <1>16, <2>1, <2>2, <2>3, <2>4, <2>5 DEF WindowOK, me
<1>22. FreshOK'
  <2>1. Done' = Done \cup {boot.p}
    <3>1. CASE boot.p < NProcs
      <4>1. Done' = 1 .. (boot.p + 1) - 1
        BY <1>5, <1>15, <1>16, <3>1 DEF Done, me
      <4>2. \A n \in Nat \ {0} : 1 .. (n + 1) - 1 = (1 .. n - 1) \cup {n}
        OBVIOUS
      <4>3. boot.p \in Nat \ {0}
        BY <1>4
      <4> QED
        BY <1>3, <4>1, <4>2, <4>3
    <3>2. CASE ~ (boot.p < NProcs)
      <4>1. Done' = 1 .. NProcs
        BY <1>15, <1>16, <3>2 DEF Done, Procs
      <4>2. boot.p = NProcs
        BY <1>4, <3>2
      <4>3. \A n \in Nat \ {0} : 1 .. n = (1 .. n - 1) \cup {n}
        OBVIOUS
      <4>4. boot.p \in Nat \ {0}
        BY <1>4
      <4> QED
        BY <1>3, <4>1, <4>2, <4>3, <4>4
    <3> QED
      BY <3>1, <3>2
  <2>2. AllSoFar' => AllSoFar /\ boot.ok
    BY <1>3, <1>13, <2>1 DEF AllSoFar
  <2>3. boot.ok => \A v \in V!Slots : tlb[v] = 0
    BY <1>2 DEF Inv, FreshOK
  <2>4. AllSoFar =>
        /\ \A p \in Done : /\ content[phys[p]["code"]] = <<"code", p>>
                           /\ content[phys[p]["data"]] = <<"data", p>>
        /\ content[phys[boot.p]["code"]] = <<"code", boot.p>>
        /\ content[phys[boot.p]["data"]] = <<"data", boot.p>>
    BY <1>2 DEF Inv, FreshOK, me
  <2>5. AllSoFar' => \A p \in Done' : /\ content'[phys'[p]["code"]] = <<"code", p>>
                                      /\ content'[phys'[p]["data"]] = <<"data", p>>
    BY <1>1, <2>1, <2>2, <2>4
  <2>6. AllSoFar' => \A v \in V!Slots : tlb'[v] = 0
    BY <1>12, <2>2, <2>3
  <2> QED
    BY <1>16, <2>5, <2>6 DEF FreshOK
<1>23. SysOK'
  BY <1>1, SysIdle
<1> QED
  BY <1>14, <1>17, <1>18, <1>19, <1>20, <1>21, <1>22, <1>23 DEF Inv

(* CheckMade: the demo is started if all processes were made.              *)
LEMMA InvCheckMade ==
    ASSUME Inv, CheckMade
    PROVE  Inv'
<1>1. /\ boot.pc = "check" /\ Goto(IF made = Procs THEN "running" ELSE "paused")
      /\ UNCHANGED <<free, content, pde, table, dir, phys, made, sys, pte, tlb, held>>
  BY DEF CheckMade, At, memory, window
<1>2. /\ boot'.pc = IF made = Procs THEN "running" ELSE "paused"
      /\ boot'.p = boot.p /\ boot'.ok = boot.ok
      /\ boot' \in [pc : Places, p : Procs, k : Nat, ok : BOOLEAN]
  <2>1. (IF made = Procs THEN "running" ELSE "paused") \in Places /\ TypeOK
    BY DEF Places, Finished, Inv
  <2> QED
    BY <1>1, <2>1, GotoFacts
<1>3. /\ boot.pc \in Finished /\ boot'.pc \in Finished
      /\ boot.pc \notin Leaving \cup BeforeDir \cup Mapping \cup {"hangs"}
      /\ boot'.pc \notin Leaving \cup BeforeDir \cup Mapping \cup {"hangs"}
      /\ boot.pc \notin HasCodeWindow \cup HasDataWindow
      /\ boot'.pc \notin HasCodeWindow \cup HasDataWindow \cup CodeWritten \cup DataWritten
  BY <1>1, <1>2 DEF BeforeDir, Leaving, Finished, Mapping, HasCodeWindow, HasDataWindow,
                    CodeWritten, DataWritten
<1>4. boot.ok = TRUE /\ boot.p \in Procs
  BY <1>3, BootFacts
<1>5. TypeOK'
  BY <1>1, <1>2 DEF Inv, TypeOK
<1>6. PhaseOK'
  <2> USE DEF me
  <2>1. ASSUME NEW p \in Procs
        PROVE  /\ Ahead(p, BeforeDir)' => Ahead(p, BeforeDir)
               /\ Ahead(p, {"alloc code"})' => Ahead(p, {"alloc code"})
               /\ Ahead(p, {"alloc code", "alloc data"})' => Ahead(p, {"alloc code", "alloc data"})
               /\ Ahead(p, BeforeDir \cup {"alloc stack"})' => Ahead(p, BeforeDir \cup {"alloc stack"})
    <3>1. boot'.pc \notin {"alloc code", "alloc data", "alloc stack"} \cup BeforeDir
      BY <1>3 DEF BeforeDir, Mapping
    <3> QED
      BY <1>2, <3>1 DEF Ahead, Making
  <2>2. ASSUME NEW p \in Procs
        PROVE  /\ Ahead(p, BeforeDir) => dir[p] = 0
               /\ Ahead(p, {"alloc code"}) => phys[p]["code"] = 0
               /\ Ahead(p, {"alloc code", "alloc data"}) => phys[p]["data"] = 0
               /\ Ahead(p, BeforeDir \cup {"alloc stack"}) => phys[p]["stack"] = 0
               /\ p \in made => \A kind \in Kinds : phys[p][kind] # 0
    BY DEF Inv, PhaseOK
  <2>3. /\ phys[boot.p]["code"] # 0 /\ phys[boot.p]["data"] # 0 /\ boot.p = NProcs
    BY <1>1, <1>3 DEF Inv, PhaseOK
  <2>4. boot'.pc = "running" => made = Procs
    BY <1>2
  <2>5. boot'.pc \notin {"stack", "code", "data"}
    BY <1>3 DEF Mapping
  <2>6. /\ dir' = dir /\ phys' = phys /\ made' = made /\ boot'.p = boot.p /\ boot'.ok = TRUE
        /\ boot'.pc \notin Leaving /\ boot'.pc \in Finished
    BY <1>1, <1>2, <1>3, <1>4
  <2> QED
    BY <2>1, <2>2, <2>3, <2>4, <2>5, <2>6 DEF PhaseOK
<1>7. FramesOK' /\ \A p \in Procs : Own(p)' = Own(p) /\ (Private(p)' <=> Private(p))
  BY <1>1, FramesKeep
<1>8. boot'.pc \notin {"stack", "code", "data", "alloc stack"}
  BY <1>3 DEF Mapping
<1>9. TablesOK'
  BY <1>1, <1>8, TablesKeep
<1>10. WalkOK'
  <2>1. \A p, page : Walk(p, page)' = Walk(p, page)
    BY <1>1, WalkSame
  <2>2. ASSUME NEW p \in Procs, Private(p)
        PROVE  /\ \A page \in 0 .. UserPages - 1 : Walk(p, page)' \in {0} \cup Own(p)'
               /\ Stays(p)' => StackDone(p, StackPages)' /\ CodeDone(p)' /\ DataDone(p)'
    <3>1. Stays(p)' => Stays(p)
      BY <1>1, <1>3 DEF Stays, Making, me
    <3>2. \A kind \in Kinds : phys'[p][kind] = phys[p][kind]
      BY <1>1
    <3> QED
      BY <1>7, <2>1, <2>2, <3>1, <3>2, DoneSame
  <2> QED
    BY <1>7, <1>8, <2>2 DEF WalkOK, Making
<1>11. WindowOK'
  <2>1. phys' = phys /\ pte' = pte /\ tlb' = tlb /\ held' = held /\ boot'.p = boot.p
    BY <1>1, <1>2
  <2> QED
    BY <1>3, <1>7, <2>1 DEF Inv, WindowOK, me
<1>12. FreshOK'
  <2>1. Done' = Done
    BY <1>3 DEF Done
  <2>2. AllSoFar' <=> AllSoFar
    BY <1>1, <2>1 DEF AllSoFar
  <2>3. AllSoFar =>
          /\ \A v \in V!Slots : tlb[v] \in {0, pte[v]}
          /\ \A p \in Done : /\ content[phys[p]["code"]] = <<"code", p>>
                             /\ content[phys[p]["data"]] = <<"data", p>>
    BY <1>4 DEF Inv, FreshOK
  <2> QED
    BY <1>1, <1>3, <2>1, <2>2, <2>3 DEF FreshOK
<1>13. SysOK'
  BY <1>1, SysIdle
<1> QED
  BY <1>5, <1>6, <1>7, <1>9, <1>10, <1>11, <1>12, <1>13 DEF Inv

(* A step that neither maps nor writes anything                            *)
LEMMA QuietStep ==
    ASSUME Inv, UNCHANGED <<free, content, pde, table, dir, phys, boot, made, pte, held>>,
           tlb' \in [V!Pages -> FrameOrNone],
           \A v \in V!Pages : tlb'[v] \in {0, tlb[v]},
           sys' \in [pc : {"idle", "copy", "SUCCESS", "EINVAL", "EFAULT"}, p : Procs,
                     src : Nat, len : Nat, dest : Seq(Int \X Int)],
           SysOK'
    PROVE  Inv'
<1>1. TypeOK'
  BY DEF Inv, TypeOK
<1>2. PhaseOK'
  BY DEF Inv, PhaseOK, Ahead, Making, me
<1>3. FramesOK' /\ \A p \in Procs : Own(p)' = Own(p) /\ (Private(p)' <=> Private(p))
  BY FramesKeep
<1>4. TablesOK'
  <2>1. CASE boot.pc # "alloc stack"
    BY <2>1, TablesKeep
  <2>2. CASE boot.pc = "alloc stack"
    <3>1. /\ Unshared(pde)
          /\ \A p \in Procs : Private(p) =>
               /\ \A q \in Procs : dir[q] = dir[p] => q = p
               /\ \A i \in Tabs : pde[dir[p]][i] # Junk
          /\ \A i \in Tabs : pde[dir[boot.p]][i] = 0
      BY <2>2 DEF Inv, TablesOK, me
    <3>2. pde' = pde /\ dir' = dir /\ boot' = boot
      OBVIOUS
    <3>3. Unshared(pde')
      BY <3>1, <3>2
    <3>4. \A p \in Procs : Private(p)' =>
               /\ \A q \in Procs : dir'[q] = dir'[p] => q = p
               /\ \A i \in Tabs : pde'[dir'[p]][i] # Junk
      BY <1>3, <3>1, <3>2
    <3>5. \A i \in Tabs : pde'[dir'[boot'.p]][i] = 0
      BY <3>1, <3>2
    <3> QED
      BY <3>3, <3>4, <3>5 DEF TablesOK, me
  <2> QED
    BY <2>1, <2>2
<1>5. WalkOK'
  <2>1. \A p, page : Walk(p, page)' = Walk(p, page)
    BY WalkSame
  <2>2. \A p \in Procs : Stays(p)' <=> Stays(p)
    BY DEF Stays, Making, me
  <2>3. \A p \in Procs : \A places : Making(p, places)' <=> Making(p, places)
    BY DEF Making, me
  <2> QED
    BY <1>3, <2>1, <2>2, <2>3 DEF Inv, WalkOK, StackDone, CodeDone, DataDone
<1>6. WindowOK'
  <2>1. \A v \in V!Low : tlb'[v] \in {0, v}
    BY DEF Inv, WindowOK, V!Pages
  <2> QED
    BY <1>3, <2>1 DEF Inv, WindowOK, me
<1>7. FreshOK'
  <2>1. Done' = Done
    BY DEF Done, me
  <2>2. AllSoFar' <=> AllSoFar
    BY <2>1 DEF AllSoFar
  <2>3. \A v \in V!Slots : tlb'[v] \in {0, tlb[v]}
    BY DEF V!Pages
  <2> QED
    BY <2>1, <2>2, <2>3 DEF Inv, FreshOK, me
<1> QED
  BY <1>1, <1>2, <1>3, <1>4, <1>5, <1>6, <1>7 DEF Inv

LEMMA InvEvict ==
    ASSUME Inv, Evict
    PROVE  Inv'
<1>1. PICK v \in V!Pages : tlb' = [tlb EXCEPT ![v] = 0]
  BY DEF Evict, V!Evict
<1>2. /\ UNCHANGED <<free, content, pde, table, dir, phys, boot, made, pte, held, sys>>
      /\ boot.pc # "running"
  BY DEF Evict, V!Evict, memory
<1>3. /\ tlb \in [V!Pages -> FrameOrNone] /\ 0 \in FrameOrNone
      /\ sys \in [pc : {"idle", "copy", "SUCCESS", "EINVAL", "EFAULT"}, p : Procs,
                  src : Nat, len : Nat, dest : Seq(Int \X Int)]
  BY DEF Inv, TypeOK, FrameOrNone
<1>4. tlb' \in [V!Pages -> FrameOrNone] /\ \A w \in V!Pages : tlb'[w] \in {0, tlb[w]}
  BY <1>1, <1>3
<1>5. SysOK'
  BY <1>2, SysIdle
<1>6. sys' \in [pc : {"idle", "copy", "SUCCESS", "EINVAL", "EFAULT"}, p : Procs,
                src : Nat, len : Nat, dest : Seq(Int \X Int)]
  BY <1>2, <1>3
<1> QED
  BY <1>2, <1>4, <1>5, <1>6, QuietStep

(* The limit of a copy leaves room for the NUL.                            *)
LEMMA LimitFacts ==
    ASSUME Inv
    PROVE  limit \in Nat /\ limit <= BufLen - 1 /\ copied \in Nat
<1>1. sys.len \in Nat /\ sys.dest \in Seq(Int \X Int)
  BY DEF Inv, TypeOK
<1>2. BufLen - 1 \in Nat
  BY Sizes
<1>3. {sys.len, BufLen - 1} \in SUBSET Nat /\ {sys.len, BufLen - 1} # {}
  BY <1>1, <1>2
<1>4. /\ Min({sys.len, BufLen - 1}) \in {sys.len, BufLen - 1}
      /\ \A y \in {sys.len, BufLen - 1} : Min({sys.len, BufLen - 1}) <= y
  BY <1>3, LeastElement
<1>5. Len(sys.dest) \in Nat
  BY <1>1
<1> QED
  BY <1>1, <1>2, <1>4, <1>5 DEF limit, copied

(* What the user half of a directory has for a page is a frame, if any.    *)
LEMMA WalkType ==
    ASSUME Inv, NEW p \in Procs, NEW page \in Nat
    PROVE  Walk(p, page) \in FrameOrNone
<1>1. CASE page < UserPages
  <2>1. page \in 0 .. UserPages - 1
    BY <1>1, Sizes
  <2>2. page \div TableSize \in Tabs /\ page % TableSize \in 0 .. TableSize - 1
    BY <2>1, PlaceOfPage DEF TabOf, EntryOf
  <2>3. dir[p] \in Dirs
    BY Sizes DEF Inv, TypeOK, Dirs
  <2> DEFINE t == pde[dir[p]][page \div TableSize]
  <2>4. t \in FrameOrNone
    BY <2>2, <2>3 DEF Inv, TypeOK
  <2>5. CASE t = 0
    BY <2>5 DEF Walk, FrameOrNone
  <2>6. CASE t # 0
    <3>1. t \in Frames
      BY <2>4, <2>6 DEF FrameOrNone
    <3>2. table[t][page % TableSize] \in FrameOrNone
      <4> HIDE DEF t
      <4>1. table \in [Frames -> [0 .. TableSize - 1 -> FrameOrNone]]
        BY DEF Inv, TypeOK
      <4>2. table[t] \in [0 .. TableSize - 1 -> FrameOrNone]
        BY <3>1, <4>1
      <4> QED
        BY <2>2, <4>2
    <3> QED
      BY <1>1, <2>6, <3>2 DEF Walk
  <2> QED
    BY <2>5, <2>6
<1>2. CASE ~ (page < UserPages)
  BY <1>2 DEF Walk, FrameOrNone
<1> QED
  BY <1>1, <1>2

(* user_addr_accessible is whether the walk finds a frame: above the user  *)
(* half there is none.                                                     *)
LEMMA AccessibleIs ==
    ASSUME Inv, NEW p \in Procs, NEW addr \in Nat
    PROVE  /\ user_addr_accessible(p, addr) <=> Walk(p, addr \div PageSize) # 0
           /\ Byte(p, addr) \in Int \X Int
<1>1. PageSize \in Nat \ {0} /\ UserPages \in Nat
  BY Sizes
<1>2. addr \div PageSize < UserPages <=> addr < UserPages * PageSize
  BY <1>1, DivBelow
<1>3. addr \div PageSize \in Nat /\ addr % PageSize \in 0 .. PageSize - 1
  BY <1>1, DivMod
<1>4. Walk(p, addr \div PageSize) # 0 => addr \div PageSize < UserPages
  BY DEF Walk
<1>5. Walk(p, addr \div PageSize) \in FrameOrNone
  BY <1>3, WalkType
<1>6. Walk(p, addr \div PageSize) \in Int
  <2>1. \A x \in FrameOrNone : x \in Int
    BY Sizes DEF FrameOrNone
  <2> QED
    BY <1>5, <2>1
<1>7. addr % PageSize \in Int
  BY <1>1, <1>3
<1>8. Byte(p, addr) = NUL \/ Byte(p, addr) = <<Walk(p, addr \div PageSize), addr % PageSize>>
  BY DEF Byte
<1>9. NUL \in Int \X Int
  BY DEF NUL
<1>10. Byte(p, addr) \in Int \X Int
  BY <1>6, <1>7, <1>8, <1>9
<1> QED
  BY <1>2, <1>4, <1>10 DEF user_addr_accessible

(* The memory that a call looks at does not change during it.              *)
LEMMA ReadSame ==
    ASSUME UNCHANGED <<content, pde, table, dir>>
    PROVE  \A p, addr : Byte(p, addr)' = Byte(p, addr) /\ Walk(p, addr)' = Walk(p, addr)
BY DEF Byte, Walk

SysType == [pc : {"idle", "copy", "SUCCESS", "EINVAL", "EFAULT"}, p : Procs,
            src : Nat, len : Nat, dest : Seq(Int \X Int)]
(* The steps of a system call change only what the call knows.             *)
LEMMA CallStep ==
    ASSUME Inv, UNCHANGED <<free, content, pde, table, dir, phys, boot, made, pte, tlb, held>>,
           sys' \in SysType, SysOK'
    PROVE  Inv'
<1>1. tlb' \in [V!Pages -> FrameOrNone] /\ \A v \in V!Pages : tlb'[v] \in {0, tlb[v]}
  BY DEF Inv, TypeOK
<1> QED
  BY <1>1, QuietStep DEF SysType

LEMMA InvStutter ==
    ASSUME Inv, UNCHANGED vars
    PROVE  Inv'
<1>1. UNCHANGED <<free, content, pde, table, dir, phys, boot, made, pte, tlb, held, sys>>
  BY DEF vars, memory, window
<1>2. sys' \in SysType
  BY <1>1 DEF Inv, TypeOK, SysType
<1>3. \A p, addr : Byte(p, addr)' = Byte(p, addr) /\ Walk(p, addr)' = Walk(p, addr)
  BY <1>1, ReadSame
<1>4. sys' = sys /\ boot' = boot /\ limit' = limit /\ copied' = copied
  BY <1>1 DEF limit, copied
<1>5. \A k : (Readable(k)' <=> Readable(k)) /\ (Unreachable(k)' <=> Unreachable(k))
  BY <1>3, <1>4 DEF Readable, Unreachable
<1>6. SysOK'
  BY <1>3, <1>4, <1>5 DEF Inv, SysOK
<1> QED
  BY <1>1, <1>2, <1>6, CallStep

(* sys_print_string and SysReturn                                          *)
LEMMA InvCall ==
    ASSUME Inv, sys_print_string \/ SysReturn
    PROVE  Inv'
<1>1. UNCHANGED <<free, content, pde, table, dir, phys, boot, made, pte, tlb, held>>
  BY DEF sys_print_string, SysReturn, memory, window
<1>2. /\ sys' \in SysType /\ sys'.pc \in {"idle", "copy", "EINVAL"} /\ sys'.dest = <<>>
      /\ sys'.pc # "idle" => boot.pc = "running"
  <2>1. <<>> \in Seq(Int \X Int)
    OBVIOUS
  <2>2. CASE SysReturn
    <3>1. sys' = [pc |-> "idle", p |-> 1, src |-> 0, len |-> 0, dest |-> <<>>]
      BY <2>2 DEF SysReturn, NoCall
    <3>2. 1 \in Procs /\ 0 \in Nat
      BY Sizes DEF Procs
    <3> QED
      BY <2>1, <3>1, <3>2 DEF SysType
  <2>3. CASE sys_print_string
    <3>1. PICK p \in Procs, src \in 0 .. (UserPages + 1) * PageSize - 1, len \in 0 .. MaxLen :
            sys' = [pc |-> IF src = 0 \/ len = 0 THEN "EINVAL" ELSE "copy",
                    p |-> p, src |-> src, len |-> len, dest |-> <<>>]
      BY <2>3 DEF sys_print_string
    <3>2. src \in Nat /\ len \in Nat /\ boot.pc = "running"
      BY <2>3 DEF sys_print_string, At
    <3> QED
      BY <2>1, <3>1, <3>2 DEF SysType
  <2> QED
    BY <2>2, <2>3
<1>3. SysOK'
  <2>1. Len(sys'.dest) = 0
    BY <1>2
  <2>2. limit' \in Nat
    <3>1. sys'.len \in Nat /\ BufLen - 1 \in Nat
      BY <1>2, Sizes DEF SysType
    <3>2. {sys'.len, BufLen - 1} \in SUBSET Nat /\ {sys'.len, BufLen - 1} # {}
      BY <3>1
    <3>3. Min({sys'.len, BufLen - 1}) \in {sys'.len, BufLen - 1}
      BY <3>2, LeastElement
    <3> QED
      BY <3>1, <3>3 DEF limit
  <2>3. copied' <= limit' /\ 0 .. copied' - 1 = {} /\ Len(sys'.dest) <= BufLen
    <3>1. copied' = 0
      BY <2>1 DEF copied
    <3> QED
      BY <2>1, <2>2, <3>1, Sizes
  <2>4. boot' = boot
    BY <1>1
  <2> QED
    BY <1>2, <2>3, <2>4 DEF SysOK
<1> QED
  BY <1>1, <1>2, <1>3, CallStep

(* CopyByte and copy_user_string                                           *)
LEMMA InvCopy ==
    ASSUME Inv, CopyByte \/ copy_user_string
    PROVE  Inv'
<1> DEFINE addr == sys.src + copied
           c == Byte(sys.p, addr)
<1>1. UNCHANGED <<free, content, pde, table, dir, phys, boot, made, pte, tlb, held>>
  BY DEF CopyByte, copy_user_string, memory, window
<1>2. limit \in Nat /\ limit <= BufLen - 1 /\ copied \in Nat /\ BufLen \in Nat
  BY LimitFacts, Sizes
<1>3. sys \in SysType
  BY DEF Inv, TypeOK, SysType
<1>4. sys.pc = "copy" /\ sys.p \in Procs /\ sys.src \in Nat /\ sys.dest \in Seq(Int \X Int)
  BY <1>3 DEF CopyByte, copy_user_string, SysType
<1>5. addr \in Nat
  BY <1>2, <1>4
<1>6. /\ boot.pc = "running" /\ copied <= limit
      /\ \A k \in 0 .. copied - 1 : Readable(k)
  BY <1>4 DEF Inv, SysOK
<1>7. Unreachable(copied) <=> ~ user_addr_accessible(sys.p, addr)
  BY <1>4, <1>5, AccessibleIs DEF Unreachable
<1>8. c \in Int \X Int
  BY <1>4, <1>5, AccessibleIs
<1>9. \A p, a : Byte(p, a)' = Byte(p, a) /\ Walk(p, a)' = Walk(p, a)
  BY <1>1, ReadSame
<1>10. Byte(sys.p, sys.src + copied) = c
  OBVIOUS
<1> HIDE DEF addr, c
(* What the steps have in common                                           *)
<1>11. ASSUME sys'.p = sys.p, sys'.src = sys.src, sys'.len = sys.len
       PROVE  /\ limit' = limit
              /\ \A k : (Readable(k)' <=> Readable(k)) /\ (Unreachable(k)' <=> Unreachable(k))
              /\ \A k : Byte(sys.p, sys.src + k)' = Byte(sys.p, sys.src + k)
  BY <1>9, <1>11 DEF limit, Readable, Unreachable
<1>12. CASE copied < limit /\ user_addr_accessible(sys.p, addr)
            /\ sys' = [sys EXCEPT !.dest = Append(sys.dest, c),
                                  !.pc = IF c = NUL THEN "SUCCESS" ELSE "copy"]
  <2> DEFINE pc == IF c = NUL THEN "SUCCESS" ELSE "copy"
             dest == Append(sys.dest, c)
  <2>1. /\ pc \in {"idle", "copy", "SUCCESS", "EINVAL", "EFAULT"}
        /\ dest \in Seq(Int \X Int) /\ Len(dest) = copied + 1
    BY <1>4, <1>8 DEF copied
  <2>2. sys' = [sys EXCEPT !.dest = dest, !.pc = pc]
    BY <1>12
  <2> HIDE DEF pc, dest
  <2>3. /\ sys'.p = sys.p /\ sys'.src = sys.src /\ sys'.len = sys.len
        /\ sys'.pc = pc /\ sys'.dest = dest /\ sys' \in SysType
    BY <1>3, <2>1, <2>2, Zenon DEF SysType
  <2>4. /\ limit' = limit
        /\ \A k : (Readable(k)' <=> Readable(k)) /\ (Unreachable(k)' <=> Unreachable(k))
        /\ \A k : Byte(sys.p, sys.src + k)' = Byte(sys.p, sys.src + k)
    BY <1>11, <2>3
  <2>5. copied' = copied + 1 /\ boot' = boot
    BY <1>1, <2>1, <2>3 DEF copied
  <2>6. copied + 1 <= limit /\ Len(sys'.dest) <= BufLen
    BY <1>2, <1>12, <2>1, <2>3
  <2>7. ~ Unreachable(copied)
    BY <1>7, <1>12
  <2>8. CASE c = NUL
    <3>1. PICK n \in Nat : n = copied
      BY <1>2
    <3>2. n \in 0 .. limit' - 1
      BY <1>2, <1>12, <2>4, <3>1
    <3>3. ~ Unreachable(n)'
      BY <2>4, <2>7, <3>1
    <3>4. Byte(sys.p, sys.src + n)' = NUL
      BY <1>10, <2>4, <2>8, <3>1
    <3>5. \A j \in 0 .. n - 1 : Readable(j)'
      BY <1>6, <2>4, <3>1
    <3>6. sys'.pc = "SUCCESS"
      BY <2>3, <2>8 DEF pc
    <3>7. SysOK'
      BY <1>6, <2>5, <2>6, <3>2, <3>3, <3>4, <3>5, <3>6 DEF SysOK
    <3> QED
      BY <1>1, <2>3, <3>7, CallStep
  <2>9. CASE c # NUL
    <3>1. Readable(copied)
      BY <1>10, <2>7, <2>9 DEF Readable
    <3>2. \A k \in 0 .. (copied + 1) - 1 : k = copied \/ k \in 0 .. copied - 1
      BY <1>2
    <3>3. \A k \in 0 .. copied' - 1 : Readable(k)'
      BY <1>6, <2>4, <2>5, <3>1, <3>2
    <3>4. sys'.pc = "copy"
      BY <2>3, <2>9 DEF pc
    <3>5. SysOK'
      BY <1>6, <2>4, <2>5, <2>6, <3>3, <3>4 DEF SysOK
    <3> QED
      BY <1>1, <2>3, <3>5, CallStep
  <2> QED
    BY <2>8, <2>9
<1>13. CASE copied < limit /\ ~ user_addr_accessible(sys.p, addr)
            /\ sys' = [sys EXCEPT !.pc = "EFAULT"]
  <2>1. /\ sys'.p = sys.p /\ sys'.src = sys.src /\ sys'.len = sys.len
        /\ sys'.pc = "EFAULT" /\ sys'.dest = sys.dest /\ sys' \in SysType
    BY <1>3, <1>13 DEF SysType
  <2>2. /\ limit' = limit
        /\ \A k : (Readable(k)' <=> Readable(k)) /\ (Unreachable(k)' <=> Unreachable(k))
    BY <1>11, <2>1
  <2>3. copied' = copied /\ boot' = boot
    BY <1>1, <2>1 DEF copied
  <2>4. Unreachable(copied)
    BY <1>7, <1>13
  <2>5. Unreachable(copied)'
    BY <1>9, <2>1, <2>3, <2>4 DEF Unreachable
  <2>6. Len(sys'.dest) <= BufLen
    BY <2>1 DEF Inv, SysOK
  <2>7. SysOK'
    BY <1>6, <1>13, <2>1, <2>2, <2>3, <2>5, <2>6 DEF SysOK
  <2> QED
    BY <1>1, <2>1, <2>7, CallStep
<1>14. CASE copied = limit
            /\ sys' = [sys EXCEPT !.dest = Append(sys.dest, NUL), !.pc = "SUCCESS"]
  <2> DEFINE dest == Append(sys.dest, NUL)
  <2>1. dest \in Seq(Int \X Int) /\ Len(dest) = copied + 1
    BY <1>4 DEF copied, NUL
  <2>2. sys' = [sys EXCEPT !.dest = dest, !.pc = "SUCCESS"]
    BY <1>14
  <2> HIDE DEF dest
  <2>3. /\ sys'.p = sys.p /\ sys'.src = sys.src /\ sys'.len = sys.len
        /\ sys'.pc = "SUCCESS" /\ sys'.dest = dest /\ sys' \in SysType
    BY <1>3, <2>1, <2>2, Zenon DEF SysType
  <2>4. /\ limit' = limit
        /\ \A k : Readable(k)' <=> Readable(k)
    BY <1>11, <2>3
  <2>5. Len(sys'.dest) <= BufLen /\ boot' = boot
    BY <1>1, <1>2, <1>14, <2>1, <2>3
  <2>6. \A k \in 0 .. limit' - 1 : Readable(k)'
    BY <1>6, <1>14, <2>4
  <2>7. SysOK'
    BY <1>6, <2>3, <2>5, <2>6 DEF SysOK
  <2> QED
    BY <1>1, <2>3, <2>7, CallStep
<1> QED
  BY <1>12, <1>13, <1>14 DEF CopyByte, copy_user_string, addr, c

LEMMA InvNext == Inv /\ [Next]_vars => Inv'
<1> SUFFICES ASSUME Inv, [Next]_vars PROVE Inv'
  OBVIOUS
<1>1. CASE UNCHANGED vars
  BY <1>1, InvStutter
<1>2. CASE AllocCode \/ AllocData
  BY <1>2, InvAllocPage
<1>3. CASE MapCodePage \/ MapDataPage
  BY <1>3, InvMapWindow
<1>4. CASE WriteCode \/ WriteData
  BY <1>4, InvWritePage
<1>5. CASE AllocProc
  BY <1>5, InvAllocProc
<1>6. CASE AllocDir
  BY <1>6, InvAllocDir
<1>7. CASE AllocStack
  BY <1>7, InvAllocStack
<1>8. CASE MapStack \/ MapCode \/ MapData
  BY <1>8, InvMapPage
<1>9. CASE UnmapCode
  BY <1>9, InvUnmapCode
<1>10. CASE Return
  BY <1>10, InvReturn
<1>11. CASE CheckMade
  BY <1>11, InvCheckMade
<1>12. CASE sys_print_string \/ SysReturn
  BY <1>12, InvCall
<1>13. CASE CopyByte \/ copy_user_string
  BY <1>13, InvCopy
<1>14. CASE Evict
  BY <1>14, InvEvict
<1> QED
  BY <1>1, <1>2, <1>3, <1>4, <1>5, <1>6, <1>7, <1>8, <1>9, <1>10, <1>11, <1>12, <1>13, <1>14
     DEF Next

LEMMA Invariant == Spec => []Inv
BY InvInit, InvNext, PTL DEF Spec
-----------------------------------------------------------------------------
LEMMA ImpliesRunsOwnPages == Inv => RunsOwnPages
<1> SUFFICES ASSUME Inv, boot.pc = "running", NEW p \in Procs, Private(p)
             PROVE  /\ content[Walk(p, CodePage)] = <<"code", p>>
                    /\ content[Walk(p, DataPage)] = <<"data", p>>
                    /\ \A k \in 0 .. StackPages - 1 : Walk(p, StackPage + k) = phys[p]["stack"] + k
  BY DEF RunsOwnPages, At
<1>1. made = Procs /\ boot.pc \in Finished
  BY DEF Inv, PhaseOK, Finished
<1>2. Done = Procs /\ AllSoFar /\ Stays(p)
  BY <1>1 DEF Done, AllSoFar, Stays
<1>3. content[phys[p]["code"]] = <<"code", p>> /\ content[phys[p]["data"]] = <<"data", p>>
  BY <1>2 DEF Inv, FreshOK
<1>4. StackDone(p, StackPages) /\ CodeDone(p) /\ DataDone(p)
  BY <1>2 DEF Inv, WalkOK
<1> QED
  BY <1>3, <1>4 DEF StackDone, CodeDone, DataDone

(* The processes of the demo run in the address spaces that were made for  *)
(* them, for every amount and every fragmentation of memory: if an         *)
(* allocation failed on the way, the demo is not started or the process    *)
(* has no directory of its own.                                            *)
THEOREM RunsOwn == Spec => []RunsOwnPages
BY Invariant, ImpliesRunsOwnPages, PTL

(* The tables of a private directory                                       *)
LEMMA TablesAre ==
    ASSUME Inv, NEW p \in Procs, Private(p), NEW f \in Tables(p)
    PROVE  f \in Frames /\ IsTable(f)
<1>1. PICK i \in Tabs : f = pde[dir[p]][i]
  BY DEF Tables, Tabs
<1>2. f # 0 /\ f # Junk
  BY <1>1 DEF Tables, Inv, TablesOK
<1>3. dir[p] \in Dirs
  BY Sizes DEF Inv, TypeOK, Dirs
<1>4. f \in Frames
  BY <1>1, <1>2, <1>3 DEF Inv, TypeOK, FrameOrNone
<1> QED
  BY <1>1, <1>2, <1>3, <1>4 DEF IsTable

LEMMA ImpliesIsolated == Inv => Isolated
<1> SUFFICES ASSUME Inv, NEW p \in Procs, Private(p)
             PROVE  /\ \A page \in 0 .. UserPages - 1 : Walk(p, page) \in {0} \cup Own(p)
                    /\ \A q \in Procs :
                         /\ q # p => Own(p) \cap Own(q) = {}
                         /\ Private(q) => Own(p) \cap ({dir[q], dir[q] + 1} \cup Tables(q)) = {}
  BY DEF Isolated
<1>1. \A page \in 0 .. UserPages - 1 : Walk(p, page) \in {0} \cup Own(p)
  BY DEF Inv, WalkOK
<1>2. ASSUME NEW q \in Procs
      PROVE  /\ q # p => Own(p) \cap Own(q) = {}
             /\ Private(q) => {dir[q], dir[q] + 1} \cap Own(p) = {}
  BY DEF Inv, FramesOK
<1>3. ASSUME NEW q \in Procs, Private(q), NEW f \in Tables(q) PROVE f \notin Own(p)
  <2>1. f \in Frames /\ IsTable(f)
    BY <1>3, TablesAre
  <2> QED
    BY <2>1 DEF Inv, FramesOK
<1> QED
  BY <1>1, <1>2, <1>3

(* Isolation of the address spaces, at every step of their making and      *)
(* after it                                                                *)
THEOREM SpacesIsolated == Spec => []Isolated
BY Invariant, ImpliesIsolated, PTL

LEMMA ImpliesKernelMemoryMapped == Inv => KernelMemoryMapped
<1> SUFFICES ASSUME Inv, NEW p \in Procs, Private(p),
                    NEW f \in {dir[p], dir[p] + 1} \cup Tables(p)
             PROVE  pte[f] = f
  BY DEF KernelMemoryMapped
<1>1. f \in V!Low /\ \A q \in Procs : f \notin Own(q)
  <2>1. CASE f \in {dir[p], dir[p] + 1}
    BY <2>1 DEF Inv, FramesOK
  <2>2. CASE f \in Tables(p)
    <3>1. f \in Frames /\ IsTable(f)
      BY <2>2, TablesAre
    <3> QED
      BY <3>1 DEF Inv, FramesOK
  <2> QED
    BY <2>1, <2>2
<1> QED
  BY <1>1 DEF Inv, WindowOK

(* The kernel never unmaps a directory or a page table it works on, though *)
(* kunmap clears whatever entry it is given.                               *)
THEOREM KernelKeepsItsMemory == Spec => []KernelMemoryMapped
BY Invariant, ImpliesKernelMemoryMapped, PTL

LEMMA ImpliesWindowClean == Inv => WindowClean
<1> SUFFICES ASSUME Inv PROVE WindowClean
  OBVIOUS
<1>1. ASSUME boot.pc \in {"alloc code", "check", "running", "paused"}, NEW v \in V!Slots
      PROVE  pte[v] = 0
  <2>1. boot.pc \notin HasCodeWindow /\ boot.pc \notin HasDataWindow /\ boot.pc # "hangs"
    BY <1>1 DEF HasCodeWindow, HasDataWindow, Mapping, Leaving
  <2>2. \A c \in Windows : held[c].page = 0
    BY <2>1 DEF Inv, WindowOK, Windows
  <2>3. v # 0
    BY Sizes
  <2> QED
    BY <2>2, <2>3 DEF Inv, WindowOK
<1>2. ASSUME NEW v \in V!Slots, tlb[v] \notin {0, pte[v]}, boot.ok
      PROVE  \/ \E p \in 1 .. boot.p - 1 : p \notin made
             \/ boot.pc \in {"check", "paused"} /\ made # Procs
  <2>1. PICK p \in Done : p \notin made
    BY <1>2 DEF Inv, FreshOK, AllSoFar
  <2>2. CASE boot.pc \in Finished
    <3>1. p \in Procs /\ made # Procs
      BY <2>1, <2>2 DEF Done
    <3>2. boot.pc # "running"
      BY <3>1 DEF Inv, PhaseOK
    <3> QED
      BY <2>2, <3>1, <3>2 DEF Finished
  <2>3. CASE boot.pc \notin Finished
    BY <2>1, <2>3 DEF Done, me
  <2> QED
    BY <2>2, <2>3
<1> QED
  BY <1>1, <1>2 DEF WindowClean, me

(* The window is empty for each process, and the TLB has nothing stale     *)
(* there as long as every process could be made.                           *)
THEOREM WindowStaysClean == Spec => []WindowClean
BY Invariant, ImpliesWindowClean, PTL

LEMMA ImpliesCopyRight == Inv => CopyRight
<1> SUFFICES ASSUME Inv PROVE CopyRight
  OBVIOUS
<1>1. limit \in Nat /\ copied \in Nat /\ Asked = limit
  BY LimitFacts DEF Asked, limit
<1>2. Len(sys.dest) <= BufLen
  BY DEF Inv, SysOK
<1>3. ASSUME sys.pc = "EFAULT"
      PROVE  \E k \in 0 .. Asked - 1 :
               Unreachable(k) /\ \A j \in 0 .. k - 1 : Byte(sys.p, sys.src + j) # NUL
  <2>1. copied < limit /\ Unreachable(copied) /\ \A k \in 0 .. copied - 1 : Readable(k)
    BY <1>3 DEF Inv, SysOK
  <2>2. copied \in 0 .. Asked - 1
    BY <1>1, <2>1
  <2> QED
    BY <2>1, <2>2 DEF Readable
<1>4. ASSUME sys.pc = "SUCCESS", NEW k \in 0 .. Asked - 1, Unreachable(k),
             \A j \in 0 .. k - 1 : Byte(sys.p, sys.src + j) # NUL
      PROVE  FALSE
  <2>1. CASE \A n \in 0 .. limit - 1 : Readable(n)
    BY <1>1, <1>4, <2>1 DEF Readable
  <2>2. ASSUME NEW n \in 0 .. limit - 1, ~ Unreachable(n), Byte(sys.p, sys.src + n) = NUL,
               \A j \in 0 .. n - 1 : Readable(j)
        PROVE  FALSE
    <3>1. k \in Nat /\ n \in Nat
      BY <1>1
    <3>2. k = n \/ k \in 0 .. n - 1 \/ n \in 0 .. k - 1
      BY <3>1
    <3> QED
      BY <1>4, <2>2, <3>2 DEF Readable
  <2>3. \/ \A n \in 0 .. limit - 1 : Readable(n)
        \/ \E n \in 0 .. limit - 1 :
             /\ ~ Unreachable(n) /\ Byte(sys.p, sys.src + n) = NUL
             /\ \A j \in 0 .. n - 1 : Readable(j)
    BY <1>4 DEF Inv, SysOK
  <2> QED
    BY <2>1, <2>2, <2>3
<1> QED
  BY <1>2, <1>3, <1>4 DEF CopyRight

(* A call of sys_print_string fails exactly if it would read a byte that   *)
(* is not the user's, and it never writes past its buffer.                 *)
THEOREM CopiesRight == Spec => []CopyRight
BY Invariant, ImpliesCopyRight, PTL
=============================================================================
