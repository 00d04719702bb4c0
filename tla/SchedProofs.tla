---------------------------- MODULE SchedProofs -----------------------------
(***************************************************************************)
(* Proofs about processes, preemption and system calls, for any number of  *)
(* processes, size of proc_list, time slice, messages and failures; where  *)
(* it says so, of all failures but that of the page directory, which       *)
(* create_proc does not notice.                                            *)
(***************************************************************************)
EXTENDS Sched, TLAPS

(* alloc_pages has a frame for every page directory.                       *)
DirsSucceed == "dir" \notin Failures
-----------------------------------------------------------------------------
(* The inductive invariant                                                 *)

BootSteps == {"pages", "proc_t", "dir", "stack", "publish", "code", "data",
              "check", "enter", "swap", "iret", "gone", "pause"}
BeforePublish == {"pages", "proc_t", "dir", "stack", "publish"}
Making == BeforePublish \cup {"code", "data"}
Entered == {"enter", "swap", "iret", "gone"}

(* The boot thread makes the processes in turn, and enters the first only  *)
(* if it made them all.                                                    *)
BootOK ==
    /\ boot \in [pc : BootSteps, n : Users, idx : Slots, made : SUBSET Users]
    /\ boot.pc \in Making => \A p \in boot.made : p < boot.n
    /\ boot.pc \notin Making => boot.n = NProcs
    /\ boot.pc \in Entered => boot.made = Users

(* A process that is made has a directory of its own, with its own pages.  *)
DirsOK ==
    /\ page_directory[Kernel] = KernelDir
    /\ space[KernelDir] = Unmapped
    /\ \A p \in boot.made : page_directory[p] = p /\ space[p] = Own(p)
    /\ boot.pc \in {"stack", "publish", "code", "data"} =>
          page_directory[boot.n] = boot.n
    /\ boot.pc \in {"publish", "code", "data"} =>
          space[boot.n].stack = boot.n
    /\ boot.pc = "data" => space[boot.n].code = boot.n

(* The slot create_proc found stays free until it is used.                 *)
SlotFree ==
    boot.pc \in {"dir", "stack", "publish"} => proc_list[boot.idx] = Null

(* If no process failed so far, each is listed at the slot of its number.  *)
AllMade ==
    boot.made = 1 .. (IF boot.pc \in Making THEN boot.n - 1 ELSE boot.n)
Published == IF boot.pc \in BeforePublish THEN boot.n - 1 ELSE boot.n
ListOK ==
    AllMade =>
        /\ Published \in Slots
        /\ \A i \in Slots :
              proc_list[i] = IF i <= Published THEN i ELSE Null
        /\ boot.pc \in {"dir", "stack", "publish"} => boot.idx = boot.n

(* What the processor holds before, while and after the boot thread enters *)
(* user mode, which is never left again except for the handlers            *)
PhaseOK ==
    /\ boot.pc # "gone" =>
          /\ regs = KernelRegs
          /\ cpu \in {"boot", "irq", "eoi", "iret"}
          /\ console = <<>>
    /\ boot.pc = "gone" => regs.rpl = 3 /\ cpu # "boot"
    /\ boot.pc \notin {"swap", "iret", "gone"} => current_proc = Kernel
    /\ boot.pc \in {"swap", "iret"} => current_proc = 1
    /\ boot.pc \in {"swap", "iret", "gone"} => esp0 = kstack[current_proc]
    /\ boot.pc \in {"iret", "gone"} => cr3 = page_directory[current_proc]

(* Every process can be dispatched from the moment it is listed; the       *)
(* kernel process is only if its context names ring 3.                     *)
Ready == boot.made \cup {p \in {boot.n} : boot.pc \in {"code", "data"}}
ContextsOK ==
    /\ boot.pc # "gone" => \A p \in Ready : context[p] = EntryContext
    /\ \A p \in Ready : procstate[p] = "RUNNING"
    /\ boot.pc = "gone" /\ current_proc = Kernel => context[Kernel].rpl = 3

(* The registers of a running demo                                         *)
RunOK ==
    boot.pc = "gone" =>
        /\ RegistersIntact
        /\ cpu = "syscall" => current_proc # Kernel /\ regs.eip = 4

PrintOK == boot.pc = "gone" => PrintsOwnMessage
HaltOK == boot.pc = "gone" => HaltsOnlyByOversight

(* In the demo a process was passed over at most once by each one between  *)
(* it and the current one, round the list.                                 *)
Behind(p) ==
    IF p <= current_proc THEN current_proc - p ELSE current_proc - p + NProcs
WaitOK ==
    context[Kernel].rpl # 3 =>
        IF boot.pc = "gone"
        THEN \A p \in Users : passed[p] <= Behind(p)
        ELSE \A p \in Users : passed[p] = 0

Inv ==
    /\ TypeOK /\ BootOK /\ DirsOK /\ SlotFree /\ ListOK
    /\ PhaseOK /\ ContextsOK /\ RunOK /\ PrintOK /\ HaltOK /\ WaitOK
-----------------------------------------------------------------------------
(* Facts about the operators of the model                                  *)

LEMMA SchedSizes ==
    /\ NProcs \in Nat /\ NProcs > 0 /\ MaxProc \in Nat /\ MaxProc > 0
    /\ Users \subseteq Procs /\ Users \subseteq Dirs /\ Users \subseteq Kstacks
    /\ 1 \in Users /\ 0 \in Slots /\ Kernel \in Procs /\ Kernel \notin Users
    /\ KernelDir \in Dirs /\ KernelDir \notin Users
    /\ Procs = Users \cup {Kernel} /\ 0 \in Kstacks
BY SchedAssumption DEF Users, Procs, Dirs, Kstacks, Slots, Kernel, KernelDir

LEMMA LeastOfTwo ==
    ASSUME NEW a \in Int, NEW b \in Int
    PROVE  Least({a, b}) = IF a <= b THEN a ELSE b
<1> DEFINE L(x) == x \in {a, b} /\ \A y \in {a, b} : x <= y
<1>1. \E x \in {a, b} : L(x)
  BY DEF L
<1>2. L(Least({a, b}))
  BY <1>1 DEF Least
<1> QED
  BY <1>2

LEMMA LeastOfOne ==
    ASSUME NEW a \in Int
    PROVE  Least({a}) = a
<1>1. a \in {a} /\ \A y \in {a} : a <= y
  OBVIOUS
<1> QED
  BY <1>1 DEF Least

(* pick_next_proc returns nothing, or a process in some slot that may run. *)
LEMMA PickEligible ==
    ASSUME NEW cur
    PROVE  \/ pick_next_proc(cur) = Null
           \/ \E i \in Slots : /\ Eligible(cur, i)
                               /\ pick_next_proc(cur) = proc_list[i]
<1>1. CASE \E i \in Slots : FirstEligible(cur, After(cur), i)
  <2> DEFINE j == CHOOSE i \in Slots : FirstEligible(cur, After(cur), i)
  <2>1. j \in Slots /\ FirstEligible(cur, After(cur), j)
    BY <1>1
  <2>2. pick_next_proc(cur) = proc_list[j]
    BY <1>1 DEF pick_next_proc
  <2> QED
    BY <2>1, <2>2 DEF FirstEligible
<1>2. CASE /\ ~ \E i \in Slots : FirstEligible(cur, After(cur), i)
           /\ \E i \in Slots : FirstEligible(cur, 0, i)
  <2> DEFINE j == CHOOSE i \in Slots : FirstEligible(cur, 0, i)
  <2>1. j \in Slots /\ FirstEligible(cur, 0, j)
    BY <1>2
  <2>2. pick_next_proc(cur) = proc_list[j]
    BY <1>2 DEF pick_next_proc
  <2> QED
    BY <2>1, <2>2 DEF FirstEligible
<1>3. CASE /\ ~ \E i \in Slots : FirstEligible(cur, After(cur), i)
           /\ ~ \E i \in Slots : FirstEligible(cur, 0, i)
  BY <1>3 DEF pick_next_proc
<1> QED
  BY <1>1, <1>2, <1>3

LEMMA RegistersType ==
    /\ KernelRegs \in Registers /\ EntryContext \in Registers
    /\ KernelRegs.rpl = 0 /\ KernelRegs.intr
    /\ EntryContext.rpl = 3 /\ EntryContext.intr /\ EntryContext.eip = 0
<1>1. KernelRegs \in Registers /\ KernelRegs.rpl = 0 /\ KernelRegs.intr
  BY DEF KernelRegs, Registers, Junk
<1> DEFINE user == [KernelRegs EXCEPT !.rpl = 3]
<1>2. user \in Registers /\ user.rpl = 3 /\ user.intr
  BY <1>1 DEF Registers
<1>3. EntryContext = [user EXCEPT !.eip = 0]
  BY Zenon DEF EntryContext
<1> HIDE DEF user
<1> QED
  BY <1>1, <1>2, <1>3 DEF Registers
-----------------------------------------------------------------------------
(* The invariant implies what it was found for.                            *)

LEMMA InvOwns == Inv => UserOwnsCpu
<1> SUFFICES ASSUME Inv, regs.rpl = 3, current_proc # Kernel
             PROVE  /\ current_proc \in boot.made
                    /\ cr3 = page_directory[current_proc]
                    /\ esp0 = kstack[current_proc]
                    /\ space[cr3] = Own(current_proc)
  BY DEF UserOwnsCpu
<1>1. boot.pc = "gone"
  BY DEF Inv, PhaseOK, KernelRegs
<1>2. current_proc \in boot.made
  BY <1>1, SchedSizes DEF Inv, BootOK, Entered, TypeOK
<1> QED
  BY <1>1, <1>2 DEF Inv, PhaseOK, DirsOK

LEMMA InvRegisters == Inv => RegistersIntact
<1> SUFFICES ASSUME Inv, boot.pc # "gone" PROVE RegistersIntact
  BY DEF Inv, RunOK
<1>1. regs.rpl = 0 /\ cpu # "syscall"
  BY DEF Inv, PhaseOK, KernelRegs
<1>2. \A p \in boot.made : Live(p) = EntryContext /\ ~ InSyscall(p)
  BY <1>1 DEF Inv, ContextsOK, Ready, Live, InSyscall
<1> QED
  BY <1>2, RegistersType DEF RegistersIntact, Done

LEMMA InvPrints == Inv => PrintsOwnMessage
<1> SUFFICES ASSUME Inv, boot.pc # "gone" PROVE PrintsOwnMessage
  BY DEF Inv, PrintOK
<1>1. regs.rpl = 0 /\ console = <<>>
  BY DEF Inv, PhaseOK, KernelRegs
<1>2. \A p \in boot.made : Live(p) = EntryContext
  BY <1>1 DEF Inv, ContextsOK, Ready, Live
<1>3. \A p \in boot.made : ~ Done(p) /\ ~ Printed(p)
  BY <1>1, <1>2, RegistersType DEF Done, Printed
<1> QED
  BY <1>1, <1>3 DEF PrintsOwnMessage

LEMMA InvHalts == Inv => HaltsOnlyByOversight
BY DEF Inv, HaltOK, PhaseOK, HaltsOnlyByOversight

LEMMA InvWaits == Inv => BoundedWait
<1> SUFFICES ASSUME Inv, context[Kernel].rpl # 3, NEW p \in Users
             PROVE  passed[p] < NProcs
  BY DEF BoundedWait
<1>1. CASE boot.pc = "gone"
  <2>1. passed[p] <= Behind(p) /\ passed[p] \in Nat
    BY <1>1 DEF Inv, WaitOK, TypeOK
  <2>2. current_proc \in Users
    BY <1>1, SchedSizes DEF Inv, ContextsOK, TypeOK
  <2> QED
    BY <2>1, <2>2, SchedSizes DEF Behind, Users
<1>2. CASE boot.pc # "gone"
  BY <1>2, SchedSizes DEF Inv, WaitOK
<1> QED
  BY <1>1, <1>2

LEMMA InvInit == Init => Inv
<1> SUFFICES ASSUME Init PROVE Inv
  OBVIOUS
<1> USE SchedAssumption, SchedSizes
<1>1. boot = [pc |-> "pages", n |-> 1, idx |-> 0, made |-> {}]
  BY DEF Init
<1>2. context \in [Procs -> Registers]
  <2>1. PICK rpl \in KernelRpl :
           context = [q \in Procs |->
                         IF q = Kernel THEN [KernelRegs EXCEPT !.rpl = rpl]
                                       ELSE KernelRegs]
    BY DEF Init
  <2>2. [KernelRegs EXCEPT !.rpl = rpl] \in Registers
    BY RegistersType DEF Registers
  <2> QED
    BY <2>1, <2>2, RegistersType
<1>3. TypeOK
  <2>1. proc_list \in [Slots -> Procs \cup {Null}]
    BY DEF Init
  <2>2. /\ pid_ctr \in Nat /\ current_proc \in Procs /\ pid \in [Procs -> Nat]
        /\ procstate \in [Procs -> {"UNUSED", "SETUP", "RUNNING"}]
        /\ page_directory \in [Procs -> Dirs] /\ kstack \in [Procs -> Kstacks]
        /\ cr3 \in Dirs /\ esp0 \in Kstacks
    BY DEF Init, Kstacks, InitialStack
  <2>3. space \in [Dirs -> [stack : Procs, code : Procs, data : Procs]]
    BY DEF Init, Unmapped, Kernel
  <2>4. /\ cpu = "boot" /\ regs \in Registers
        /\ irq \in [requested : BOOLEAN, inService : BOOLEAN]
        /\ tick \in 0 .. Slice - 1 /\ passed \in [Users -> Nat]
    BY RegistersType DEF Init
  <2>5. console \in Seq([by : Procs, msg : Procs, len : 0 .. BufLen - 1])
    BY DEF Init
  <2> QED
    BY <1>1, <1>2, <2>1, <2>2, <2>3, <2>4, <2>5 DEF TypeOK
<1>4. BootOK
  BY <1>1 DEF BootOK, BootSteps, Making, BeforePublish, Entered
<1>5. DirsOK
  BY <1>1 DEF Init, DirsOK
<1>6. SlotFree
  BY <1>1 DEF SlotFree
<1>7. ListOK
  BY <1>1 DEF Init, ListOK, Published, BeforePublish, Slots, Kernel
<1>8. PhaseOK /\ RunOK /\ PrintOK /\ HaltOK
  BY <1>1 DEF Init, PhaseOK, RunOK, PrintOK, HaltOK
<1>9. ContextsOK /\ WaitOK
  BY <1>1 DEF Init, ContextsOK, WaitOK, Ready
<1> QED
  BY <1>3, <1>4, <1>5, <1>6, <1>7, <1>8, <1>9 DEF Inv
-----------------------------------------------------------------------------
(* The boot thread                                                         *)

USE DEF Goto, At

(* A boot step that does not enter user mode leaves the rest as it was.    *)
LEMMA BootFrame ==
    ASSUME Inv, boot.pc # "gone", boot'.pc # "gone",
           UNCHANGED <<machine, passed>>, context'[Kernel] = context[Kernel]
    PROVE  /\ RunOK' /\ PrintOK' /\ HaltOK' /\ WaitOK'
           /\ {boot.pc, boot'.pc} \cap {"swap", "iret"} = {} /\ UNCHANGED current_proc
                => PhaseOK'
<1>1. RunOK' /\ PrintOK' /\ HaltOK'
  BY DEF RunOK, PrintOK, HaltOK
<1>2. WaitOK'
  BY DEF Inv, WaitOK
<1>3. {boot.pc, boot'.pc} \cap {"swap", "iret"} = {} /\ UNCHANGED current_proc
        => PhaseOK'
  BY DEF Inv, PhaseOK, machine
<1> QED
  BY <1>1, <1>2, <1>3

LEMMA SetGrows ==
    ASSUME NEW n \in Nat, n > 0, NEW S, n \notin S
    PROVE  S # 1 .. n /\ (S \cup {n} = 1 .. n => S = 1 .. n - 1)
<1>1. n \in 1 .. n
  OBVIOUS
<1>2. ASSUME S \cup {n} = 1 .. n PROVE S = 1 .. n - 1
  <2>1. \A x : x \in S => x \in 1 .. n - 1
    BY <1>2
  <2>2. \A x : x \in 1 .. n - 1 => x \in S
    BY <1>2
  <2> QED
    BY <2>1, <2>2
<1> QED
  BY <1>1, <1>2

(* make_user_proc_with_message returns.                                    *)
LEMMA ReturnOK ==
    ASSUME Inv, boot.pc \in Making,
           NEW made \in {boot.made, boot.made \cup {boot.n}}, ReturnWith(made)
    PROVE  /\ BootOK' /\ boot'.pc \in {"pages", "check"} /\ boot'.made = made
           /\ Ready' = made
           /\ AllMade' => AllMade /\ boot.n \in made /\ Published' = boot.n
<1> USE SchedSizes
<1>1. /\ boot \in [pc : BootSteps, n : Users, idx : Slots, made : SUBSET Users]
      /\ \A p \in boot.made : p < boot.n
  BY DEF Inv, BootOK
<1>2. boot.n \in 1 .. NProcs /\ boot.n \notin boot.made
  BY <1>1 DEF Users
<1>3. /\ boot'.pc = IF boot.n < NProcs THEN "pages" ELSE "check"
      /\ boot'.n = IF boot.n < NProcs THEN boot.n + 1 ELSE boot.n
      /\ boot'.idx = 0 /\ boot'.made = made
      /\ boot' \in [pc : BootSteps, n : Users, idx : Slots, made : SUBSET Users]
  BY <1>1, <1>2 DEF ReturnWith, BootSteps, Users
<1>4. \A p \in made : p \in Users /\ p < boot.n + 1
  BY <1>1, <1>2 DEF Users
<1>5. BootOK'
  BY <1>2, <1>3, <1>4 DEF BootOK, Making, BeforePublish, Entered, Users
<1>6. Ready' = made
  BY <1>3 DEF Ready
<1>7. Published' = boot.n
  BY <1>2, <1>3 DEF Published, BeforePublish
<1>8. AllMade' <=> made = 1 .. boot.n
  BY <1>2, <1>3 DEF AllMade, Making, BeforePublish
<1>9. AllMade <=> boot.made = 1 .. boot.n - 1
  BY DEF AllMade
<1>10. boot.made # 1 .. boot.n
       /\ (boot.made \cup {boot.n} = 1 .. boot.n => boot.made = 1 .. boot.n - 1)
  BY <1>2, SetGrows
<1> QED
  BY <1>3, <1>5, <1>6, <1>7, <1>8, <1>9, <1>10

(* It returns NULL: whatever was done so far stays, but is used no more.   *)
LEMMA InvReturnNull ==
    ASSUME Inv, boot.pc \in Making, ReturnNull,
           UNCHANGED <<procVars, runVars, machine>>
    PROVE  Inv'
<1> USE SchedSizes
<1>1. ReturnWith(boot.made)
  BY DEF ReturnNull
<1>2. /\ BootOK' /\ boot'.pc \in {"pages", "check"} /\ boot'.made = boot.made
      /\ Ready' = boot.made
      /\ AllMade' => boot.n \in boot.made
  BY <1>1, ReturnOK
<1>3. boot.n \notin boot.made /\ boot.pc \notin {"gone", "swap", "iret"}
  BY DEF Inv, BootOK, Users, Making, BeforePublish
<1>4. TypeOK'
  BY <1>2 DEF Inv, TypeOK, BootOK, BootSteps, procVars, runVars, machine
<1>5. DirsOK'
  BY <1>2 DEF Inv, DirsOK, procVars
<1>6. SlotFree' /\ ListOK'
  BY <1>2, <1>3 DEF SlotFree, ListOK
<1>7. ContextsOK'
  BY <1>2, <1>3 DEF Inv, ContextsOK, Ready, procVars, runVars
<1>8. PhaseOK' /\ RunOK' /\ PrintOK' /\ HaltOK' /\ WaitOK'
  BY <1>2, <1>3, BootFrame DEF runVars
<1> QED
  BY <1>2, <1>4, <1>5, <1>6, <1>7, <1>8 DEF Inv

LEMMA InvPreparePages == Inv /\ PreparePages => Inv'
<1> SUFFICES ASSUME Inv, PreparePages PROVE Inv'
  OBVIOUS
<1>1. boot.pc = "pages" /\ UNCHANGED <<procVars, runVars, machine>>
  BY DEF PreparePages
<1>2. CASE ReturnNull
  BY <1>1, <1>2, InvReturnNull DEF Making, BeforePublish
<1>3. CASE Goto("proc_t")
  <2>1. /\ boot'.pc = "proc_t" /\ boot'.n = boot.n /\ boot'.made = boot.made
        /\ boot' \in [pc : BootSteps, n : Users, idx : Slots, made : SUBSET Users]
    BY <1>3 DEF Inv, BootOK, BootSteps
  <2>2. BootOK'
    BY <1>1, <2>1 DEF Inv, BootOK, Making, BeforePublish, Entered
  <2>3. TypeOK'
    BY <1>1, <2>1 DEF Inv, TypeOK, BootSteps, procVars, runVars, machine
  <2>4. DirsOK' /\ SlotFree'
    BY <1>1, <2>1 DEF Inv, DirsOK, SlotFree, procVars
  <2>5. AllMade' = AllMade /\ Published' = Published
    BY <1>1, <2>1 DEF AllMade, Published, Making, BeforePublish
  <2>6. ListOK'
    BY <1>1, <2>1, <2>5 DEF Inv, ListOK, procVars
  <2>7. ContextsOK'
    BY <1>1, <2>1 DEF Inv, ContextsOK, Ready, procVars, runVars
  <2>8. PhaseOK' /\ RunOK' /\ PrintOK' /\ HaltOK' /\ WaitOK'
    BY <1>1, <2>1, BootFrame DEF runVars
  <2> QED
    BY <2>2, <2>3, <2>4, <2>6, <2>7, <2>8 DEF Inv
<1> QED
  BY <1>2, <1>3 DEF PreparePages

(* create_proc takes the first free slot, which is the one of its number   *)
(* if all went well so far.                                                *)
LEMMA InvAllocProc == Inv /\ AllocProc => Inv'
<1> SUFFICES ASSUME Inv, AllocProc PROVE Inv'
  OBVIOUS
<1> USE SchedSizes
<1>1. /\ boot.pc = "proc_t"
      /\ UNCHANGED <<proc_list, page_directory, kstack, space, runVars, machine>>
  BY DEF AllocProc
<1>2. CASE ReturnNull /\ UNCHANGED <<pid, pid_ctr, procstate>>
  BY <1>1, <1>2, InvReturnNull DEF Making, BeforePublish, procVars
<1>3. ASSUME NEW i \in Slots, FirstFree(i),
             boot' = [boot EXCEPT !.pc = "dir", !.idx = i],
             pid' = [pid EXCEPT ![boot.n] = pid_ctr],
             pid_ctr' = pid_ctr + 1,
             procstate' = [procstate EXCEPT ![boot.n] = "SETUP"]
      PROVE  Inv'
  <2>1. /\ boot'.pc = "dir" /\ boot'.n = boot.n /\ boot'.made = boot.made
        /\ boot'.idx = i
        /\ boot' \in [pc : BootSteps, n : Users, idx : Slots, made : SUBSET Users]
    <3> DEFINE b == [boot EXCEPT !.pc = "dir"]
    <3>1. /\ b \in [pc : BootSteps, n : Users, idx : Slots, made : SUBSET Users]
          /\ b.pc = "dir" /\ b.n = boot.n /\ b.made = boot.made
      BY DEF Inv, BootOK, BootSteps
    <3>2. boot' = [b EXCEPT !.idx = i]
      BY <1>3, Zenon
    <3> HIDE DEF b
    <3> QED
      BY <3>1, <3>2
  <2>2. BootOK'
    BY <1>1, <2>1 DEF Inv, BootOK, Making, BeforePublish, Entered
  <2>3. boot.n \in Users /\ boot.n \in Procs /\ boot.n \notin boot.made
    BY <1>1 DEF Inv, BootOK, Making, BeforePublish, Users
  <2>4. TypeOK'
    <3>1. /\ pid' = [pid EXCEPT ![boot.n] = pid_ctr] /\ pid_ctr' = pid_ctr + 1
          /\ procstate' = [procstate EXCEPT ![boot.n] = "SETUP"]
      BY <1>3, Zenon
    <3>2. /\ pid' \in [Procs -> Nat] /\ pid_ctr' \in Nat
          /\ procstate' \in [Procs -> {"UNUSED", "SETUP", "RUNNING"}]
      BY <2>3, <3>1 DEF Inv, TypeOK
    <3> QED
      BY <1>1, <2>1, <3>2 DEF Inv, TypeOK, BootSteps, runVars, machine
  <2>5. DirsOK'
    BY <1>1, <2>1 DEF Inv, DirsOK
  <2>6. SlotFree'
    BY <1>1, <1>3, <2>1 DEF SlotFree, FirstFree, FreeSlots
  <2>7. ListOK'
    <3> SUFFICES ASSUME AllMade' PROVE ListOK'
      BY DEF ListOK
    <3>1. AllMade /\ Published = boot.n - 1 /\ Published' = boot.n - 1
      BY <1>1, <2>1 DEF AllMade, Published, Making, BeforePublish
    <3>2. /\ Published \in Slots
          /\ \A k \in Slots : proc_list[k] = IF k <= boot.n - 1 THEN k ELSE Null
      BY <3>1 DEF Inv, ListOK
    <3>3. i \in Nat /\ boot.n \in Nat /\ boot.n > 0
      BY <2>3 DEF Slots, Users
    <3>4. i >= boot.n
      BY <1>3, <3>2, <3>3 DEF FirstFree, FreeSlots, Null, Slots
    <3>5. boot.n \in Slots /\ proc_list[boot.n] = Null
      BY <3>2, <3>3, <3>4 DEF Slots
    <3>6. i <= boot.n
      BY <1>3, <3>3, <3>5 DEF FirstFree, FreeSlots
    <3> QED
      BY <1>1, <2>1, <3>1, <3>2, <3>3, <3>4, <3>6 DEF ListOK
  <2>8. ContextsOK'
    BY <1>1, <1>3, <2>1, <2>3 DEF Inv, TypeOK, ContextsOK, Ready, runVars
  <2>9. PhaseOK' /\ RunOK' /\ PrintOK' /\ HaltOK' /\ WaitOK'
    BY <1>1, <2>1, BootFrame DEF runVars
  <2> QED
    BY <2>2, <2>4, <2>5, <2>6, <2>7, <2>8, <2>9 DEF Inv
<1> QED
  BY <1>2, <1>3 DEF AllocProc

(* A step of create_proc or its caller from one place to the next          *)
LEMMA BootGoes ==
    ASSUME Inv, NEW pc \in Making, boot.pc \in Making, Goto(pc),
           boot.pc \in BeforePublish <=> pc \in BeforePublish
    PROVE  /\ boot'.pc = pc /\ boot'.n = boot.n /\ boot'.made = boot.made
           /\ boot'.idx = boot.idx /\ BootOK'
           /\ AllMade' = AllMade /\ Published' = Published
           /\ boot.n \in Users /\ boot.n \notin boot.made
           /\ boot.n \in Procs /\ boot.n \in Dirs /\ boot.n # KernelDir
           /\ boot.n # Kernel
<1> USE SchedSizes
<1>1. /\ boot'.pc = pc /\ boot'.n = boot.n /\ boot'.made = boot.made
      /\ boot'.idx = boot.idx
      /\ boot' \in [pc : BootSteps, n : Users, idx : Slots, made : SUBSET Users]
  BY DEF Inv, BootOK, BootSteps, Making, BeforePublish
<1>2. pc \notin Entered
  BY DEF Making, BeforePublish, Entered
<1>3. BootOK'
  BY <1>1, <1>2 DEF Inv, BootOK
<1>4. AllMade' = AllMade
  BY <1>1 DEF AllMade
<1>5. Published' = Published
  BY <1>1 DEF Published
<1>6. boot.n \in Users /\ boot.n \notin boot.made
  BY DEF Inv, BootOK, Users
<1> QED
  BY <1>1, <1>3, <1>4, <1>5, <1>6

LEMMA InvAllocDir == DirsSucceed => (Inv /\ AllocDir => Inv')
<1> SUFFICES ASSUME DirsSucceed, Inv, AllocDir PROVE Inv'
  OBVIOUS
<1> USE SchedSizes
<1>1. /\ boot.pc = "dir" /\ Goto("stack")
      /\ UNCHANGED <<proc_list, pid_ctr, pid, procstate, kstack, runVars, machine>>
  BY DEF AllocDir
<1>2. /\ page_directory' = [page_directory EXCEPT ![boot.n] = boot.n]
      /\ space' = [space EXCEPT ![boot.n] = space[KernelDir]]
  BY DEF AllocDir, DirsSucceed, clone_page_dir
<1>3. /\ boot'.pc = "stack" /\ boot'.n = boot.n /\ boot'.made = boot.made
      /\ boot'.idx = boot.idx /\ BootOK'
      /\ AllMade' = AllMade /\ Published' = Published
      /\ boot.n \in Users /\ boot.n \notin boot.made
      /\ boot.n \in Procs /\ boot.n \in Dirs /\ boot.n # KernelDir
      /\ boot.n # Kernel
  BY <1>1, BootGoes DEF Making, BeforePublish
<1>4. TypeOK'
  BY <1>1, <1>2, <1>3 DEF Inv, TypeOK, BootOK, BootSteps, runVars, machine
<1>5. DirsOK'
  <2>1. \A p \in boot.made : p \in Procs /\ p \in Dirs /\ p # boot.n
    BY <1>3 DEF Inv, BootOK
  <2> QED
    BY <1>2, <1>3, <2>1 DEF Inv, DirsOK, TypeOK
<1>6. SlotFree' /\ ListOK'
  BY <1>1, <1>3 DEF Inv, SlotFree, ListOK
<1>7. ContextsOK'
  BY <1>1, <1>3 DEF Inv, ContextsOK, Ready, runVars
<1>8. PhaseOK' /\ RunOK' /\ PrintOK' /\ HaltOK' /\ WaitOK'
  BY <1>1, <1>3, BootFrame DEF runVars
<1> QED
  BY <1>3, <1>4, <1>5, <1>6, <1>7, <1>8 DEF Inv

LEMMA InvMapStack == Inv /\ MapStack => Inv'
<1> SUFFICES ASSUME Inv, MapStack PROVE Inv'
  OBVIOUS
<1> USE SchedSizes
<1>1. /\ boot.pc = "stack"
      /\ UNCHANGED <<proc_list, pid_ctr, pid, procstate, page_directory, kstack,
                     runVars, machine>>
  BY DEF MapStack
<1>2. CASE ReturnNull /\ UNCHANGED space
  BY <1>1, <1>2, InvReturnNull DEF Making, BeforePublish, procVars
<1>3. CASE space' = proc_map_pages(boot.n, "stack") /\ Goto("publish")
  <2>1. /\ boot'.pc = "publish" /\ boot'.n = boot.n /\ boot'.made = boot.made
        /\ boot'.idx = boot.idx /\ BootOK'
        /\ AllMade' = AllMade /\ Published' = Published
        /\ boot.n \in Users /\ boot.n \notin boot.made
        /\ boot.n \in Procs /\ boot.n \in Dirs /\ boot.n # KernelDir
        /\ boot.n # Kernel
    BY <1>1, <1>3, BootGoes DEF Making, BeforePublish
  <2>2. space' = [space EXCEPT ![boot.n] =
                     [space[boot.n] EXCEPT !.stack = boot.n]]
    BY <1>1, <1>3 DEF Inv, DirsOK, proc_map_pages
  <2>3. TypeOK'
    <3> DEFINE Pages == [stack : Procs, code : Procs, data : Procs]
    <3>1. space \in [Dirs -> Pages]
      BY DEF Inv, TypeOK
    <3>2. [space[boot.n] EXCEPT !.stack = boot.n] \in Pages
      BY <2>1, <3>1
    <3>3. space' \in [Dirs -> Pages]
      BY <2>2, <3>1, <3>2
    <3> QED
      BY <1>1, <2>1, <3>3 DEF Inv, TypeOK, BootOK, BootSteps, runVars, machine
  <2>4. DirsOK'
    <3>1. \A p \in boot.made : p \in Procs /\ p \in Dirs /\ p # boot.n
      BY <2>1 DEF Inv, BootOK
    <3> QED
      BY <1>1, <2>1, <2>2, <3>1 DEF Inv, DirsOK, TypeOK
  <2>5. SlotFree' /\ ListOK'
    BY <1>1, <2>1 DEF Inv, SlotFree, ListOK
  <2>6. ContextsOK'
    BY <1>1, <2>1 DEF Inv, ContextsOK, Ready, runVars
  <2>7. PhaseOK' /\ RunOK' /\ PrintOK' /\ HaltOK' /\ WaitOK'
    BY <1>1, <2>1, BootFrame DEF runVars
  <2> QED
    BY <2>1, <2>3, <2>4, <2>5, <2>6, <2>7 DEF Inv
<1> QED
  BY <1>2, <1>3 DEF MapStack

LEMMA InvPublish == Inv /\ Publish => Inv'
<1> SUFFICES ASSUME Inv, Publish PROVE Inv'
  OBVIOUS
<1> USE SchedSizes
<1>1. /\ boot.pc = "publish" /\ Goto("code")
      /\ context' = [context EXCEPT ![boot.n] = EntryContext]
      /\ proc_list' = [proc_list EXCEPT ![boot.idx] = boot.n]
      /\ procstate' = [procstate EXCEPT ![boot.n] = "RUNNING"]
      /\ UNCHANGED <<pid_ctr, pid, page_directory, space, current_proc, cr3,
                     esp0, passed, machine>>
  BY DEF Publish
<1>2. PICK k \in {boot.n, 0} : kstack' = [kstack EXCEPT ![boot.n] = k]
  BY DEF Publish
<1>3. /\ boot'.pc = "code" /\ boot'.n = boot.n /\ boot'.made = boot.made
      /\ boot'.idx = boot.idx
      /\ boot' \in [pc : BootSteps, n : Users, idx : Slots, made : SUBSET Users]
      /\ boot.n \in Users /\ boot.n \notin boot.made /\ boot.idx \in Slots
  BY <1>1 DEF Inv, BootOK, BootSteps, Making, BeforePublish, Users
<1>4. BootOK'
  BY <1>1, <1>3 DEF Inv, BootOK, Making, BeforePublish, Entered
<1>5. boot.n \in Procs /\ boot.n # Kernel /\ boot.n \in Kstacks /\ 0 \in Kstacks
  BY <1>3
<1>6. TypeOK'
  BY <1>1, <1>2, <1>3, <1>5, RegistersType
     DEF Inv, TypeOK, BootSteps, machine
<1>7. DirsOK' /\ SlotFree'
  BY <1>1, <1>3 DEF Inv, DirsOK, SlotFree
<1>8. ListOK'
  <2> SUFFICES ASSUME AllMade' PROVE ListOK'
    BY DEF ListOK
  <2>1. AllMade /\ Published = boot.n - 1 /\ Published' = boot.n
    BY <1>1, <1>3 DEF AllMade, Published, Making, BeforePublish
  <2>2. /\ boot.idx = boot.n
        /\ \A i \in Slots : proc_list[i] = IF i <= boot.n - 1 THEN i ELSE Null
    BY <1>1, <2>1 DEF Inv, ListOK
  <2>3. boot.n \in Slots /\ boot.n \in Nat /\ Slots \subseteq Nat
    BY <1>3, <2>2 DEF Users, Slots
  <2>4. \A i \in Slots : proc_list'[i] = IF i <= boot.n THEN i ELSE Null
    BY <1>1, <2>2, <2>3 DEF Inv, TypeOK
  <2> QED
    BY <1>3, <2>1, <2>3, <2>4 DEF ListOK
<1>9. ContextsOK'
  BY <1>1, <1>3, <1>5 DEF Inv, TypeOK, ContextsOK, Ready
<1>10. PhaseOK' /\ RunOK' /\ PrintOK' /\ HaltOK' /\ WaitOK'
  <2>1. context'[Kernel] = context[Kernel]
    BY <1>1, <1>5 DEF Inv, TypeOK
  <2> QED
    BY <1>1, <1>3, <2>1, BootFrame
<1> QED
  BY <1>4, <1>6, <1>7, <1>8, <1>9, <1>10 DEF Inv

LEMMA InvMapCode == Inv /\ MapCode => Inv'
<1> SUFFICES ASSUME Inv, MapCode PROVE Inv'
  OBVIOUS
<1> USE SchedSizes
<1>1. /\ boot.pc = "code"
      /\ UNCHANGED <<proc_list, pid_ctr, pid, procstate, page_directory, kstack,
                     runVars, machine>>
  BY DEF MapCode
<1>2. CASE ReturnNull /\ UNCHANGED space
  BY <1>1, <1>2, InvReturnNull DEF Making, procVars
<1>3. CASE space' = proc_map_pages(boot.n, "code") /\ Goto("data")
  <2>1. /\ boot'.pc = "data" /\ boot'.n = boot.n /\ boot'.made = boot.made
        /\ boot'.idx = boot.idx /\ BootOK'
        /\ AllMade' = AllMade /\ Published' = Published
        /\ boot.n \in Users /\ boot.n \notin boot.made
        /\ boot.n \in Procs /\ boot.n \in Dirs /\ boot.n # KernelDir
        /\ boot.n # Kernel
    BY <1>1, <1>3, BootGoes DEF Making, BeforePublish
  <2> DEFINE Pages == [stack : Procs, code : Procs, data : Procs]
             r == [space[boot.n] EXCEPT !.code = boot.n]
  <2>2. space' = [space EXCEPT ![boot.n] = r]
    BY <1>1, <1>3 DEF Inv, DirsOK, proc_map_pages
  <2>3. space \in [Dirs -> Pages]
    BY DEF Inv, TypeOK
  <2>4. r \in Pages /\ r.code = boot.n /\ r.stack = space[boot.n].stack
    BY <2>1, <2>3
  <2> HIDE DEF r
  <2>5. TypeOK'
    <3>1. space' \in [Dirs -> Pages]
      BY <2>2, <2>3, <2>4
    <3> QED
      BY <1>1, <2>1, <3>1 DEF Inv, TypeOK, BootOK, BootSteps, runVars, machine
  <2>6. DirsOK'
    <3>1. \A p \in boot.made : p \in Procs /\ p \in Dirs /\ p # boot.n
      BY <2>1 DEF Inv, BootOK
    <3> QED
      BY <1>1, <2>1, <2>2, <2>3, <2>4, <3>1 DEF Inv, DirsOK
  <2>7. SlotFree' /\ ListOK'
    BY <1>1, <2>1 DEF Inv, SlotFree, ListOK
  <2>8. ContextsOK'
    BY <1>1, <2>1 DEF Inv, ContextsOK, Ready, runVars
  <2>9. PhaseOK' /\ RunOK' /\ PrintOK' /\ HaltOK' /\ WaitOK'
    BY <1>1, <2>1, BootFrame DEF runVars
  <2> QED
    BY <2>1, <2>5, <2>6, <2>7, <2>8, <2>9 DEF Inv
<1> QED
  BY <1>2, <1>3 DEF MapCode

(* With its data page mapped a process is complete.                        *)
LEMMA InvMapData == Inv /\ MapData => Inv'
<1> SUFFICES ASSUME Inv, MapData PROVE Inv'
  OBVIOUS
<1> USE SchedSizes
<1>1. /\ boot.pc = "data" /\ boot.pc \in Making /\ boot.pc \notin BeforePublish
      /\ UNCHANGED <<proc_list, pid_ctr, pid, procstate, page_directory, kstack,
                     runVars, machine>>
  BY DEF MapData, Making, BeforePublish
<1>2. CASE ReturnNull /\ UNCHANGED space
  BY <1>1, <1>2, InvReturnNull DEF procVars
<1>3. CASE space' = proc_map_pages(boot.n, "data") /\ ReturnProc
  <2> DEFINE made == boot.made \cup {boot.n}
  <2>1. ReturnWith(made)
    BY <1>3 DEF ReturnProc
  <2>2. /\ BootOK' /\ boot'.pc \in {"pages", "check"} /\ boot'.made = made
        /\ Ready' = made
        /\ AllMade' => AllMade /\ Published' = boot.n
    BY <1>1, <2>1, ReturnOK
  <2>3. /\ boot.n \in Users /\ boot.n \notin boot.made
        /\ boot.n \in Procs /\ boot.n \in Dirs /\ boot.n # KernelDir
        /\ \A p \in boot.made : p \in Procs /\ p \in Dirs
    BY <1>1 DEF Inv, BootOK, Users
  <2> DEFINE Pages == [stack : Procs, code : Procs, data : Procs]
             r == [space[boot.n] EXCEPT !.data = boot.n]
  <2>4. space' = [space EXCEPT ![boot.n] = r]
    BY <1>1, <1>3 DEF Inv, DirsOK, proc_map_pages
  <2>5. space \in [Dirs -> Pages]
    BY DEF Inv, TypeOK
  <2>6. r \in Pages /\ r = Own(boot.n)
    <3>1. space[boot.n] \in Pages /\ space[boot.n].stack = boot.n
          /\ space[boot.n].code = boot.n
      BY <1>1, <2>3, <2>5 DEF Inv, DirsOK
    <3>2. /\ r \in Pages /\ r.stack = boot.n /\ r.code = boot.n
          /\ r.data = boot.n
      BY <2>3, <3>1
    <3> HIDE DEF r
    <3> QED
      BY <3>2 DEF Own
  <2> HIDE DEF r
  <2>7. TypeOK'
    <3>1. space' \in [Dirs -> Pages]
      BY <2>4, <2>5, <2>6
    <3> QED
      BY <1>1, <2>2, <3>1 DEF Inv, TypeOK, BootOK, BootSteps, runVars, machine
  <2>8. DirsOK'
    BY <1>1, <2>2, <2>3, <2>4, <2>5, <2>6 DEF Inv, DirsOK
  <2>9. SlotFree' /\ ListOK'
    <3>1. Published = boot.n
      BY <1>1 DEF Published
    <3> QED
      BY <1>1, <2>2, <3>1 DEF Inv, SlotFree, ListOK
  <2>10. ContextsOK'
    <3>1. Ready = made
      BY <1>1 DEF Ready
    <3> QED
      BY <1>1, <2>2, <3>1 DEF Inv, ContextsOK, runVars
  <2>11. PhaseOK' /\ RunOK' /\ PrintOK' /\ HaltOK' /\ WaitOK'
    BY <1>1, <2>2, BootFrame DEF runVars
  <2> QED
    BY <2>2, <2>7, <2>8, <2>9, <2>10, <2>11 DEF Inv
<1> QED
  BY <1>2, <1>3 DEF MapData

LEMMA InvCheckMade == Inv /\ CheckMade => Inv'
<1> SUFFICES ASSUME Inv, CheckMade PROVE Inv'
  OBVIOUS
<1> USE SchedSizes
<1>1. boot.pc = "check" /\ UNCHANGED <<procVars, runVars, machine>>
  BY DEF CheckMade
<1>2. /\ boot'.pc = IF boot.made = Users THEN "enter" ELSE "pause"
      /\ boot'.n = boot.n /\ boot'.made = boot.made
      /\ boot' \in [pc : BootSteps, n : Users, idx : Slots, made : SUBSET Users]
  BY DEF CheckMade, Inv, BootOK, BootSteps
<1>3. BootOK'
  BY <1>1, <1>2 DEF Inv, BootOK, Making, BeforePublish, Entered
<1>4. TypeOK'
  BY <1>1, <1>2 DEF Inv, TypeOK, BootSteps, procVars, runVars, machine
<1>5. DirsOK' /\ SlotFree'
  BY <1>1, <1>2 DEF Inv, DirsOK, SlotFree, procVars
<1>6. AllMade' = AllMade /\ Published' = Published
  BY <1>1, <1>2 DEF AllMade, Published, Making, BeforePublish
<1>7. ListOK'
  BY <1>1, <1>2, <1>6 DEF Inv, ListOK, procVars
<1>8. ContextsOK'
  BY <1>1, <1>2 DEF Inv, ContextsOK, Ready, procVars, runVars
<1>9. PhaseOK' /\ RunOK' /\ PrintOK' /\ HaltOK' /\ WaitOK'
  BY <1>1, <1>2, BootFrame DEF runVars
<1> QED
  BY <1>3, <1>4, <1>5, <1>7, <1>8, <1>9 DEF Inv

(* proc_enter: once entered, only the place of the boot thread and the     *)
(* processor's own registers change.                                       *)
LEMMA EnterGoes ==
    ASSUME Inv, NEW pc \in Entered, boot.pc \in Entered, Goto(pc),
           UNCHANGED procVars
    PROVE  /\ boot'.pc = pc /\ boot'.n = boot.n /\ boot'.made = boot.made
           /\ boot.made = Users /\ Ready = Users /\ Ready' = Users
           /\ BootOK' /\ DirsOK' /\ SlotFree' /\ ListOK'
           /\ boot' \in [pc : BootSteps, n : Users, idx : Slots,
                         made : SUBSET Users]
<1>1. /\ boot'.pc = pc /\ boot'.n = boot.n /\ boot'.made = boot.made
      /\ boot' \in [pc : BootSteps, n : Users, idx : Slots, made : SUBSET Users]
  BY DEF Inv, BootOK, BootSteps, Entered
<1>2. /\ boot.made = Users
      /\ boot.pc \notin Making /\ pc \notin Making
      /\ boot.pc \notin BeforePublish /\ pc \notin BeforePublish
      /\ boot.pc \notin {"dir", "stack", "publish", "code", "data"}
      /\ pc \notin {"dir", "stack", "publish", "code", "data"}
  BY DEF Inv, BootOK, Entered, Making, BeforePublish
<1>3. BootOK'
  BY <1>1, <1>2 DEF Inv, BootOK
<1>4. DirsOK' /\ SlotFree'
  BY <1>1, <1>2 DEF Inv, DirsOK, SlotFree, procVars
<1>5. AllMade' = AllMade /\ Published' = Published
  BY <1>1, <1>2 DEF AllMade, Published
<1>6. ListOK'
  BY <1>1, <1>2, <1>5 DEF Inv, ListOK, procVars
<1>7. Ready = Users /\ Ready' = Users
  BY <1>1, <1>2 DEF Ready
<1> QED
  BY <1>1, <1>2, <1>3, <1>4, <1>6, <1>7

LEMMA InvEnterProc == Inv /\ EnterProc => Inv'
<1> SUFFICES ASSUME Inv, EnterProc PROVE Inv'
  OBVIOUS
<1> USE SchedSizes
<1>1. /\ boot.pc = "enter" /\ Goto("swap") /\ current_proc' = 1
      /\ esp0' = kstack[1]
      /\ UNCHANGED <<procVars, context, cr3, passed, machine>>
  BY DEF EnterProc, tss_set_kernel_stack
<1>2. /\ boot'.pc = "swap" /\ boot'.n = boot.n /\ boot'.made = boot.made
      /\ boot.made = Users /\ Ready = Users /\ Ready' = Users
      /\ BootOK' /\ DirsOK' /\ SlotFree' /\ ListOK'
      /\ boot' \in [pc : BootSteps, n : Users, idx : Slots, made : SUBSET Users]
  BY <1>1, EnterGoes DEF Entered
<1>3. TypeOK'
  BY <1>1, <1>2 DEF Inv, TypeOK, BootSteps, procVars, machine
<1>4. ContextsOK'
  BY <1>1, <1>2 DEF Inv, ContextsOK, procVars
<1>5. PhaseOK'
  BY <1>1, <1>2 DEF Inv, PhaseOK, procVars, machine
<1>6. RunOK' /\ PrintOK' /\ HaltOK' /\ WaitOK'
  BY <1>1, <1>2, BootFrame
<1> QED
  BY <1>2, <1>3, <1>4, <1>5, <1>6 DEF Inv

LEMMA InvEnterSpace == Inv /\ EnterSpace => Inv'
<1> SUFFICES ASSUME Inv, EnterSpace PROVE Inv'
  OBVIOUS
<1> USE SchedSizes
<1>1. /\ boot.pc = "swap" /\ Goto("iret") /\ cr3' = page_directory[current_proc]
      /\ UNCHANGED <<procVars, current_proc, context, esp0, passed, machine>>
  BY DEF EnterSpace, swap_dir
<1>2. /\ boot'.pc = "iret" /\ boot'.n = boot.n /\ boot'.made = boot.made
      /\ boot.made = Users /\ Ready = Users /\ Ready' = Users
      /\ BootOK' /\ DirsOK' /\ SlotFree' /\ ListOK'
      /\ boot' \in [pc : BootSteps, n : Users, idx : Slots, made : SUBSET Users]
  BY <1>1, EnterGoes DEF Entered
<1>3. TypeOK'
  BY <1>1, <1>2 DEF Inv, TypeOK, BootSteps, procVars, machine
<1>4. ContextsOK'
  BY <1>1, <1>2 DEF Inv, ContextsOK, procVars
<1>5. PhaseOK'
  BY <1>1, <1>2 DEF Inv, PhaseOK, procVars, machine
<1>6. RunOK' /\ PrintOK' /\ HaltOK' /\ WaitOK'
  BY <1>1, <1>2, BootFrame
<1> QED
  BY <1>2, <1>3, <1>4, <1>5, <1>6 DEF Inv

(* The first process starts at its first instruction, as the others will.  *)
LEMMA Inviret_jump_user == Inv /\ iret_jump_user => Inv'
<1> SUFFICES ASSUME Inv, iret_jump_user PROVE Inv'
  OBVIOUS
<1> USE SchedSizes
<1>1. /\ boot.pc = "iret" /\ Goto("gone") /\ cpu' = "user"
      /\ UNCHANGED <<procVars, current_proc, cr3, esp0, passed, irq, tick, console>>
  BY DEF iret_jump_user
<1>2. /\ boot'.pc = "gone" /\ boot'.n = boot.n /\ boot'.made = boot.made
      /\ boot.made = Users /\ Ready = Users /\ Ready' = Users
      /\ BootOK' /\ DirsOK' /\ SlotFree' /\ ListOK'
      /\ boot' \in [pc : BootSteps, n : Users, idx : Slots, made : SUBSET Users]
  BY <1>1, EnterGoes DEF Entered
<1>3. /\ current_proc = 1 /\ current_proc' = 1 /\ 1 # Kernel
      /\ console = <<>> /\ console' = <<>>
      /\ \A p \in Users : context[p] = EntryContext /\ procstate[p] = "RUNNING"
  BY <1>1, <1>2 DEF Inv, PhaseOK, ContextsOK, Kernel
<1>4. context' = context
  <2>1. context \in [Procs -> Registers] /\ context[1].intr = TRUE
        /\ context[1] \in Registers
    BY <1>3, RegistersType DEF Inv, TypeOK, Registers
  <2>2. [context[1] EXCEPT !.intr = TRUE] = context[1]
    BY <2>1 DEF Registers
  <2>3. context' = [context EXCEPT ![1] = [context[1] EXCEPT !.intr = TRUE]]
    BY <1>3 DEF iret_jump_user
  <2> QED
    BY <2>1, <2>2, <2>3
<1>5. regs' \in Registers /\ regs'.rpl = 3 /\ regs'.eip = 0 /\ regs'.intr
  <2> DEFINE r == [KernelRegs EXCEPT !.rpl = EntryContext.rpl]
  <2>1. r \in Registers /\ r.rpl = 3 /\ r.intr
    BY RegistersType DEF Registers
  <2>2. regs' = [r EXCEPT !.eip = EntryContext.eip]
    <3>1. regs' = [KernelRegs EXCEPT !.rpl = context[current_proc].rpl,
                                     !.eip = context[current_proc].eip]
      BY DEF iret_jump_user
    <3>2. context[current_proc] = EntryContext
      BY <1>3
    <3> QED
      BY <3>1, <3>2, Zenon
  <2>3. EntryContext.eip = 0
    BY RegistersType
  <2> HIDE DEF r
  <2> QED
    BY <2>1, <2>2, <2>3 DEF Registers
<1>6. TypeOK'
  BY <1>1, <1>2, <1>4, <1>5 DEF Inv, TypeOK, BootSteps, procVars
<1>7. PhaseOK'
  BY <1>1, <1>2, <1>5 DEF Inv, PhaseOK, procVars
<1>8. ContextsOK'
  BY <1>1, <1>2, <1>3, <1>4 DEF ContextsOK, procVars
<1>9. \A p \in Users : /\ Live(p)'.rpl = 3 /\ Live(p)'.intr /\ Live(p)'.eip = 0
                       /\ ~ InSyscall(p)'
  BY <1>1, <1>3, <1>4, <1>5, RegistersType DEF Live, InSyscall
<1>10. RunOK'
  BY <1>1, <1>2, <1>9 DEF RunOK, RegistersIntact, Done
<1>11. PrintOK'
  <2>1. \A p \in Users : ~ Done(p)' /\ ~ Printed(p)'
    BY <1>3, <1>9 DEF Done, Printed
  <2> QED
    BY <1>2, <1>3, <2>1 DEF PrintOK, PrintsOwnMessage
<1>12. HaltOK'
  BY <1>1 DEF HaltOK, HaltsOnlyByOversight
<1>13. WaitOK'
  <2>1. \A p \in Users : Behind(p)' >= 0
    BY <1>3 DEF Behind, Users
  <2>2. context[Kernel].rpl # 3 => \A p \in Users : passed[p] = 0
    BY <1>1 DEF Inv, WaitOK
  <2> QED
    BY <1>1, <1>2, <1>4, <2>1, <2>2 DEF WaitOK
<1> QED
  BY <1>2, <1>6, <1>7, <1>8, <1>10, <1>11, <1>12, <1>13 DEF Inv
-----------------------------------------------------------------------------
(* The timer, the handlers and user code                                   *)

(* What RegistersIntact asks of the registers r of p, in a system call or  *)
(* not                                                                     *)
Good(p, r, sys) ==
    /\ r.rpl = 3 /\ r.intr /\ r.eip >= 0
    /\ r.eip \in 1 .. 3 \/ sys => r.eax = SYS_PRINT_STRING
    /\ r.eip >= 2 => r.ebx = DataVA
    /\ r.eip >= 3 => r.ecx = MsgLen[p]
    /\ r.eip = 4 /\ ~ sys => r.eax = IF MsgLen[p] = 0 THEN EINVAL ELSE SUCCESS

LEMMA IntactIsGood ==
    RegistersIntact <=>
        (cpu # "halted" =>
            \A p \in boot.made : Good(p, Live(p), InSyscall(p)))
BY DEF RegistersIntact, Good, Done

LEMMA IntactIsGoodNext ==
    RegistersIntact' <=>
        (cpu' # "halted" =>
            \A p \in boot'.made : Good(p, Live(p)', InSyscall(p)'))
BY DEF RegistersIntact, Good, Done

(* In the demo all processes are made and current_proc is one of them or   *)
(* the kernel process.                                                     *)
LEMMA GoneFacts ==
    ASSUME Inv, boot.pc = "gone"
    PROVE  /\ boot.made = Users /\ Ready = Users /\ boot.n = NProcs
           /\ current_proc \in Procs
           /\ current_proc # Kernel => current_proc \in Users
           /\ regs \in Registers /\ regs.rpl = 3
           /\ cr3 = page_directory[current_proc]
           /\ current_proc = Kernel => space[cr3] = Unmapped
           /\ current_proc # Kernel =>
                 page_directory[current_proc] = current_proc
                 /\ space[cr3] = Own(current_proc)
           /\ cpu # "halted" =>
                 \A p \in Users : Good(p, Live(p), InSyscall(p))
<1>1. boot.made = Users /\ Ready = Users /\ boot.n = NProcs
  BY DEF Inv, BootOK, Entered, Making, BeforePublish, Ready
<1>2. current_proc \in Procs /\ (current_proc # Kernel => current_proc \in Users)
  BY SchedSizes DEF Inv, TypeOK
<1>3. /\ regs \in Registers /\ regs.rpl = 3
      /\ cr3 = page_directory[current_proc]
  BY DEF Inv, PhaseOK, TypeOK
<1>4. current_proc = Kernel => space[cr3] = Unmapped
  BY <1>3 DEF Inv, DirsOK
<1>5. current_proc # Kernel =>
         page_directory[current_proc] = current_proc
         /\ space[cr3] = Own(current_proc)
  BY <1>1, <1>2, <1>3 DEF Inv, DirsOK
<1>6. cpu # "halted" => \A p \in Users : Good(p, Live(p), InSyscall(p))
  BY <1>1, IntactIsGood DEF Inv, RunOK
<1> QED
  BY <1>1, <1>2, <1>3, <1>4, <1>5, <1>6

(* A step that changes neither registers nor processes                     *)
LEMMA InvQuiet ==
    ASSUME Inv, UNCHANGED <<procVars, runVars, boot, regs, console>>,
           irq' \in [requested : BOOLEAN, inService : BOOLEAN],
           tick' \in 0 .. Slice - 1,
           cpu' \in {"boot", "user", "irq", "eoi", "iret", "syscall", "halted"},
           boot.pc # "gone" => cpu' \in {"boot", "irq", "eoi", "iret"},
           boot.pc = "gone" => cpu' # "boot",
           cpu' = "syscall" <=> cpu = "syscall",
           cpu = "halted" => cpu' = "halted",
           cpu' = "halted" => cpu = "halted" \/ esp0 = 0
    PROVE  Inv'
<1>1. TypeOK'
  BY DEF Inv, TypeOK, procVars, runVars
<1>2. BootOK' /\ DirsOK' /\ SlotFree'
  BY DEF Inv, BootOK, DirsOK, SlotFree, procVars
<1>3. ListOK'
  BY DEF Inv, ListOK, AllMade, Published, procVars
<1>4. PhaseOK' /\ ContextsOK'
  BY DEF Inv, PhaseOK, ContextsOK, Ready, procVars, runVars
<1>5. \A p : Live(p)' = Live(p) /\ InSyscall(p)' = InSyscall(p)
  BY DEF Live, InSyscall, runVars
<1>6. RunOK'
  BY <1>5, IntactIsGood, IntactIsGoodNext DEF Inv, RunOK, runVars
<1>7. PrintOK'
  <2>1. \A p : Done(p)' = Done(p) /\ Printed(p)' = Printed(p)
    BY <1>5 DEF Done, Printed
  <2> QED
    BY <2>1 DEF Inv, PrintOK, PrintsOwnMessage
<1>8. HaltOK'
  BY DEF Inv, HaltOK, HaltsOnlyByOversight, runVars
<1>9. WaitOK'
  BY DEF Inv, WaitOK, Behind, runVars
<1> QED
  BY <1>1, <1>2, <1>3, <1>4, <1>6, <1>7, <1>8, <1>9 DEF Inv

LEMMA InvTimerFires == Inv /\ TimerFires => Inv'
<1> SUFFICES ASSUME Inv, TimerFires PROVE Inv'
  OBVIOUS
<1>1. irq' \in [requested : BOOLEAN, inService : BOOLEAN]
  BY DEF TimerFires, Inv, TypeOK
<1>2. /\ tick' \in 0 .. Slice - 1
      /\ cpu' \in {"boot", "user", "irq", "eoi", "iret", "syscall", "halted"}
  BY DEF TimerFires, Inv, TypeOK
<1>3. /\ boot.pc # "gone" => cpu' \in {"boot", "irq", "eoi", "iret"}
      /\ boot.pc = "gone" => cpu' # "boot"
  BY DEF TimerFires, Inv, PhaseOK
<1> QED
  BY <1>1, <1>2, <1>3, InvQuiet DEF TimerFires

LEMMA InvIrqEntry == Inv /\ IrqEntry => Inv'
<1> SUFFICES ASSUME Inv, IrqEntry PROVE Inv'
  OBVIOUS
<1>1. irq' \in [requested : BOOLEAN, inService : BOOLEAN]
  BY DEF IrqEntry
<1>2. /\ tick' \in 0 .. Slice - 1 /\ cpu \in {"boot", "user"}
      /\ cpu' \in {"irq", "halted"}
      /\ cpu' = "halted" => cpu = "user" /\ esp0 = 0
  BY DEF IrqEntry, EnterKernel, Inv, TypeOK
<1>3. boot.pc # "gone" => cpu' = "irq"
  BY <1>2 DEF Inv, PhaseOK
<1> QED
  BY <1>1, <1>2, <1>3, InvQuiet DEF IrqEntry

LEMMA InvEoi == Inv /\ Eoi => Inv'
<1> SUFFICES ASSUME Inv, Eoi PROVE Inv'
  OBVIOUS
<1>1. irq' \in [requested : BOOLEAN, inService : BOOLEAN]
  BY DEF Eoi, Inv, TypeOK
<1>2. tick' \in 0 .. Slice - 1 /\ cpu = "eoi" /\ cpu' = "iret"
  BY DEF Eoi, Inv, TypeOK
<1> QED
  BY <1>1, <1>2, InvQuiet DEF Eoi

LEMMA InvIret == Inv /\ Iret => Inv'
<1> SUFFICES ASSUME Inv, Iret PROVE Inv'
  OBVIOUS
<1>1. irq' \in [requested : BOOLEAN, inService : BOOLEAN]
  BY DEF Iret, Inv, TypeOK
<1>2. /\ tick' \in 0 .. Slice - 1 /\ cpu = "iret"
      /\ cpu' = IF regs.rpl = 3 THEN "user" ELSE "boot"
  BY DEF Iret, Inv, TypeOK
<1>3. regs.rpl = 3 <=> boot.pc = "gone"
  BY RegistersType DEF Inv, PhaseOK
<1> QED
  BY <1>1, <1>2, <1>3, InvQuiet DEF Iret

(* A step of the current process in user mode or in its system call: it    *)
(* has its own registers, and the others keep theirs.                      *)
LEMMA InvOwnStep ==
    ASSUME Inv, boot.pc = "gone", cpu \in {"user", "syscall"},
           current_proc # Kernel,
           UNCHANGED <<procVars, runVars, boot, irq, tick>>,
           regs' \in Registers, regs'.rpl = 3,
           console' \in Seq([by : Procs, msg : Procs, len : 0 .. BufLen - 1]),
           cpu' \in {"user", "syscall", "iret", "halted"},
           cpu' = "syscall" => regs'.eip = 4,
           cpu' = "halted" => esp0 = 0,
           cpu' # "halted" => Good(current_proc, regs', cpu' = "syscall"),
           PrintsOwnMessage'
    PROVE  Inv'
<1>1. TypeOK'
  BY DEF Inv, TypeOK, procVars, runVars
<1>2. BootOK' /\ DirsOK' /\ SlotFree'
  BY DEF Inv, BootOK, DirsOK, SlotFree, procVars
<1>3. ListOK'
  BY DEF Inv, ListOK, AllMade, Published, procVars
<1>4. PhaseOK' /\ ContextsOK'
  BY DEF Inv, PhaseOK, ContextsOK, Ready, procVars, runVars
<1>5. cpu' # "halted" => \A p \in Users : Good(p, Live(p)', InSyscall(p)')
  <2> SUFFICES ASSUME cpu' # "halted", NEW p \in Users
               PROVE  Good(p, Live(p)', InSyscall(p)')
    OBVIOUS
  <2>1. CASE p = current_proc
    <3>1. Live(p)' = regs' /\ InSyscall(p)' = (cpu' = "syscall")
      BY <2>1 DEF Live, InSyscall, runVars
    <3> QED
      BY <2>1, <3>1
  <2>2. CASE p # current_proc
    <3>1. /\ Live(p)' = context[p] /\ InSyscall(p)' = FALSE
          /\ Live(p) = context[p] /\ InSyscall(p) = FALSE
      BY <2>2 DEF Live, InSyscall, runVars
    <3>2. Good(p, Live(p), InSyscall(p))
      BY GoneFacts
    <3> QED
      BY <3>1, <3>2
  <2> QED
    BY <2>1, <2>2
<1>6. RunOK'
  BY <1>5, GoneFacts, IntactIsGoodNext DEF RunOK, runVars
<1>7. PrintOK' /\ HaltOK'
  BY DEF PrintOK, HaltOK, HaltsOnlyByOversight, runVars
<1>8. WaitOK'
  BY DEF Inv, WaitOK, Behind, runVars
<1> QED
  BY <1>1, <1>2, <1>3, <1>4, <1>6, <1>7, <1>8 DEF Inv

(* What an instruction of the program of p does to its registers           *)
LEMMA ExecuteOK ==
    ASSUME NEW p \in Users, regs \in Registers, Good(p, regs, FALSE),
           cpu = "user", Execute(p)
    PROVE  /\ regs' \in Registers /\ regs'.rpl = 3 /\ regs.eip # 4
           /\ cpu' # "halted" => Good(p, regs', cpu' = "syscall")
           /\ \/ cpu' = "user" /\ regs'.eip \in 1 .. 3
              \/ cpu' = "syscall" /\ regs'.eip = 4
              \/ cpu' = "halted" /\ esp0 = 0
<1>0. MsgLen[p] \in Int
  BY SchedAssumption
<1>1. CASE regs.eip = 0 /\ cpu' = cpu
           /\ regs' = [regs EXCEPT !.eip = 1, !.eax = SYS_PRINT_STRING]
  <2> DEFINE r == [regs EXCEPT !.eip = 1]
  <2>1. r \in Registers /\ r.rpl = 3 /\ r.intr /\ r.eip = 1
    BY DEF Registers, Good
  <2>2. regs' = [r EXCEPT !.eax = SYS_PRINT_STRING]
    BY <1>1, Zenon
  <2> HIDE DEF r
  <2>3. /\ regs' \in Registers /\ regs'.rpl = 3 /\ regs'.intr /\ regs'.eip = 1
        /\ regs'.eax = SYS_PRINT_STRING
    BY <2>1, <2>2 DEF Registers, SYS_PRINT_STRING
  <2>4. regs.eip = 0 /\ cpu' = "user"
    BY <1>1, Zenon
  <2> QED
    BY <2>3, <2>4 DEF Good
<1>2. CASE regs.eip = 1 /\ cpu' = cpu
           /\ regs' = [regs EXCEPT !.eip = 2, !.ebx = DataVA]
  <2> DEFINE r == [regs EXCEPT !.eip = 2]
  <2>1. /\ r \in Registers /\ r.rpl = 3 /\ r.intr /\ r.eip = 2
        /\ r.eax = SYS_PRINT_STRING
    <3>1. regs.eip = 1
      BY <1>2, Zenon
    <3> QED
      BY <3>1 DEF Registers, Good
  <2>2. regs' = [r EXCEPT !.ebx = DataVA]
    BY <1>2, Zenon
  <2> HIDE DEF r
  <2>3. /\ regs' \in Registers /\ regs'.rpl = 3 /\ regs'.intr /\ regs'.eip = 2
        /\ regs'.eax = SYS_PRINT_STRING /\ regs'.ebx = DataVA
    BY <2>1, <2>2 DEF Registers
  <2>4. regs.eip = 1 /\ cpu' = "user"
    BY <1>2, Zenon
  <2> QED
    BY <2>3, <2>4 DEF Good
<1>3. CASE regs.eip = 2 /\ cpu' = cpu
           /\ regs' = [regs EXCEPT !.eip = 3, !.ecx = MsgLen[p]]
  <2> DEFINE r == [regs EXCEPT !.eip = 3]
  <2>1. /\ r \in Registers /\ r.rpl = 3 /\ r.intr /\ r.eip = 3
        /\ r.eax = SYS_PRINT_STRING /\ r.ebx = DataVA
    <3>1. regs.eip = 2
      BY <1>3, Zenon
    <3> QED
      BY <3>1 DEF Registers, Good
  <2>2. regs' = [r EXCEPT !.ecx = MsgLen[p]]
    BY <1>3, Zenon
  <2> HIDE DEF r
  <2>3. /\ regs' \in Registers /\ regs'.rpl = 3 /\ regs'.intr /\ regs'.eip = 3
        /\ regs'.eax = SYS_PRINT_STRING /\ regs'.ebx = DataVA
        /\ regs'.ecx = MsgLen[p]
    BY <1>0, <2>1, <2>2 DEF Registers
  <2>4. regs.eip = 2 /\ cpu' = "user"
    BY <1>3, Zenon
  <2> QED
    BY <2>3, <2>4 DEF Good
<1>4. CASE regs.eip = 3 /\ regs' = [regs EXCEPT !.eip = 4]
           /\ EnterKernel("syscall")
  <2>1. /\ regs' \in Registers /\ regs'.rpl = 3 /\ regs'.intr /\ regs'.eip = 4
        /\ regs'.eax = SYS_PRINT_STRING /\ regs'.ebx = DataVA
        /\ regs'.ecx = MsgLen[p]
    BY <1>4 DEF Registers, Good
  <2>2. cpu' = "syscall" \/ (cpu' = "halted" /\ esp0 = 0)
    <3>1. cpu' = IF cpu = "user" /\ esp0 = 0 THEN "halted" ELSE "syscall"
      BY <1>4, Zenon DEF EnterKernel
    <3> QED
      BY <3>1
  <2>3. regs.eip = 3
    BY <1>4, Zenon
  <2> QED
    BY <2>1, <2>2, <2>3 DEF Good
<1> QED
  BY <1>1, <1>2, <1>3, <1>4 DEF Execute

LEMMA InvUserStep == Inv /\ UserStep => Inv'
<1> SUFFICES ASSUME Inv, UserStep PROVE Inv'
  OBVIOUS
<1>1. cpu = "user" /\ UNCHANGED <<procVars, runVars, boot, irq, tick, console>>
  BY DEF UserStep
<1>2. boot.pc = "gone"
  BY <1>1 DEF Inv, PhaseOK
<1>3. CASE current_proc = Kernel
  <2>1. space[cr3].code = 0
    BY <1>2, <1>3, GoneFacts DEF Unmapped
  <2>2. cpu' = "halted" /\ regs' = regs
    BY <2>1 DEF UserStep
  <2>3. TypeOK'
    BY <1>1, <2>2 DEF Inv, TypeOK, procVars, runVars
  <2>4. BootOK' /\ DirsOK' /\ SlotFree'
    BY <1>1 DEF Inv, BootOK, DirsOK, SlotFree, procVars
  <2>5. ListOK'
    BY <1>1 DEF Inv, ListOK, AllMade, Published, procVars
  <2>6. PhaseOK' /\ ContextsOK'
    BY <1>1, <1>2, <2>2 DEF Inv, PhaseOK, ContextsOK, Ready, procVars, runVars
  <2>7. RunOK' /\ HaltOK'
    BY <1>1, <1>3, <2>2
       DEF RunOK, HaltOK, HaltsOnlyByOversight, RegistersIntact, runVars
  <2>8. PrintOK'
    BY <1>1, <2>2 DEF Inv, PrintOK, PrintsOwnMessage
  <2>9. WaitOK'
    BY <1>1 DEF Inv, WaitOK, Behind, runVars
  <2> QED
    BY <2>3, <2>4, <2>5, <2>6, <2>7, <2>8, <2>9 DEF Inv
<1>4. CASE current_proc # Kernel
  <2>1. current_proc \in Users /\ space[cr3].code = current_proc
        /\ current_proc # 0 /\ regs \in Registers
    BY <1>2, <1>4, GoneFacts DEF Own, Kernel
  <2>2. Live(current_proc) = regs /\ InSyscall(current_proc) = FALSE
    BY <1>1, <1>2, GoneFacts DEF Live, InSyscall
  <2>3. Good(current_proc, regs, FALSE)
    <3>1. Good(current_proc, Live(current_proc), InSyscall(current_proc))
      BY <1>1, <1>2, <2>1, GoneFacts
    <3> QED
      BY <2>2, <3>1
  <2>4. Execute(current_proc)
    BY <2>1 DEF UserStep
  <2>5. /\ regs' \in Registers /\ regs'.rpl = 3 /\ regs.eip # 4
        /\ cpu' # "halted" => Good(current_proc, regs', cpu' = "syscall")
        /\ \/ cpu' = "user" /\ regs'.eip \in 1 .. 3
           \/ cpu' = "syscall" /\ regs'.eip = 4
           \/ cpu' = "halted" /\ esp0 = 0
    BY <1>1, <2>1, <2>3, <2>4, ExecuteOK
  <2>6. PrintsOwnMessage'
    <3>1. \A p : Printed(p)' = Printed(p)
      BY <1>1 DEF Printed
    <3>2. ASSUME cpu' # "halted", NEW p \in Users PROVE Done(p)' <=> Done(p)
      <4>1. CASE p = current_proc
        <5>1. ~ Done(p)
          BY <2>2, <2>5, <4>1 DEF Done
        <5>2. Live(p)' = regs' /\ (InSyscall(p)' <=> cpu' = "syscall")
          BY <1>1, <2>5, <4>1 DEF Live, InSyscall, runVars
        <5>3. ~ Done(p)'
          BY <2>5, <3>2, <5>2 DEF Done
        <5> QED
          BY <5>1, <5>3 DEF Done
      <4>2. CASE p # current_proc
        BY <1>1, <4>2 DEF Done, Live, InSyscall, runVars
      <4> QED
        BY <4>1, <4>2
    <3>3. PrintsOwnMessage /\ boot.made = Users
      BY <1>2, GoneFacts DEF Inv, PrintOK
    <3> QED
      BY <1>1, <3>1, <3>2, <3>3 DEF PrintsOwnMessage
  <2>7. console' \in Seq([by : Procs, msg : Procs, len : 0 .. BufLen - 1])
    BY <1>1 DEF Inv, TypeOK
  <2> QED
    BY <1>1, <1>2, <1>4, <2>5, <2>6, <2>7, InvOwnStep
<1> QED
  BY <1>3, <1>4

(* The system call prints the caller's message, once and no more than fits *)
(* the buffer.                                                             *)
LEMMA Invsyscall_dispatch == Inv /\ syscall_dispatch => Inv'
<1> SUFFICES ASSUME Inv, syscall_dispatch PROVE Inv'
  OBVIOUS
<1> DEFINE cur == current_proc
<1>1. /\ cpu = "syscall" /\ cpu' = "iret"
      /\ UNCHANGED <<procVars, runVars, boot, irq, tick>>
  BY DEF syscall_dispatch
<1>2. boot.pc = "gone" /\ cur # Kernel /\ regs.eip = 4
  BY <1>1 DEF Inv, PhaseOK, RunOK
<1>3. /\ cur \in Users /\ cur \in Procs /\ cur # 0 /\ boot.made = Users
      /\ space[cr3].data = cur /\ space[page_directory[cur]].data = cur
      /\ regs \in Registers /\ regs.rpl = 3
  BY <1>2, GoneFacts DEF Own, Kernel
<1>4. Live(cur) = regs /\ InSyscall(cur)
  BY <1>1, <1>3 DEF Live, InSyscall
<1>5. Good(cur, regs, TRUE)
  <2>1. Good(cur, Live(cur), InSyscall(cur))
    BY <1>1, <1>2, <1>3, GoneFacts
  <2>2. InSyscall(cur) = TRUE
    BY <1>4 DEF InSyscall
  <2> QED
    BY <1>4, <2>1, <2>2
<1>6. /\ regs.eax = SYS_PRINT_STRING /\ regs.ebx = DataVA
      /\ regs.ecx = MsgLen[cur] /\ MsgLen[cur] \in Nat /\ regs.intr
  BY <1>2, <1>3, <1>5, SchedAssumption DEF Good
<1>7. sys_print_string
  BY <1>6 DEF syscall_dispatch
<1>8. PrintsOwnMessage /\ ~ Done(cur) /\ ~ Printed(cur)
  BY <1>1, <1>2, <1>3, <1>4 DEF Inv, PrintOK, PrintsOwnMessage, Done
<1> DEFINE Lines == [by : Procs, msg : Procs, len : 0 .. BufLen - 1]
<1>9. console \in Seq(Lines) /\ Len(console) \in Nat
  BY DEF Inv, TypeOK
<1>10. ASSUME NEW v \in {EINVAL, SUCCESS}, regs' = [regs EXCEPT !.eax = v]
       PROVE  /\ regs' \in Registers /\ regs'.rpl = 3 /\ regs'.eip = 4
              /\ regs'.intr /\ regs'.eax = v /\ regs'.ebx = DataVA
              /\ regs'.ecx = MsgLen[cur]
  BY <1>2, <1>3, <1>6, <1>10 DEF Registers
<1>11. ASSUME regs'.rpl = 3, regs'.eip = 4
       PROVE  \A p \in Users : IF p = cur THEN Done(p)'
                                            ELSE Done(p)' <=> Done(p)
  BY <1>1, <1>3, <1>11 DEF Done, Live, InSyscall, runVars
<1>12. CASE MsgLen[cur] = 0
  <2>1. regs' = [regs EXCEPT !.eax = EINVAL] /\ console' = console
    BY <1>6, <1>7, <1>12 DEF sys_print_string
  <2>2. /\ regs' \in Registers /\ regs'.rpl = 3 /\ regs'.eip = 4
        /\ regs'.intr /\ regs'.eax = EINVAL /\ regs'.ebx = DataVA
        /\ regs'.ecx = MsgLen[cur]
    BY <1>10, <2>1
  <2>3. Good(cur, regs', FALSE)
    BY <1>12, <2>2 DEF Good
  <2>4. PrintsOwnMessage'
    <3>1. \A p : Printed(p)' = Printed(p)
      BY <2>1 DEF Printed
    <3>2. \A p \in Users : Done(p) /\ MsgLen[p] # 0 <=> Printed(p)
      BY <1>1, <1>3, <1>8 DEF PrintsOwnMessage
    <3>3. \A p \in Users : Done(p)' /\ MsgLen[p] # 0 <=> Printed(p)'
      BY <1>8, <1>11, <1>12, <2>2, <3>1, <3>2
    <3> QED
      BY <1>1, <1>3, <1>8, <2>1, <3>3 DEF PrintsOwnMessage
  <2> QED
    BY <1>1, <1>2, <1>9, <2>1, <2>2, <2>3, <2>4, InvOwnStep
<1>13. CASE MsgLen[cur] # 0
  <2> DEFINE e == copy_user_string(cur, MsgLen[cur])
             m == Least({MsgLen[cur], BufLen - 1})
  <2>1. regs' = [regs EXCEPT !.eax = SUCCESS] /\ console' = Append(console, e)
    BY <1>3, <1>6, <1>7, <1>13 DEF sys_print_string, user_addr_accessible
  <2>2. e = [by |-> cur, msg |-> cur, len |-> m]
    <3>1. {MsgLen[cur], BufLen - 1, MsgLen[cur]} = {MsgLen[cur], BufLen - 1}
      OBVIOUS
    <3> QED
      BY <3>1 DEF copy_user_string
  <2>3. m \in 0 .. BufLen - 1
    <3>1. BufLen - 1 \in Nat
      BY SchedAssumption
    <3>2. m = IF MsgLen[cur] <= BufLen - 1 THEN MsgLen[cur] ELSE BufLen - 1
      BY <1>6, <3>1, LeastOfTwo
    <3> HIDE DEF m
    <3> QED
      BY <1>6, <3>1, <3>2
  <2> HIDE DEF e, m
  <2>4. e \in Lines
    BY <1>3, <2>2, <2>3
  <2>5. /\ console' \in Seq(Lines) /\ Len(console') = Len(console) + 1
        /\ \A i \in 1 .. Len(console) : console'[i] = console[i]
        /\ console'[Len(console) + 1] = e
    BY <1>9, <2>1, <2>4
  <2>6. /\ regs' \in Registers /\ regs'.rpl = 3 /\ regs'.eip = 4
        /\ regs'.intr /\ regs'.eax = SUCCESS /\ regs'.ebx = DataVA
        /\ regs'.ecx = MsgLen[cur]
    BY <1>10, <2>1
  <2>7. Good(cur, regs', FALSE)
    BY <1>13, <2>6 DEF Good
  <2>8. PrintsOwnMessage'
    <3> DEFINE n == Len(console)
    <3>1. \A i \in 1 .. n : console[i].by # cur
      BY <1>8 DEF Printed
    <3>2. e.by = cur /\ e.msg = cur /\ e.len = m
      BY <2>2
    <3>3. \A i \in 1 .. n + 1 : i \in 1 .. n \/ i = n + 1
      BY <1>9
    <3>4. \A i \in 1 .. n + 1 :
             /\ console'[i].by \in Users /\ console'[i].msg = console'[i].by
             /\ console'[i].len = Least({MsgLen[console'[i].by], BufLen - 1})
      BY <1>3, <1>8, <2>5, <3>2, <3>3 DEF PrintsOwnMessage, m
    <3>5. \A i, j \in 1 .. n + 1 : console'[i].by = console'[j].by => i = j
      BY <1>8, <2>5, <3>1, <3>2, <3>3 DEF PrintsOwnMessage
    <3>6. \A p \in Users : p # cur => (Printed(p)' <=> Printed(p))
      <4> SUFFICES ASSUME NEW p \in Users, p # cur
                   PROVE  (\E i \in 1 .. n + 1 : console'[i].by = p)
                          <=> (\E i \in 1 .. n : console[i].by = p)
        BY <2>5 DEF Printed
      <4>1. \A i \in 1 .. n : i \in 1 .. n + 1
        BY <1>9
      <4> QED
        BY <2>5, <3>2, <3>3, <4>1
    <3>7. \A p \in Users : p = cur => Printed(p)'
      <4>1. n + 1 \in 1 .. n + 1
        BY <1>9
      <4> QED
        BY <2>5, <3>2, <4>1 DEF Printed
    <3>8. \A p \in Users : Done(p) /\ MsgLen[p] # 0 <=> Printed(p)
      BY <1>1, <1>3, <1>8 DEF PrintsOwnMessage
    <3>9. ASSUME NEW p \in Users
          PROVE  Done(p)' /\ MsgLen[p] # 0 <=> Printed(p)'
      <4>1. CASE p = cur
        BY <1>11, <1>13, <2>6, <3>7, <4>1
      <4>2. CASE p # cur
        BY <1>11, <2>6, <3>6, <3>8, <4>2
      <4> QED
        BY <4>1, <4>2
    <3> QED
      BY <1>1, <1>3, <2>5, <3>4, <3>5, <3>9 DEF PrintsOwnMessage
  <2> QED
    BY <1>1, <1>2, <2>5, <2>6, <2>7, <2>8, InvOwnStep
<1> QED
  BY <1>12, <1>13
-----------------------------------------------------------------------------
(* The scheduler                                                           *)

(* With the kernel process out of the way, pick_next_proc goes round the   *)
(* processes in the order they were made.                                  *)
LEMMA PickRoundRobin ==
    ASSUME Inv, boot.pc = "gone", cpu # "halted", context[Kernel].rpl # 3
    PROVE  /\ current_proc \in Users
           /\ pick_next_proc(current_proc) =
                IF NProcs = 1 THEN Null
                ELSE IF current_proc < NProcs THEN current_proc + 1 ELSE 1
<1> USE SchedSizes
<1> DEFINE cur == current_proc
<1>1. boot.made = Users /\ Ready = Users /\ boot.n = NProcs
  BY GoneFacts
<1>2. cur \in Users
  BY GoneFacts DEF Inv, ContextsOK
<1>3. NProcs \in Slots
      /\ \A i \in Slots : proc_list[i] = IF i <= NProcs THEN i ELSE Null
  <2>1. AllMade /\ Published = NProcs
    BY <1>1 DEF AllMade, Published, Making, BeforePublish, Users
  <2> QED
    BY <2>1 DEF Inv, ListOK
<1>4. \A p \in Users : p # cur => procstate[p] = "RUNNING" /\ context[p].rpl = 3
  <2>1. \A p \in Users : p # cur => Live(p) = context[p]
    BY DEF Live
  <2>2. \A p \in Users : Live(p).rpl = 3
    BY GoneFacts DEF Good
  <2> QED
    BY <1>1, <2>1, <2>2 DEF Inv, ContextsOK
<1>5. \A i \in Slots : i \in Int /\ i >= 0
  BY DEF Slots
<1>6. \A i \in Slots : Eligible(cur, i) <=> i \in 1 .. NProcs /\ i # cur
  <2> SUFFICES ASSUME NEW i \in Slots
               PROVE  Eligible(cur, i) <=> i \in 1 .. NProcs /\ i # cur
    OBVIOUS
  <2>1. CASE i > NProcs
    <3>1. proc_list[i] = Null /\ i \notin 1 .. NProcs
      BY <1>3, <1>5, <2>1
    <3> QED
      BY <3>1 DEF Eligible
  <2>2. CASE i = 0
    <3>1. proc_list[i] = Kernel
      BY <1>3, <2>2 DEF Kernel
    <3> QED
      BY <2>2, <3>1 DEF Eligible
  <2>3. CASE i \in 1 .. NProcs
    <3>1. proc_list[i] = i /\ i \in Users /\ i # Null
      BY <1>3, <2>3 DEF Users, Null
    <3> QED
      BY <1>4, <2>3, <3>1 DEF Eligible
  <2> QED
    BY <1>5, <2>1, <2>2, <2>3
<1>7. cur \in 1 .. NProcs /\ cur \in Slots /\ 1 \in Slots
  BY <1>2, <1>3 DEF Users, Slots
<1>8. After(cur) = cur + 1
  <2>1. {i \in Slots : proc_list[i] = cur} = {cur}
    <3>1. ASSUME NEW i \in Slots PROVE proc_list[i] = cur <=> i = cur
      <4>1. CASE i <= NProcs
        <5>1. proc_list[i] = i
          BY <1>3, <4>1
        <5> QED
          BY <5>1
      <4>2. CASE ~ (i <= NProcs)
        <5>1. proc_list[i] = Null
          BY <1>3, <4>2
        <5>2. cur # Null
          BY <1>7 DEF Null
        <5>3. cur <= NProcs
          BY <1>7
        <5> QED
          BY <4>2, <5>1, <5>2, <5>3
      <4> QED
        BY <4>1, <4>2
    <3> QED
      BY <1>7, <3>1
  <2>2. Least({cur}) = cur
    BY <1>7, LeastOfOne
  <2> QED
    BY <2>1, <2>2 DEF After
<1>9. CASE cur < NProcs
  <2>1. cur + 1 \in Slots
    BY <1>3, <1>7, <1>9 DEF Slots
  <2>2. \A i \in Slots : FirstEligible(cur, cur + 1, i) <=> i = cur + 1
    <3>1. Eligible(cur, cur + 1)
      BY <1>6, <1>7, <1>9, <2>1
    <3>2. FirstEligible(cur, cur + 1, cur + 1)
      BY <1>5, <1>7, <3>1 DEF FirstEligible
    <3>3. ASSUME NEW i \in Slots, FirstEligible(cur, cur + 1, i)
          PROVE  i = cur + 1
      BY <1>5, <1>7, <2>1, <3>1, <3>3 DEF FirstEligible
    <3> QED
      BY <3>2, <3>3
  <2>3. (CHOOSE i \in Slots : FirstEligible(cur, cur + 1, i)) = cur + 1
    BY <2>1, <2>2
  <2>4. proc_list[cur + 1] = cur + 1
    BY <1>3, <1>7, <1>9, <2>1
  <2>5. pick_next_proc(cur) = cur + 1
    BY <1>8, <2>1, <2>2, <2>3, <2>4 DEF pick_next_proc
  <2> QED
    BY <1>2, <1>7, <1>9, <2>5
<1>10. CASE cur = NProcs
  <2>1. ~ \E i \in Slots : FirstEligible(cur, cur + 1, i)
    BY <1>5, <1>6, <1>7, <1>10 DEF FirstEligible
  <2>2. CASE NProcs = 1
    <3>1. ~ \E i \in Slots : FirstEligible(cur, 0, i)
      BY <1>6, <1>10, <2>2 DEF FirstEligible
    <3> QED
      BY <1>2, <1>8, <2>1, <2>2, <3>1 DEF pick_next_proc
  <2>3. CASE NProcs # 1
    <3>1. \A i \in Slots : FirstEligible(cur, 0, i) <=> i = 1
      <4>1. Eligible(cur, 1)
        BY <1>6, <1>7, <1>10, <2>3
      <4>2. FirstEligible(cur, 0, 1)
        BY <1>6, <4>1 DEF FirstEligible
      <4>3. ASSUME NEW i \in Slots, FirstEligible(cur, 0, i) PROVE i = 1
        <5>1. i <= 1 /\ i \in 1 .. NProcs
          BY <1>5, <1>6, <1>7, <4>1, <4>3 DEF FirstEligible
        <5> QED
          BY <5>1
      <4> QED
        BY <4>2, <4>3
    <3>2. (CHOOSE i \in Slots : FirstEligible(cur, 0, i)) = 1
      BY <1>7, <3>1
    <3>3. proc_list[1] = 1
      BY <1>3, <1>7
    <3>4. pick_next_proc(cur) = 1
      BY <1>7, <1>8, <2>1, <3>1, <3>2, <3>3 DEF pick_next_proc
    <3> QED
      BY <1>2, <1>10, <2>3, <3>4
  <2> QED
    BY <2>2, <2>3
<1> QED
  BY <1>7, <1>9, <1>10

(* A tick saves the frame to the context of current_proc, and may switch   *)
(* to another process: whoever has the processor, each process keeps its   *)
(* registers.                                                              *)
LEMMA InvSwitch ==
    ASSUME Inv, boot.pc = "gone", cpu = "irq", cpu' = "eoi",
           UNCHANGED <<procVars, boot, irq, console>>,
           tick' \in 0 .. Slice - 1, scheduler_switch_next
    PROVE  Inv'
<1> USE SchedSizes
<1> DEFINE cur == current_proc
           next == pick_next_proc(current_proc)
<1>1. /\ boot.made = Users /\ Ready = Users /\ cur \in Procs
      /\ regs \in Registers /\ regs.rpl = 3
      /\ \A p \in Users : Good(p, Live(p), InSyscall(p))
  BY GoneFacts
<1>2. context \in [Procs -> Registers]
  BY DEF Inv, TypeOK
<1>3. context' = [context EXCEPT ![cur] = regs]
  BY <1>1 DEF scheduler_switch_next, scheduler_switch_process,
              proc_context_from_regs
<1>4. \/ next \in {Null, cur} /\ UNCHANGED <<current_proc, cr3, esp0, regs, passed>>
      \/ /\ next \notin {Null, cur} /\ current_proc' = next
         /\ esp0' = kstack[next] /\ cr3' = page_directory[next]
         /\ regs' = context[next]
         /\ passed' = [p \in Users |-> IF p = next THEN 0 ELSE passed[p] + 1]
  BY <1>1 DEF scheduler_switch_next, scheduler_switch_process,
              tss_set_kernel_stack, swap_dir, proc_context_to_regs
<1>5. next # Null => next \in Procs /\ next # cur /\ context[next].rpl = 3
  <2> SUFFICES ASSUME next # Null
               PROVE  next \in Procs /\ next # cur /\ context[next].rpl = 3
    OBVIOUS
  <2>1. PICK i \in Slots : Eligible(cur, i) /\ next = proc_list[i]
    BY PickEligible
  <2>2. proc_list[i] \in Procs \cup {Null}
    BY DEF Inv, TypeOK
  <2> HIDE DEF next
  <2> QED
    BY <2>1, <2>2 DEF Eligible
<1> HIDE DEF next
<1>6. /\ current_proc' \in Procs /\ regs' \in Registers /\ regs'.rpl = 3
      /\ esp0' = kstack[current_proc'] /\ cr3' = page_directory[current_proc']
      /\ \/ current_proc' = cur /\ regs' = regs
         \/ /\ current_proc' # cur /\ regs' = context[current_proc']
            /\ context[current_proc'].rpl = 3
  <2>1. CASE next \in {Null, cur}
    <3>1. esp0 = kstack[cur] /\ cr3 = page_directory[cur]
      BY DEF Inv, PhaseOK
    <3>2. UNCHANGED <<current_proc, cr3, esp0, regs>>
      BY <1>4, <2>1
    <3> QED
      BY <1>1, <3>1, <3>2
  <2>2. CASE next \notin {Null, cur}
    BY <1>2, <1>4, <1>5, <2>2
  <2> QED
    BY <2>1, <2>2
<1>7. TypeOK'
  <2>1. context' \in [Procs -> Registers]
    BY <1>1, <1>2, <1>3
  <2>2. passed' \in [Users -> Nat]
    <3>1. passed \in [Users -> Nat]
      BY DEF Inv, TypeOK
    <3>2. \/ passed' = passed
          \/ passed' = [p \in Users |-> IF p = next THEN 0 ELSE passed[p] + 1]
      BY <1>4
    <3> QED
      BY <3>1, <3>2
  <2>3. esp0' \in Kstacks /\ cr3' \in Dirs
    BY <1>6 DEF Inv, TypeOK
  <2> QED
    BY <1>6, <2>1, <2>2, <2>3 DEF Inv, TypeOK, procVars
<1>8. BootOK' /\ DirsOK' /\ SlotFree'
  BY DEF Inv, BootOK, DirsOK, SlotFree, procVars
<1>9. ListOK'
  BY DEF Inv, ListOK, AllMade, Published, procVars
<1>10. PhaseOK'
  BY <1>6 DEF PhaseOK, procVars
<1>11. ContextsOK'
  <2>1. current_proc' = Kernel => context'[Kernel].rpl = 3
    <3>1. CASE current_proc' = cur
      BY <1>1, <1>2, <1>3, <3>1
    <3>2. CASE current_proc' # cur
      BY <1>2, <1>3, <1>6, <3>2
    <3> QED
      BY <3>1, <3>2
  <2> QED
    BY <2>1 DEF Inv, ContextsOK, Ready, procVars
<1>12. \A p \in Users : Live(p)' = Live(p) /\ InSyscall(p)' = InSyscall(p)
  <2> SUFFICES ASSUME NEW p \in Users
               PROVE  Live(p)' = Live(p) /\ InSyscall(p)' = InSyscall(p)
    OBVIOUS
  <2>1. InSyscall(p)' = FALSE /\ InSyscall(p) = FALSE
    BY DEF InSyscall
  <2>2. Live(p) = IF cur = p THEN regs ELSE context[p]
    BY <1>1 DEF Live
  <2>3. Live(p)' = IF current_proc' = p THEN regs' ELSE context'[p]
    BY <1>6 DEF Live
  <2>4. context'[p] = IF cur = p THEN regs ELSE context[p]
    BY <1>1, <1>2, <1>3
  <2>5. Live(p)' = Live(p)
    BY <1>6, <2>2, <2>3, <2>4
  <2> QED
    BY <2>1, <2>5
<1>13. RunOK'
  <2>1. \A p \in boot'.made : Good(p, Live(p)', InSyscall(p)')
    BY <1>1, <1>12
  <2> QED
    BY <2>1, IntactIsGoodNext DEF RunOK
<1>14. PrintOK' /\ HaltOK'
  <2>1. \A p \in Users : (Done(p)' <=> Done(p)) /\ (Printed(p)' <=> Printed(p))
    BY <1>12 DEF Done, Printed
  <2>2. PrintsOwnMessage
    BY DEF Inv, PrintOK
  <2> QED
    BY <1>1, <2>1, <2>2 DEF PrintOK, HaltOK, PrintsOwnMessage, HaltsOnlyByOversight
<1>15. WaitOK'
  <2> SUFFICES ASSUME context'[Kernel].rpl # 3, NEW p \in Users
               PROVE  passed'[p] <= Behind(p)'
    BY DEF WaitOK
  <2>1. cur # Kernel /\ context[Kernel].rpl # 3
    <3>1. cur # Kernel
      BY <1>1, <1>2, <1>3
    <3> QED
      BY <1>1, <1>2, <1>3, <3>1
  <2>2. passed[p] <= Behind(p) /\ passed[p] \in Nat
    BY <2>1 DEF Inv, WaitOK, TypeOK
  <2>3. /\ cur \in 1 .. NProcs
        /\ next = IF NProcs = 1 THEN Null
                  ELSE IF cur < NProcs THEN cur + 1 ELSE 1
    BY <2>1, PickRoundRobin DEF next, Users
  <2>4. p \in 1 .. NProcs
    BY DEF Users
  <2>5. CASE next \in {Null, cur}
    BY <1>4, <2>2, <2>5 DEF Behind
  <2>6. CASE next \notin {Null, cur}
    <3>1. /\ current_proc' = next
          /\ passed'[p] = IF p = next THEN 0 ELSE passed[p] + 1
      BY <1>4, <2>6
    <3>2. next = IF cur < NProcs THEN cur + 1 ELSE 1
      BY <2>3, <2>6
    <3>3. p # next => Behind(p)' = Behind(p) + 1
      BY <2>3, <2>4, <3>1, <3>2 DEF Behind
    <3>4. p = next => Behind(p)' = 0
      BY <2>3, <2>4, <3>1, <3>2 DEF Behind
    <3>5. Behind(p) \in Int
      BY <2>3, <2>4 DEF Behind
    <3> QED
      BY <2>2, <3>1, <3>3, <3>4, <3>5
  <2> QED
    BY <2>5, <2>6
<1> QED
  BY <1>7, <1>8, <1>9, <1>10, <1>11, <1>13, <1>14, <1>15 DEF Inv

LEMMA Invpit_handler == Inv /\ pit_handler => Inv'
<1> SUFFICES ASSUME Inv, pit_handler PROVE Inv'
  OBVIOUS
<1>1. /\ cpu = "irq" /\ cpu' = "eoi"
      /\ UNCHANGED <<procVars, boot, irq, console>>
  BY DEF pit_handler
<1>2. tick' \in 0 .. Slice - 1
  BY SchedAssumption DEF pit_handler, Inv, TypeOK
<1>3. CASE regs.rpl = 3 /\ tick' = 0
  <2>1. boot.pc = "gone"
    BY <1>3, RegistersType DEF Inv, PhaseOK
  <2>2. scheduler_switch_next
    BY <1>3 DEF pit_handler
  <2> QED
    BY <1>1, <1>2, <2>1, <2>2, InvSwitch
<1>4. CASE ~ (regs.rpl = 3 /\ tick' = 0)
  <2>1. UNCHANGED <<runVars, regs>>
    BY <1>4 DEF pit_handler
  <2>2. irq' \in [requested : BOOLEAN, inService : BOOLEAN]
    BY <1>1 DEF Inv, TypeOK
  <2> QED
    BY <1>1, <1>2, <2>1, <2>2, InvQuiet
<1> QED
  BY <1>3, <1>4

LEMMA InvNext ==
    ASSUME DirsSucceed
    PROVE  Inv /\ [Next]_vars => Inv'
<1> SUFFICES ASSUME Inv, [Next]_vars PROVE Inv'
  OBVIOUS
<1>1. CASE BootStep
  BY <1>1, InvPreparePages, InvAllocProc, InvAllocDir, InvMapStack, InvPublish,
     InvMapCode, InvMapData, InvCheckMade, InvEnterProc, InvEnterSpace,
     Inviret_jump_user DEF BootStep
<1>2. CASE UserStep
  BY <1>2, InvUserStep
<1>3. CASE TimerFires
  BY <1>3, InvTimerFires
<1>4. CASE IrqEntry
  BY <1>4, InvIrqEntry
<1>5. CASE HandlerStep
  BY <1>5, Invsyscall_dispatch, Invpit_handler, InvEoi, InvIret DEF HandlerStep
<1>6. CASE UNCHANGED vars
  <2>1. /\ UNCHANGED <<procVars, runVars, boot, regs, console>>
        /\ irq' = irq /\ tick' = tick /\ cpu' = cpu
    BY <1>6 DEF vars, procVars, runVars
  <2>2. /\ irq' \in [requested : BOOLEAN, inService : BOOLEAN]
        /\ tick' \in 0 .. Slice - 1
        /\ cpu' \in {"boot", "user", "irq", "eoi", "iret", "syscall", "halted"}
    BY <2>1 DEF Inv, TypeOK
  <2>3. /\ boot.pc # "gone" => cpu' \in {"boot", "irq", "eoi", "iret"}
        /\ boot.pc = "gone" => cpu' # "boot"
    BY <2>1 DEF Inv, PhaseOK
  <2> QED
    BY <2>1, <2>2, <2>3, InvQuiet
<1> QED
  BY <1>1, <1>2, <1>3, <1>4, <1>5, <1>6 DEF Next

(* The inductive invariant holds in every state.                           *)
LEMMA Invariant ==
    ASSUME DirsSucceed
    PROVE  Spec => []Inv
<1>1. Inv /\ [Next]_vars => Inv'
  BY InvNext
<1> QED
  BY <1>1, InvInit, PTL DEF Spec
-----------------------------------------------------------------------------
(* Every variable keeps its type; the length of a line that                *)
(* sys_print_string copies leaves room for its terminator.                 *)
THEOREM TypeCorrect ==
    ASSUME DirsSucceed
    PROVE  Spec => []TypeOK
<1>1. Inv => TypeOK
  BY DEF Inv
<1>2. Spec => []Inv
  BY Invariant
<1> QED
  BY <1>1, <1>2, PTL

(* Whatever is interrupted when, user code only runs as a process that was *)
(* made completely, on its own page directory and kernel stack.            *)
THEOREM OwnsCpu ==
    ASSUME DirsSucceed
    PROVE  Spec => []UserOwnsCpu
<1>1. Spec => []Inv
  BY Invariant
<1> QED
  BY <1>1, InvOwns, PTL

(* Preemption, switching and system calls leave to every process the       *)
(* registers that its own program computed.                                *)
THEOREM PreemptionInvisible ==
    ASSUME DirsSucceed
    PROVE  Spec => []RegistersIntact
<1>1. Spec => []Inv
  BY Invariant
<1> QED
  BY <1>1, InvRegisters, PTL

(* Each process prints its own message, as much of it as fits the buffer,  *)
(* once, and only in its system call.                                      *)
THEOREM PrintsOnce ==
    ASSUME DirsSucceed
    PROVE  Spec => []PrintsOwnMessage
<1>1. Spec => []Inv
  BY Invariant
<1> QED
  BY <1>1, InvPrints, PTL

(* For any number of processes, none is passed over NProcs times between   *)
(* two of its turns, unless the kernel process takes part.                 *)
THEOREM RoundRobin ==
    ASSUME DirsSucceed
    PROVE  Spec => []BoundedWait
<1>1. Spec => []Inv
  BY Invariant
<1> QED
  BY <1>1, InvWaits, PTL

(* The machine halts only after a dispatch of the kernel process or a      *)
(* failed allocation of a kernel stack.                                    *)
THEOREM HaltsByOversight ==
    ASSUME DirsSucceed
    PROVE  Spec => []HaltsOnlyByOversight
<1>1. Spec => []Inv
  BY Invariant
<1> QED
  BY <1>1, InvHalts, PTL
-----------------------------------------------------------------------------
(* What SlotsKept rests on, whatever fails                                 *)
SlotInv ==
    /\ proc_list \in [Slots -> Procs \cup {Null}]
    /\ boot \in [pc : BootSteps, n : Users, idx : Slots, made : SUBSET Users]
    /\ SlotFree

LEMMA SlotInvReturn ==
    ASSUME SlotInv, NEW made \in SUBSET Users, ReturnWith(made),
           UNCHANGED proc_list
    PROVE  SlotInv'
<1>1. /\ boot'.pc \in {"pages", "check"}
      /\ boot' \in [pc : BootSteps, n : Users, idx : Slots, made : SUBSET Users]
  BY SchedSizes DEF SlotInv, ReturnWith, BootSteps, Users
<1> QED
  BY <1>1 DEF SlotInv, SlotFree

LEMMA SlotInvGoto ==
    ASSUME SlotInv, NEW pc \in BootSteps, Goto(pc), UNCHANGED proc_list,
           pc \in {"dir", "stack", "publish"} =>
               boot.pc \in {"dir", "stack", "publish"}
    PROVE  SlotInv'
<1>1. /\ boot'.pc = pc /\ boot'.idx = boot.idx
      /\ boot' \in [pc : BootSteps, n : Users, idx : Slots, made : SUBSET Users]
  BY DEF SlotInv
<1> QED
  BY <1>1 DEF SlotInv, SlotFree

LEMMA SlotInvNext == SlotInv /\ [Next]_vars => SlotInv'
<1> SUFFICES ASSUME SlotInv, [Next]_vars PROVE SlotInv'
  OBVIOUS
<1>0. boot.made \in SUBSET Users /\ boot.made \cup {boot.n} \in SUBSET Users
  BY DEF SlotInv
<1>1. CASE PreparePages
  BY <1>0, <1>1, SlotInvReturn, SlotInvGoto
     DEF PreparePages, ReturnNull, procVars, BootSteps
<1>2. CASE AllocProc
  <2>1. proc_list' = proc_list
    BY <1>2 DEF AllocProc
  <2>2. CASE ReturnNull
    BY <1>0, <2>1, <2>2, SlotInvReturn DEF ReturnNull
  <2>3. ASSUME NEW i \in Slots, FirstFree(i),
               boot' = [boot EXCEPT !.pc = "dir", !.idx = i]
        PROVE  SlotInv'
    <3> DEFINE b == [boot EXCEPT !.pc = "dir"]
    <3>1. b \in [pc : BootSteps, n : Users, idx : Slots, made : SUBSET Users]
      BY DEF SlotInv, BootSteps
    <3>2. boot' = [b EXCEPT !.idx = i]
      BY <2>3, Zenon
    <3> HIDE DEF b
    <3>3. /\ boot'.idx = i
          /\ boot' \in [pc : BootSteps, n : Users, idx : Slots, made : SUBSET Users]
      BY <3>1, <3>2
    <3>4. proc_list[i] = Null
      BY <2>3, Zenon DEF FirstFree, FreeSlots
    <3> QED
      BY <2>1, <3>3, <3>4 DEF SlotInv, SlotFree
  <2> QED
    BY <1>2, <2>2, <2>3 DEF AllocProc
<1>3. CASE AllocDir
  BY <1>3, SlotInvGoto DEF AllocDir, BootSteps
<1>4. CASE MapStack
  BY <1>0, <1>4, SlotInvReturn, SlotInvGoto DEF MapStack, ReturnNull, BootSteps
<1>5. CASE Publish
  <2>1. proc_list' = [proc_list EXCEPT ![boot.idx] = boot.n] /\ Goto("code")
    BY <1>5 DEF Publish
  <2>2. /\ boot'.pc = "code"
        /\ boot' \in [pc : BootSteps, n : Users, idx : Slots, made : SUBSET Users]
    BY <2>1 DEF SlotInv, BootSteps
  <2>3. proc_list' \in [Slots -> Procs \cup {Null}]
    BY <2>1, SchedSizes DEF SlotInv
  <2> QED
    BY <2>2, <2>3 DEF SlotInv, SlotFree
<1>6. CASE MapCode
  BY <1>0, <1>6, SlotInvReturn, SlotInvGoto DEF MapCode, ReturnNull, BootSteps
<1>7. CASE MapData
  BY <1>0, <1>7, SlotInvReturn DEF MapData, ReturnNull, ReturnProc
<1>8. CASE CheckMade
  BY <1>8, SlotInvGoto DEF CheckMade, procVars, BootSteps
<1>9. CASE EnterProc
  BY <1>9, SlotInvGoto DEF EnterProc, procVars, BootSteps
<1>10. CASE EnterSpace
  BY <1>10, SlotInvGoto DEF EnterSpace, procVars, BootSteps
<1>11. CASE iret_jump_user
  <2>1. Goto("gone") /\ UNCHANGED proc_list
    BY <1>11, Zenon DEF iret_jump_user, procVars
  <2> QED
    BY <2>1, SlotInvGoto DEF BootSteps
<1>12. ASSUME UNCHANGED <<proc_list, boot>> PROVE SlotInv'
  BY <1>12 DEF SlotInv, SlotFree
<1>13. CASE UserStep \/ TimerFires \/ IrqEntry \/ HandlerStep \/ UNCHANGED vars
  <2>1. UNCHANGED <<proc_list, boot>>
    BY <1>13, Zenon
       DEF UserStep, TimerFires, IrqEntry, HandlerStep, syscall_dispatch,
           pit_handler, Eoi, Iret, procVars, vars
  <2> QED
    BY <1>12, <2>1
<1> QED
  BY <1>1, <1>2, <1>3, <1>4, <1>5, <1>6, <1>7, <1>8, <1>9, <1>10, <1>11, <1>13
     DEF Next, BootStep

(* create_proc overwrites no entry of proc_list, whichever allocations     *)
(* fail and whenever ticks come.                                           *)
THEOREM SlotsStay == Spec => SlotsKept
<1>1. Init => SlotInv
  BY InvInit DEF Inv, TypeOK, BootOK, SlotInv
<1> DEFINE Kept == \A i \in Slots : Listed(i) => proc_list'[i] = proc_list[i]
<1>2. SlotInv /\ [Next]_vars => [Kept]_vars
  <2> SUFFICES ASSUME SlotInv, Next PROVE Kept
    OBVIOUS
  <2>1. CASE Publish
    <3>1. /\ proc_list' = [proc_list EXCEPT ![boot.idx] = boot.n]
          /\ proc_list[boot.idx] = Null
      BY <2>1 DEF Publish, SlotInv, SlotFree
    <3> QED
      BY <3>1 DEF SlotInv, Listed
  <2>2. CASE ~ Publish
    <3>1. proc_list' = proc_list
      BY <2>2, Zenon
         DEF Next, BootStep, PreparePages, AllocProc, AllocDir, MapStack,
             MapCode, MapData, CheckMade, EnterProc, EnterSpace,
             iret_jump_user, UserStep, TimerFires, IrqEntry, HandlerStep,
             syscall_dispatch, pit_handler, Eoi, Iret, procVars
    <3> QED
      BY <3>1
  <2> QED
    BY <2>1, <2>2
<1>3. Spec => [][Kept]_vars
  BY <1>1, <1>2, SlotInvNext, PTL DEF Spec
<1> QED
  BY <1>3 DEF SlotsKept
=============================================================================
