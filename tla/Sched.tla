------------------------------- MODULE Sched --------------------------------
(***************************************************************************)
(* Processes, preemption and system calls on the one processor: the boot   *)
(* thread of core/kernel.c that makes the user processes and enters the    *)
(* first, create_proc and proc_enter of proc/proc.c, the timer interrupt   *)
(* from its latch in the PIC through irq_handler, pit_handler and the      *)
(* round-robin scheduler back to iret, and int 0x80.                       *)
(*                                                                         *)
(* All gates are interrupt gates, so a handler runs to its iret without    *)
(* being interrupted; the boot thread and user code may be interrupted     *)
(* before each of their steps.  A process is named by the address of its   *)
(* proc_t: 0 for the kernel process, n for the n-th one that kmain makes.  *)
(* Addresses of page directories and kernel stacks are named by the owner. *)
(***************************************************************************)
EXTENDS Integers, Sequences

CONSTANTS
    NProcs,     \* user processes that kernel_three_process_test makes
    MaxProc,    \* MAXPROC, the slots of proc_list
    Slice,      \* ticks in a time slice: frequency * SCHED_SLICE_SECONDS
    BufLen,     \* SYS_PRINT_STRING_MAX_LEN
    MsgLen,     \* MsgLen[p]: length of the message of process p
    Failures,   \* the allocations of process creation that may fail
    KernelRpl   \* what kernel_proc->context.cs & 3 may be: never initialised

Users == 1 .. NProcs
Steps == {"pages", "proc_t", "dir", "stack", "kstack", "map"}

ASSUME SchedAssumption ==
    /\ NProcs \in Nat \ {0}
    /\ MaxProc \in Nat \ {0}
    /\ Slice \in Nat \ {0}
    /\ BufLen \in Nat \ {0}
    /\ MsgLen \in [Users -> Nat]
    /\ Failures \subseteq Steps
    /\ KernelRpl \subseteq 0 .. 3 /\ KernelRpl # {}

VARIABLES
    proc_list, pid_ctr, current_proc,
    pid, procstate, page_directory, kstack, context,    \* fields of proc_t
    space,      \* what each page directory maps in its user half
    boot,       \* the boot thread: its next step, the process it is making,
                \* the slot it found, the processes it got
    cpu,        \* what the processor executes
    regs,       \* its registers, or the frame of the handler that runs
    cr3, esp0,  \* the page directory in use, TSS.ESP0
    irq,        \* IRQ0 at the PIC: requested, in service
    tick,       \* ticks of the current slice
    console,    \* what sys_print_string printed
    passed      \* history: switches since each process last had the CPU

procVars == <<proc_list, pid_ctr, pid, procstate, page_directory, kstack,
              space>>
runVars == <<current_proc, context, cr3, esp0, passed>>
vars == <<proc_list, pid_ctr, current_proc, pid, procstate, page_directory,
          kstack, context, space, boot, cpu, regs, cr3, esp0, irq, tick,
          console, passed>>
-----------------------------------------------------------------------------
Kernel == 0
Procs == 0 .. NProcs
Null == -1
Slots == 0 .. MaxProc - 1

KernelDir == NProcs + 1     \* kernel_directory
InitialStack == NProcs + 1  \* initial_kstack of core/tss.c
Frame0 == 0                 \* what KP2V makes of a failed alloc_pages
Dirs == 0 .. NProcs + 1
Kstacks == 0 .. NProcs + 1  \* 0 is what a failed kmalloc leaves

(* Whose frame each user page of a directory maps; 0 if it is not present  *)
Unmapped == [stack |-> 0, code |-> 0, data |-> 0]

(* The registers the demo programs use.  eip counts instructions.          *)
Junk == -1
DataVA == 1                 \* USER_TEST_DATA_VA
SYS_PRINT_STRING == 1
SUCCESS == 0
EINVAL == -22
EFAULT == -14
ENOSYS == -1
Registers ==
    [rpl : 0 .. 3, intr : BOOLEAN, eip : -1 .. 4,
     eax : {Junk, SYS_PRINT_STRING, SUCCESS, EINVAL, EFAULT},
     ebx : {Junk, DataVA}, ecx : Int]
KernelRegs == [rpl |-> 0, intr |-> TRUE, eip |-> Junk,
               eax |-> Junk, ebx |-> Junk, ecx |-> Junk]

(* The context create_proc prepares: eip, cs and eflags; the general       *)
(* registers keep what the heap held.                                      *)
EntryContext == [KernelRegs EXCEPT !.rpl = 3, !.eip = 0]
-----------------------------------------------------------------------------
(* After kernel_proc_init and pit_init, at kernel_three_process_test       *)
Init ==
    /\ proc_list = [i \in Slots |-> IF i = 0 THEN Kernel ELSE Null]
    /\ pid_ctr = 1
    /\ current_proc = Kernel
    /\ pid = [p \in Procs |-> 0]
    /\ procstate = [p \in Procs |-> IF p = Kernel THEN "RUNNING" ELSE "UNUSED"]
    /\ page_directory = [p \in Procs |-> KernelDir]
    /\ kstack = [p \in Procs |-> 0]
    /\ \E rpl \in KernelRpl :
         context = [p \in Procs |->
                       IF p = Kernel THEN [KernelRegs EXCEPT !.rpl = rpl]
                                     ELSE KernelRegs]
    /\ space = [d \in Dirs |-> Unmapped]
    /\ boot = [pc |-> "pages", n |-> 1, idx |-> 0, made |-> {}]
    /\ cpu = "boot"
    /\ regs = KernelRegs
    /\ cr3 = KernelDir
    /\ esp0 = InitialStack
    /\ irq = [requested |-> FALSE, inService |-> FALSE]
    /\ tick = 0
    /\ console = <<>>
    /\ passed = [p \in Users |-> 0]
-----------------------------------------------------------------------------
(* What processes are made of and switched with                            *)

(* Kernel entries are shared; user pages, of which the kernel directory    *)
(* has none, would be copied.                                              *)
clone_page_dir(src) == space[src]

(* proc_map_pages: one of the user pages of p, into its own directory      *)
proc_map_pages(p, page) == [space EXCEPT ![page_directory[p]][page] = p]

tss_set_kernel_stack(p) == esp0' = kstack[p]
swap_dir(p) == cr3' = page_directory[p]

(* mutant: one register is forgotten                                       *)
SavedWithoutEbx(p) ==
    [context EXCEPT ![p] = [regs EXCEPT !.ebx = context[p].ebx]]
(* The frame is copied to the context of p, field by field, and back.      *)
proc_context_from_regs(p) == [context EXCEPT ![p] = regs]
proc_context_to_regs(p) == regs' = context[p]
-----------------------------------------------------------------------------
(* The boot thread.  make_user_proc_with_message is called for each        *)
(* process in turn, whatever became of the one before.                     *)
At(pc) == cpu = "boot" /\ boot.pc = pc
Goto(pc) == boot' = [boot EXCEPT !.pc = pc]
ReturnWith(made) ==
    boot' = [pc |-> IF boot.n < NProcs THEN "pages" ELSE "check",
             n |-> IF boot.n < NProcs THEN boot.n + 1 ELSE boot.n,
             idx |-> 0, made |-> made]
ReturnProc == ReturnWith(boot.made \cup {boot.n})
ReturnNull == ReturnWith(boot.made)
machine == <<cpu, regs, irq, tick, console>>

(* Allocate, kmap and fill the code and the data page                      *)
PreparePages ==
    /\ At("pages")
    /\ \/ Goto("proc_t")
       \/ "pages" \in Failures /\ ReturnNull
    /\ UNCHANGED <<procVars, runVars, machine>>

(* create_proc: the first free slot from 1 and a proc_t, or NULL           *)
AnySlot == Slots \ {0}     \* mutant: a slot in use is as good as another
FreeSlots == {i \in Slots \ {0} : proc_list[i] = Null}
FirstFree(i) == i \in FreeSlots /\ \A k \in FreeSlots : i <= k
AllocProc ==
    /\ At("proc_t")
    /\ \/ \E i \in Slots :
            /\ FirstFree(i)
            /\ boot' = [boot EXCEPT !.pc = "dir", !.idx = i]
            /\ pid' = [pid EXCEPT ![boot.n] = pid_ctr]
            /\ pid_ctr' = pid_ctr + 1
            /\ procstate' = [procstate EXCEPT ![boot.n] = "SETUP"]
       \/ /\ FreeSlots = {} \/ "proc_t" \in Failures
          /\ ReturnNull
          /\ UNCHANGED <<pid, pid_ctr, procstate>>
    /\ UNCHANGED <<proc_list, page_directory, kstack, space, runVars, machine>>

(* The page directory.  KP2V(0) is not NULL: the test that should catch a  *)
(* failed alloc_pages never does, and the frame at 0 becomes a directory.  *)
AllocDir ==
    /\ At("dir")
    /\ \E d \in {boot.n} \cup {f \in {Frame0} : "dir" \in Failures} :
         /\ page_directory' = [page_directory EXCEPT ![boot.n] = d]
         /\ space' = [space EXCEPT ![d] = clone_page_dir(KernelDir)]
    /\ Goto("stack")
    /\ UNCHANGED <<proc_list, pid_ctr, pid, procstate, kstack, runVars, machine>>

(* The stack: no frames, or no frame for a page table, and create_proc     *)
(* gives up, keeping what it has.                                          *)
MapStack ==
    /\ At("stack")
    /\ \/ /\ space' = proc_map_pages(boot.n, "stack")
          /\ Goto("publish")
       \/ "stack" \in Failures /\ ReturnNull /\ UNCHANGED space
    /\ UNCHANGED <<proc_list, pid_ctr, pid, procstate, page_directory, kstack,
                   runVars, machine>>

(* The context, the kernel stack (unchecked) and the entry in proc_list.   *)
(* From here on the scheduler may pick a process without code or data.     *)
Publish ==
    /\ At("publish")
    /\ context' = [context EXCEPT ![boot.n] = EntryContext]
    /\ \E k \in {boot.n} \cup {0 : f \in Failures \cap {"kstack"}} :
         kstack' = [kstack EXCEPT ![boot.n] = k]
    /\ proc_list' = [proc_list EXCEPT ![boot.idx] = boot.n]
    /\ procstate' = [procstate EXCEPT ![boot.n] = "RUNNING"]
    /\ Goto("code")
    /\ UNCHANGED <<pid_ctr, pid, page_directory, space, current_proc, cr3,
                   esp0, passed, machine>>

(* mutant: the code page is mapped into the directory in use               *)
MapCodeHere ==
    /\ At("code")
    /\ space' = [space EXCEPT ![cr3].code = boot.n]
    /\ Goto("data")
    /\ UNCHANGED <<proc_list, pid_ctr, pid, procstate, page_directory, kstack,
                   runVars, machine>>
(* proc_map_pages of the code page, then of the data page                  *)
MapCode ==
    /\ At("code")
    /\ \/ /\ space' = proc_map_pages(boot.n, "code")
          /\ Goto("data")
       \/ "map" \in Failures /\ ReturnNull /\ UNCHANGED space
    /\ UNCHANGED <<proc_list, pid_ctr, pid, procstate, page_directory, kstack,
                   runVars, machine>>
MapData ==
    /\ At("data")
    /\ \/ /\ space' = proc_map_pages(boot.n, "data")
          /\ ReturnProc
       \/ "map" \in Failures /\ ReturnNull /\ UNCHANGED space
    /\ UNCHANGED <<proc_list, pid_ctr, pid, procstate, page_directory, kstack,
                   runVars, machine>>

(* Without all the processes there is no demo, and kmain ends in kpause.   *)
CheckMade ==
    /\ At("check")
    /\ Goto(IF boot.made = Users THEN "enter" ELSE "pause")
    /\ UNCHANGED <<procVars, runVars, machine>>

(* proc_enter of the first process: two stores, cr3, then the iret of      *)
(* iret_jump_user, which loads no general register.                        *)
EnterProc ==
    /\ At("enter")
    /\ current_proc' = 1
    /\ tss_set_kernel_stack(1)
    /\ Goto("swap")
    /\ UNCHANGED <<procVars, context, cr3, passed, machine>>
EnterSpace ==
    /\ At("swap")
    /\ swap_dir(current_proc)
    /\ Goto("iret")
    /\ UNCHANGED <<procVars, current_proc, context, esp0, passed, machine>>
iret_jump_user ==
    /\ At("iret")
    /\ context' = [context EXCEPT ![current_proc].intr = TRUE]
    /\ regs' = [KernelRegs EXCEPT !.rpl = context[current_proc].rpl,
                                  !.eip = context[current_proc].eip]
    /\ cpu' = "user"
    /\ Goto("gone")
    /\ UNCHANGED <<procVars, current_proc, cr3, esp0, passed, irq, tick, console>>

BootStep ==
    \/ PreparePages \/ AllocProc \/ AllocDir \/ MapStack \/ Publish
    \/ MapCode \/ MapData \/ CheckMade
    \/ EnterProc \/ EnterSpace \/ iret_jump_user
-----------------------------------------------------------------------------
(* From user mode the processor pushes the frame on the stack of TSS.ESP0. *)
(* Below 8192, where a failed kmalloc leaves it, nothing is mapped: the    *)
(* push faults, so does its handler, and the machine resets.               *)
EnterKernel(handler) ==
    cpu' = IF cpu = "user" /\ esp0 = 0 THEN "halted" ELSE handler

(* The program make_user_proc_with_message writes into the code page of    *)
(* process p: three moves and int 0x80; jmp $ changes nothing.             *)
Execute(p) ==
    \/ /\ regs.eip = 0
       /\ regs' = [regs EXCEPT !.eip = 1, !.eax = SYS_PRINT_STRING]
       /\ UNCHANGED cpu
    \/ /\ regs.eip = 1
       /\ regs' = [regs EXCEPT !.eip = 2, !.ebx = DataVA]
       /\ UNCHANGED cpu
    \/ /\ regs.eip = 2
       /\ regs' = [regs EXCEPT !.eip = 3, !.ecx = MsgLen[p]]
       /\ UNCHANGED cpu
    \/ /\ regs.eip = 3
       /\ regs' = [regs EXCEPT !.eip = 4]
       /\ EnterKernel("syscall")

(* A fetch through a directory that maps no code ends in page_fault, which *)
(* panics.                                                                 *)
UserStep ==
    /\ cpu = "user"
    /\ \/ space[cr3].code # 0 /\ Execute(space[cr3].code)
       \/ space[cr3].code = 0 /\ cpu' = "halted" /\ UNCHANGED regs
    /\ UNCHANGED <<procVars, runVars, boot, irq, tick, console>>

(* user_addr_accessible asks the directory of current_proc                 *)
user_addr_accessible(p, addr) ==
    addr = DataVA /\ space[page_directory[p]].data # 0

(* copy_user_string reads through cr3 and stops at the terminator, after   *)
(* the length the user gave, or one short of the buffer.                   *)
Least(S) == CHOOSE x \in S : \A y \in S : x <= y
(* mutant: the buffer is filled to its end, with no room to terminate it   *)
CopyToTheEnd(text, user_len) ==
    [by |-> current_proc, msg |-> text,
     len |-> Least({user_len, BufLen, MsgLen[text]})]
copy_user_string(text, user_len) ==
    [by |-> current_proc, msg |-> text,
     len |-> Least({user_len, BufLen - 1, MsgLen[text]})]

sys_print_string ==
    IF regs.ecx = 0
    THEN regs' = [regs EXCEPT !.eax = EINVAL] /\ UNCHANGED console
    ELSE IF user_addr_accessible(current_proc, regs.ebx)
    THEN /\ regs' = [regs EXCEPT !.eax = SUCCESS]
         /\ console' =
              Append(console, copy_user_string(space[cr3].data, regs.ecx))
    ELSE regs' = [regs EXCEPT !.eax = EFAULT] /\ UNCHANGED console

syscall_dispatch ==
    /\ cpu = "syscall"
    /\ IF regs.eax = SYS_PRINT_STRING
       THEN sys_print_string
       ELSE regs' = [regs EXCEPT !.eax = ENOSYS] /\ UNCHANGED console
    /\ cpu' = "iret"
    /\ UNCHANGED <<procVars, runVars, boot, irq, tick>>
-----------------------------------------------------------------------------
(* The timer raises IRQ0.  The PIC latches one request: a tick that comes  *)
(* before the last one was taken is lost.                                  *)
TimerFires ==
    /\ ~ irq.requested
    /\ irq' = [irq EXCEPT !.requested = TRUE]
    /\ UNCHANGED <<procVars, runVars, boot, cpu, regs, tick, console>>

IrqEntry ==
    /\ cpu \in {"boot", "user"} /\ regs.intr
    /\ irq.requested /\ ~ irq.inService
    /\ irq' = [requested |-> FALSE, inService |-> TRUE]
    /\ EnterKernel("irq")
    /\ UNCHANGED <<procVars, runVars, boot, regs, tick, console>>

(* pick_next_proc: the first eligible slot after that of cur, and if there *)
(* is none, the first from the start of the list.                          *)
Eligible(cur, i) ==
    /\ proc_list[i] \notin {Null, cur}
    /\ procstate[proc_list[i]] = "RUNNING"
    /\ context[proc_list[i]].rpl = 3
FirstEligible(cur, start, i) ==
    /\ i >= start /\ Eligible(cur, i)
    /\ \A k \in Slots : k >= start /\ Eligible(cur, k) => i <= k
After(cur) ==
    IF \E i \in Slots : proc_list[i] = cur
    THEN Least({i \in Slots : proc_list[i] = cur}) + 1
    ELSE 0
(* mutants: the scan always starts at slot 0, or does not wrap             *)
PickFromStart(cur) ==
    IF \E i \in Slots : FirstEligible(cur, 0, i)
    THEN proc_list[CHOOSE i \in Slots : FirstEligible(cur, 0, i)]
    ELSE Null
PickWithoutWrap(cur) ==
    IF \E i \in Slots : FirstEligible(cur, After(cur), i)
    THEN proc_list[CHOOSE i \in Slots : FirstEligible(cur, After(cur), i)]
    ELSE Null
pick_next_proc(cur) ==
    IF \E i \in Slots : FirstEligible(cur, After(cur), i)
    THEN proc_list[CHOOSE i \in Slots : FirstEligible(cur, After(cur), i)]
    ELSE IF \E i \in Slots : FirstEligible(cur, 0, i)
    THEN proc_list[CHOOSE i \in Slots : FirstEligible(cur, 0, i)]
    ELSE Null

(* mutants: TSS.ESP0 is not set, or cr3 is loaded from the old current_proc *)
SwitchKeepingStack(next) ==
    /\ context' = proc_context_from_regs(current_proc)
    /\ swap_dir(next)
    /\ current_proc' = next
    /\ proc_context_to_regs(next)
    /\ passed' = [p \in Users |-> IF p = next THEN 0 ELSE passed[p] + 1]
    /\ UNCHANGED esp0
SwitchOldSpace(next) ==
    /\ context' = proc_context_from_regs(current_proc)
    /\ tss_set_kernel_stack(next)
    /\ swap_dir(current_proc)
    /\ current_proc' = next
    /\ proc_context_to_regs(next)
    /\ passed' = [p \in Users |-> IF p = next THEN 0 ELSE passed[p] + 1]
(* scheduler_switch_process, for a next other than NULL and current_proc   *)
scheduler_switch_process(next) ==
    /\ context' = proc_context_from_regs(current_proc)
    /\ tss_set_kernel_stack(next)
    /\ swap_dir(next)
    /\ current_proc' = next
    /\ proc_context_to_regs(next)
    /\ passed' = [p \in Users |-> IF p = next THEN 0 ELSE passed[p] + 1]

scheduler_switch_next ==
    LET next == pick_next_proc(current_proc)
    IN  IF regs.rpl = 3
        THEN IF next \notin {Null, current_proc}
             THEN scheduler_switch_process(next)
             ELSE /\ context' = proc_context_from_regs(current_proc)
                  /\ UNCHANGED <<current_proc, cr3, esp0, regs, passed>>
        ELSE UNCHANGED <<runVars, regs>>

(* irq_handler up to the return of pit_handler                             *)
pit_handler ==
    /\ cpu = "irq"
    /\ tick' = (tick + 1) % Slice
    /\ IF regs.rpl = 3 /\ tick' = 0
       THEN scheduler_switch_next
       ELSE UNCHANGED <<runVars, regs>>
    /\ cpu' = "eoi"
    /\ UNCHANGED <<procVars, boot, irq, console>>

(* mutant: the interrupt is not acknowledged                               *)
NoEoi ==
    /\ cpu = "eoi"
    /\ cpu' = "iret"
    /\ UNCHANGED <<procVars, runVars, boot, regs, irq, tick, console>>
(* irq_handler acknowledges the interrupt                                  *)
Eoi ==
    /\ cpu = "eoi"
    /\ irq' = [irq EXCEPT !.inService = FALSE]
    /\ cpu' = "iret"
    /\ UNCHANGED <<procVars, runVars, boot, regs, tick, console>>

(* The iret of the common handlers returns to the ring the frame names.    *)
Iret ==
    /\ cpu = "iret"
    /\ cpu' = IF regs.rpl = 3 THEN "user" ELSE "boot"
    /\ UNCHANGED <<procVars, runVars, boot, regs, irq, tick, console>>

HandlerStep == syscall_dispatch \/ pit_handler \/ Eoi \/ Iret

Next == BootStep \/ UserStep \/ TimerFires \/ IrqEntry \/ HandlerStep

Spec == Init /\ [][Next]_vars

(* The timer keeps ticking, the processor takes a request it may take, and *)
(* never stops in a handler.  Handlers are shorter than the 1 ms between   *)
(* ticks, so the code they interrupt keeps getting a turn.                 *)
FairSpec ==
    /\ Spec
    /\ WF_vars(TimerFires) /\ WF_vars(IrqEntry) /\ WF_vars(HandlerStep)
    /\ SF_vars(BootStep) /\ SF_vars(UserStep)
-----------------------------------------------------------------------------
(* The state has its type.                                                 *)
TypeOK ==
    /\ proc_list \in [Slots -> Procs \cup {Null}]
    /\ pid_ctr \in Nat
    /\ current_proc \in Procs
    /\ pid \in [Procs -> Nat]
    /\ procstate \in [Procs -> {"UNUSED", "SETUP", "RUNNING"}]
    /\ page_directory \in [Procs -> Dirs]
    /\ kstack \in [Procs -> Kstacks]
    /\ context \in [Procs -> Registers]
    /\ space \in [Dirs -> [stack : Procs, code : Procs, data : Procs]]
    /\ boot.pc \in {"pages", "proc_t", "dir", "stack", "publish", "code",
                    "data", "check", "enter", "swap", "iret", "gone", "pause"}
    /\ boot.n \in Users /\ boot.idx \in Slots /\ boot.made \subseteq Users
    /\ cpu \in {"boot", "user", "irq", "eoi", "iret", "syscall", "halted"}
    /\ regs \in Registers
    /\ cr3 \in Dirs /\ esp0 \in Kstacks
    /\ irq \in [requested : BOOLEAN, inService : BOOLEAN]
    /\ tick \in 0 .. Slice - 1
    /\ console \in Seq([by : Procs, msg : Procs, len : 0 .. BufLen - 1])
    /\ passed \in [Users -> Nat]

(* Whenever the processor runs user code, or a handler that interrupted    *)
(* it, current_proc (the kernel process apart) is complete: it was returned by *)
(* make_user_proc_with_message, cr3 and TSS.ESP0 are its own, and its      *)
(* directory maps its own stack, code and data.  A process that is listed  *)
(* but not yet mapped is never dispatched; no switch mixes two processes.  *)
Own(p) == [stack |-> p, code |-> p, data |-> p]
UserOwnsCpu ==
    regs.rpl = 3 /\ current_proc # Kernel =>
        /\ current_proc \in boot.made
        /\ cr3 = page_directory[current_proc]
        /\ esp0 = kstack[current_proc]
        /\ space[cr3] = Own(current_proc)

(* The registers of p: in the processor or the frame if p is current, else *)
(* in its context.                                                         *)
Live(p) == IF regs.rpl = 3 /\ current_proc = p THEN regs ELSE context[p]
InSyscall(p) == cpu = "syscall" /\ current_proc = p
Done(p) == Live(p).eip = 4 /\ ~ InSyscall(p)

(* Preemption is invisible: at each of its instructions a process has the  *)
(* register values its own program computed, with interrupts enabled,      *)
(* however often it was switched out and in between, until the machine     *)
(* halts.                                                                  *)
RegistersIntact ==
    cpu # "halted" => \A p \in boot.made :
        LET r == Live(p)
        IN  /\ r.rpl = 3 /\ r.intr /\ r.eip >= 0
            /\ r.eip \in 1 .. 3 \/ InSyscall(p) => r.eax = SYS_PRINT_STRING
            /\ r.eip >= 2 => r.ebx = DataVA
            /\ r.eip >= 3 => r.ecx = MsgLen[p]
            /\ Done(p) => r.eax = IF MsgLen[p] = 0 THEN EINVAL ELSE SUCCESS

(* A process that is past its system call has printed its own message, all *)
(* of it that fits the buffer, and once; nothing else is printed, and an   *)
(* empty message is refused.                                               *)
Printed(p) == \E i \in 1 .. Len(console) : console[i].by = p
PrintsOwnMessage ==
    /\ \A i \in 1 .. Len(console) :
          /\ console[i].by \in boot.made
          /\ console[i].msg = console[i].by
          /\ console[i].len = Least({MsgLen[console[i].by], BufLen - 1})
    /\ \A i, j \in 1 .. Len(console) :
          console[i].by = console[j].by => i = j
    /\ cpu # "halted" => \A p \in boot.made :
          Done(p) /\ MsgLen[p] # 0 <=> Printed(p)

(* Round robin: between two turns of a process every other one has at most *)
(* one (core/kernel.c:124-128), unless the kernel process joins in.        *)
BoundedWait ==
    context[Kernel].rpl # 3 => \A p \in Users : passed[p] < NProcs

(* The boot thread ends in the demo or in kpause, and in the demo every    *)
(* process gets the processor again and again and prints its message,      *)
(* unless the machine halts.                                               *)
EveryMessagePrinted ==
    <>(\/ boot.pc = "pause" \/ cpu = "halted"
       \/ \A p \in Users : MsgLen[p] # 0 => Printed(p))
EveryProcessRuns ==
    \A p \in Users :
        boot.pc = "gone" ~> \/ cpu = "halted"
                            \/ cpu = "user" /\ current_proc = p

Listed(i) == proc_list[i] # Null
(* create_proc never gives a slot away twice, with the table full or after *)
(* a failure.                                                              *)
SlotsKept == [][\A i \in Slots : Listed(i) => proc_list'[i] = proc_list[i]]_vars

(* Only two oversights stop the machine: the heap held a user selector     *)
(* where kernel_proc->context.cs lies, and the scheduler dispatches the    *)
(* kernel process; or there was no memory for a kernel stack.  No process  *)
(* that make_user_proc_with_message completed faults by itself.            *)
HaltsOnlyByOversight == cpu = "halted" => current_proc = Kernel \/ esp0 = 0
=============================================================================
