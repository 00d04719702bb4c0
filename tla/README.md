# A TLA+ model of the BrownieOS kernel

BrownieOS is a 32-bit x86 kernel for one processor.  This directory holds TLA+
modules translated from its source, the TLC configurations that check them on
small instances, and TLAPS proofs of what holds of the kernel heap, the frame
allocator, the scheduler, the address spaces, the ACPI code, printf and the terminal for every
instance.  `PROJECT.json` maps every definition to the lines it models and
lists the runs, the hazards and the findings.

    tlc -workers 2 -config MCSched.cfg MCSched      # one run
    tlapm KHeapProofs.tla                           # one module of proofs

## Inventory

Paths are below `src/kernel/kernel/`.

| Part | State | Operations | What makes it correct |
|---|---|---|---|
| kernel heap, `mm/kmm.c` | boundary-tagged blocks, two ordered arrays of header and footer addresses | `kheap_init`, `kmalloc`, `kfree`, `alloc_from_block`, `unify_*` | blocks tile the heap; payloads are disjoint; free neighbours are merged; NULL only without room |
| ordered array, `core/common.c` | a sorted buffer of words with a capacity | insert, remove, find | order kept, capacity respected |
| physical pages, `mm/paging.c` | the frame bitmap | `reserve`, `reserve_mem_map`, `alloc_pages`, `free_pages` | a frame has one owner; reserved memory is never given out; the search ends |
| temporary mappings, `mm/vmm.c` | kernel page-table entries, the TLB | `kmap`, `kunmap`, `flush_tlb` | an access through a mapping reaches the frame asked for; the low window stays mapped |
| processes, `proc/proc.c`, `proc/enter_user.S` | `proc_list`, `pid_ctr`, `proc_t` | `create_proc`, `proc_map_pages`, `proc_enter` | only complete processes run; each has its own directory and kernel stack |
| scheduler, `proc/scheduler.c` | `current_proc`, contexts, cr3, TSS.ESP0 | `pick_next_proc`, `scheduler_switch_*` | a switch mixes no two processes; turns alternate; nobody starves |
| interrupts, `core/interrupts/*`, `drivers/pit.c` | frame on the stack, PIC request and in-service bits, `tick` | IRQ0 entry, `irq_handler`, `pit_handler`, EOI, iret | every request is acknowledged; kernel code is never preempted |
| system calls, `core/syscall.c` | `syscall_table` | `syscall_dispatch`, `sys_print_string`, `copy_user_string` | reads the caller's memory, within the buffer, exactly once |
| boot and demo, `core/kernel.c` | the boot thread | `make_user_proc_with_message`, `kernel_three_process_test`, `kpause` | interrupts are on all the while and must not matter |
| terminal, `drivers/tty.c` | row, column, VGA cells | `terminal_putchar`, scroll | shows the end of the text; survives handlers that print in the middle of it |
| ACPI and MADT, `core/acpi.c`, `core/madt.c` | copies of firmware tables, APIC ids, overrides | `find_rsdp`, `find_table`, checksums, `parse_madt` | copies are the right tables; loops end and stay in the table |
| libc, `../../libc/stdio/printf.c` | none but the caller's buffer | `itoa` and siblings, `vprintf`, `vsnprintf` | numerals denote the argument; buffers and formats are not left |
| APIC, IOAPIC, HPET | device registers | initialisation | not called, or written once (not modelled) |

How they interact.  `kmain` initialises the parts in order and turns
interrupts on in `pit_init`; from there the boot thread (kernel mode, interrupts
on) makes three user processes, for which it takes frames from `alloc_pages`,
maps them with `kmap`, allocates `proc_t` and kernel stacks with `kmalloc`, and
enters the first with an iret.  IRQ0 interrupts user code or the boot thread;
`pit_handler` calls the scheduler only from user mode, and the scheduler
replaces the interrupt frame by the saved context of the next process.
`int 0x80` enters the kernel with interrupts off.  All handlers run to their iret
without interruption, so the places where order matters are the steps of the
boot thread, the instructions of user code, and the timer.

What is hard here: the window in which a process is listed but not yet mapped
(`kernel.c:187-207`); the four separate stores of `proc_enter`; a switch
between any two instructions of a process that is about to make a call; failures
in the middle of `create_proc`, which rolls nothing back; 32-bit arithmetic in
the heap, in `reserve` and in the search of `alloc_pages`; the TLB that
`kunmap` does not flush; page tables made of memory that holds old data; 8-bit
loop counters over firmware tables; handlers that print while the code they
interrupted does; and values read before they were ever written.  The list with
lines is under `hazards` in `PROJECT.json`.

## Modules

**OrderedArray** gives the buffer operations as operators.  The loops are
described by what they leave in each entry.

**KHeap** is the allocator over a memory counted in granules of 16 bytes, the
size of a header and of a footer; every address and size the code computes is a
multiple of it.  A granule holds four words that read as a header or as a
footer, so metadata written over metadata is seen as what it becomes.  Words
wrap at `Word = 2^32 / 16`.  `Kmalloc`, `KmallocNull` and `Kfree` are the
operations; a handle is a kernel variable that may hold a pointer, so only
pointers that `kmalloc` returned are freed, once.  The history variable `fault`
records the first time a limit is passed: the subtraction of `alloc_from_block`
wraps (`split`), the rounding of `alloc` wraps (`align`), or an array is full
(`full`).  The properties speak of the time before; `heap_small` shows what
happens after.  **HeapSpec** is what callers may rely on:
extents that are shared with nobody.

**Pmm** is the frame bitmap.  The loop of `alloc_pages` is one action per
iteration, because whether and where it ends is the question.  Bytes appear
only in `reserve`, whose rounding is modelled as written.

**Vmm** holds the operations `kmap` and `kunmap` on page-table entries and the
TLB: a translation enters it by an access, leaves it by `flush_tlb`, and the
processor may drop one at any time.  It has no next-state relation of its own;
`Space` and `Acpi`, the two users of the mappings, instantiate it.  The first page
of the window is `ApicPage`: `isr_init` maps the registers of the local APIC there
and keeps it (`isr.c:50`), so `kmap` finds the first free entry behind it.
Speculative TLB fills are not modelled.

**Space** makes the processes of the demo out of frames.  The boot thread runs
through `make_user_proc_with_message`, `create_proc` and `proc_map_pages`, one
action per call that changes state and one per page mapped; every allocation can
fail.  `pde` and `table` are the directories and page tables, in frames that
hold old data when they are handed out; `content` names what was last written to
a frame, so code or data that was written to the wrong frame through a stale
translation is seen.  When all processes are made, `sys_print_string` is called
with any address and length, and `copy_user_string` copies byte by byte; a byte
is named by its frame and offset.  `alloc_pages` is one step here, with the
outcome `Pmm` establishes for it (first run; with HIGHMEM, first in high memory,
then, the address having wrapped, from the bottom, where a run may lie across the
end of low memory; no return when nothing is left).

**Acpi** is `init_acpi` and `parse_madt`.  A firmware is a list of candidates for
the RSDP and of tables, each with frame, offset, length and the outcome of its
sum; a table may go on in the frames behind its first.  Copying and summing go byte by byte through the mapping, with the 8-bit
counter of `acpi_sdt_checksum` beside the pointer that it counts; what is read is
whatever frame the TLB or the page table yields at that moment; behind low memory
that is the local APIC (`ApicFrame`).  A sum over bytes of several places may come
out either way.  The MADT has an address of the local APICs and, for each byte
behind its own fields, the record that is read there: type, length, value, and
whether bit 0 of the flags is set.  `parse_madt` moves its pointer by the length it
reads, into the middle of another record or beyond the end of the table if that is
what it says; `Met` is the set of bytes it comes to, the least set that has the
first byte and, with each, the one where its record ends.

**Tty** is `terminal_putchar` as the build compiles it (`config.sh`: `-O0`), one
action per access to `terminal_row`, `terminal_column` or a cell; an interrupt
handler that prints a line is one step, since it runs with interrupts off.  The
PIC lets all interrupts through (`idt.c:21`) and `irq_handler` prints for those
without a handler, the keyboard's for one.  Cells hold the number of the character,
so lost, moved and repeated characters are told apart.

**Printf** has the six number conversions as operators and the loops of
`vprintf` and `vsnprintf` as one action per conversion specification.  Integers
have the widths `IntBits` and `LongLongBits`; C's division and remainder, which
round towards zero, are defined as such.  A size is any `size_t`; the cast of
`(int) n - 1` in the loops over a text is modelled (`AsInt`, `Limits`), with the
overflow for n = INT_MAX + 1 as a choice between wrapping and not.  Direct calls
convert integers of both widths in any base of the constant `Bases`.

**Sched** composes processes, scheduler, interrupts, system calls and the demo:

| Variable | In the code |
|---|---|
| `proc_list`, `pid_ctr`, `current_proc` | the globals of `proc.c` |
| `pid`, `procstate`, `page_directory`, `kstack`, `context` | fields of `proc_t` |
| `space` | what each page directory maps in its user half, by the owner of the frame |
| `boot` | where the boot thread is, and the processes it has so far |
| `cpu`, `regs` | what executes; the registers, or the frame of the running handler |
| `cr3`, `esp0`, `irq`, `tick` | cr3, TSS.ESP0, the request and in-service bits of IRQ0, `tick % slice` |
| `console` | the messages `sys_print_string` printed, by whom and how much of them |
| `passed` | history: switches since each process last ran |

`create_proc` and its caller are seven actions, so that a tick can fall between
any two; the constant `Failures` says which allocations may fail.  Processes are
named by their `proc_t`, directories and stacks by their owner; address 0 stands
for what a failed `alloc_pages` or `kmalloc` leaves.  A user program is the one
the kernel writes: three moves, `int 0x80`, and a jump to itself, which is a
stuttering step.  `KernelRpl` is the set of values the uninitialised
`kernel_proc->context.cs & 3` may have.  The general registers a process starts
with are arbitrary; one value `Junk` stands for them, since the program writes
each register before it reads it.

The MC modules only supply values for constants, and symmetry sets.  Operators
marked *mutant* are faulty variants of the definition that follows them; each
property has one that breaks it (`mutants` in `PROJECT.json`).

## Runs

| Run | Instance | Shows |
|---|---|---|
| `heap` | 30 granules, 4 handles, 6 entries per array, requests of 0, 16, 33, 96, 128 bytes | `HeapTiled`, `BlocksOwned`, `PayloadsSafe`, `RoomIsFound`, `SmallSplitsOnly`, refinement of `HeapSpec` |
| `heap_small` | 16 and 32 bytes, beyond the first limit | violation of `PayloadsDisjoint` |
| `sched` | 3 processes, 4 slots, slices of 2 ticks, every failure but that of the page directory, kernel selector 0 or 3, fair | `UserOwnsCpu`, `RegistersIntact`, `PrintsOwnMessage`, `BoundedWait`, `HaltsOnlyByOversight`, `SlotsKept`, `EveryMessagePrinted`, `EveryProcessRuns` |
| `pmm` | 8 frames, 5 low, 3 holders, runs of 1-3, six aligned maps, fair | `FramesExclusive`, `ReservedKept`, `NullMeansFull`, `LowStaysLow`, `LowReturns` |
| `pmm_hang` | a HIGHMEM search with no run free, fair | violation of `HighReturns` |
| `pmm_reserve` | regions that are not aligned | violation of `AllRegionsKept` |
| `space` | 2 processes; 9 low frames free in every combination; high memory for both, one or none; 3 page tables of 2 entries, pages of 2 bytes | `RunsOwnPages`, `Isolated`, `KernelMemoryMapped`, `WindowClean`, `CopyRight` |
| `acpi` | 426 machines: 4 tables and the RSDT over a low and two high frames in every way; missing, long, bad, repeated tables, tables that cross a page in low memory and in high; records that are unknown, empty, of a disabled processor, longer than a byte, or run past the end; fair | `CopiesRight`, `CopyFits`, `MadtRight`, `Settles`, `Boots` |
| `acpi_long` | the same machines | violation of `SumsTheTable` |
| `tty` | a screen of 3 rows of 2, 8 characters, 3 handlers | `CursorHeals`, `OvershootBounded`, `ShowsTail` |
| `printf` | all formats of up to 4 characters over 8 letters, 5-bit int, 7-bit long long, buffers of 0, 1, 3, 15 (`INT_MAX`), 16 and 20, bases -1 to 37, fair | `DigitsRight`, `BuffersKept`, `OutputRight`, `AstrayOnlyAfterL`, `Ends` |
| `printf_sign` | the same with a buffer of 4 | violation of `NumeralRight` |

Why the bounds are enough.  Four handles and 30 granules allow a free block
between two used ones, between two free ones, at both ends, and remainders on
each side of the 64-byte limit.  For the safety properties of `heap`, `pmm`,
`sched`, `space`, `acpi`, `printf` and `tty` the proofs remove the bounds altogether;
for liveness the bounds are what there is.  Three processes are what the demo makes,
and the fewest for which a wrong scan starves one; a slice of two ticks gives ticks that switch and
ticks that do not.  Message lengths are 0, one short of the buffer, and beyond it.
Eight frames hold runs in low memory, in high memory and across the wrap.

A process of `space` needs, besides its four pages, a directory of two frames and
two page tables: nine low frames, one more than both processes need, are free in
every combination, so each allocation fails in some behaviour, for the first
process or the second, and low memory is fragmented in every way.  Its code and data share a table and its
stack has another, as at `0x00400000`, `0x00401000` and below `0xC0000000`; one table
stays empty.  Addresses go one page past the user half.  `acpi` scales sizes but
keeps their order: header < FADT < 256 < page, and has lengths on both sides of
each.  `tty` has room to wrap, to scroll twice and to be hit in both; three handlers
can hit one call, or three.  A 5-bit int has every digit pattern up to five
binary digits, the least integer, and a count of characters that the formats fill;
the sizes are on both sides of INT_MAX, and the one whose cast overflows.  The bases
go beyond 2 and 36 on either side.

`heap` stops exploring at the first limit (`WithinLimits`), since its
properties say nothing after it; the step that passes the limit is checked.

The machine of `sched` may stop (`cpu = "halted"`), so deadlock is allowed there:
`panic` disables interrupts and halts, and so ends a run in which the kernel
process was dispatched; a process without a kernel stack resets the machine at
its first interrupt.  `HaltsOnlyByOversight` says that nothing else does.

### Fairness

`Sched!FairSpec`: the timer keeps firing, a request that can be taken is taken,
and handlers run on (weak fairness): the processor never stops in a handler, and
none of them waits.  Boot thread and user code get strong fairness: an interrupt
may come before any of their steps, but a handler is far shorter than the
millisecond between ticks, so the interrupted code cannot be kept from its next
instruction for ever.  `Pmm!FairSpec`: the loop of `alloc_pages` goes on.
`Acpi!Spec`: the boot thread goes on; interrupts are still off and nothing else
runs.  `Printf!Spec`: the loop over the format goes on.

## Findings

Each is shown by a run that expects a violation; `PROJECT.json` quotes the
contradicted line.

* A freed block of less than 96 bytes is split past its end when it is taken
  again (`kmm.c:64`).  `SmallSplitsOnly` shows that the sizes `create_proc` asks
  for are safe; `acpi.c:44` asks for a small one, but never frees it.
* The HIGHMEM search wraps into low memory and does not end without a free run
  (`paging.c:79`).
* `reserve` can miss the last page of an unaligned region (`paging.c:119`).
* `itoa` puts the sign behind the digits (`printf.c:26`): the reversal begins at the
  sign.  In the other bases a negative number has none.
* `acpi_sdt_checksum` counts in 8 bits (`acpi.c:173`), so a table of 256 bytes or
  more is summed past its end, until a page fault stops the kernel.

Oversights that properties name as the exception they make, and no run is
devoted to:

* a failed allocation of a page directory goes unnoticed (`proc.c:134`), and the
  processes it happens to share the directory at frame 0 (`Private` in Space);
* the context of the kernel process is uninitialised, and the scheduler may
  dispatch it (`scheduler.c:35`, first case of `HaltsOnlyByOversight`);
* `find_table` maps table after table at one address without a TLB flush
  (`acpi.c:92`): with tables in two high frames it may compare and copy the wrong
  one (`OneWindowFrame` in Acpi);
* a table that starts in the last frame of low memory and goes on behind it is read
  on through the first page of the window, where the local APIC is mapped
  (`vmm.c:11`, `isr.c:50`, `NoneStraddles` in Acpi);
* `kunmap` of a low frame unmaps it for everybody (`vmm.c:38`): ACPI tables in low
  memory are read again only as long as the TLB has them, which is why `Supported`
  asks for tables in high memory; page tables and directories are spared
  (`KernelMemoryMapped`);
* a FADT longer than `fadt_t` is copied past its allocation (`acpi.c:135`,
  `CopyFits`); an unknown or empty MADT record is looked at for ever (`madt.c:26`,
  `Stuck`, the exception of `Settles` and `Boots`);
* `parse_madt` counts every LAPIC record (`madt.c:46`), while `madt.h:94` speaks of
  the enabled ones: `MadtRight` says that the two agree exactly if the table has no
  disabled processor;
* a handler that prints between the store and the comparison of `terminal_row`
  takes the cursor off the screen for good (`tty.c:84`, `CursorHeals`);
* after a process could not be made, the next one is written through window
  addresses whose translations were not flushed (`kernel.c:190`,
  `WindowClean`); the demo does not run then;
* a format cut off after `%l` is read beyond its NUL (`printf.c:190`,
  `AstrayOnlyAfterL`); `vsnprintf` with n = 0 is not bounded (`printf.c:362`);
* `vsnprintf` compares with `(int) n - 1` in its loops over a text (`printf.c:398`,
  `415`, `431`): for n above INT_MAX, and for 0, they copy nothing, and the call still
  returns a count, against `stdio.h:26-27` (the sizes `OutputRight` excepts).  No
  caller passes such a size; `vsprintf` passes INT_MAX.

Limits that the models contain and no run is devoted to: a full ordered array
loses the remainder of a split (`kmm.c:93`, limit `full`, passed in `heap`); a
request within 15 bytes of 4 GiB is rounded to zero (`kmm.c:198`, limit
`align`); a `create_proc` that fails after `pid_ctr++` shifts later PIDs from
their slots (`proc.c:129`); a failed `kmalloc` of a kernel stack is not noticed
(`proc.c:177`, the second case of `HaltsOnlyByOversight`).

## Proofs

Every safety property of the passing runs is a theorem, for all values of the
constants that the ASSUME of its module allows.
None of the properties is inductive alone.  Each module of proofs begins with the
inductive invariant, a conjunction of named parts, and has a lemma per action, with
a step for each part the action can disturb; TLC was run on the invariants
that it can evaluate, too.  `NumberFacts` holds the arithmetic they share: a least number,
products and quotients, which the provers do not find by themselves.

**KHeapProofs**, for every heap size, capacity, set of handles and set of requests:

* `HeapInvariant`: `Spec => []HeapInv`;
* from it `HeapTypeOK`, `HeapAlwaysTiled`, `HeapAlwaysOwned`, `HeapSafety`:
  `TypeOK`, `HeapTiled`, `BlocksOwned` and `PayloadsSafe` always hold;
* `HeapFindsRoom`: so does `RoomIsFound`;
* `LargeRequestsSplitSafely`: `SmallSplitsOnly`, an action property from the
  same invariant;
* `HeapImplements`: while no limit is passed, `ImplementsHeapSpec`.

That a payload is safe needs its block to be where the tags say; that a free finds
its block needs the arrays to list it; that a merge may blank the inner tags needs
the arrays to be in address order and each block to start where the one below ends;
and that merging with one neighbour on each side is enough needs that no two
neighbours were free before.  `HeapInv` is the conjunction: typed, `Tiled`,
`Coalesced` and `Owned`, as long as `fault` is empty.  The proof has a group of
lemmas for the ordered arrays (where insert and remove leave each entry), one for a
split, one for taking a whole block, one for a merge to the left, to the right and
both, and one step per action.  The refinement needs only `Tiled` and `Owned`: a
block that was free overlaps no extent that is held.  `RoomIsFound` needs all of
it: every granule lies in a block, a used block is held, so a gap between held
extents lies in free blocks; as no two of these are neighbours it lies in one,
which the scan meets.

**PmmProofs**, for every size of memory, memory map, set of callers and counts:
`TypeCorrect`, `Exclusive` (`FramesExclusive`), `ReservedStays` (`ReservedKept`),
`NullIsHonest` (`NullMeansFull`) and, as an action property, `LowIsLow`
(`LowStaysLow`).  The invariant follows a call from iteration to iteration: the last
`contig` frames before `paddr` are free (`ContigFree`), no run that ends before them
is (`NothingMissed`), a search that returns NULL has come to the end of low memory
(`NullAtEnd`), and so a frame that is given away was free, hence nobody's.  During
boot `RegionsMarked` says which entries of the map are reserved already.  The
assumption `PageSize > 1` is used where an address rounds down to a frame.

**SchedProofs**, for any number of processes, slots, ticks of a slice and message
lengths, and any `KernelRpl`: `TypeCorrect`, `OwnsCpu` (`UserOwnsCpu`),
`PreemptionInvisible` (`RegistersIntact`), `PrintsOnce` (`PrintsOwnMessage`),
`RoundRobin` (`BoundedWait`), `HaltsByOversight` (`HaltsOnlyByOversight`), and
`SlotsStay` (`SlotsKept`).  `BootOK`, `DirsOK`, `ListOK` and `PhaseOK` say how far
the boot thread has come: which processes are made and listed, and what of
`current_proc`, ESP0 and cr3 it has set already, which is what a tick may find.
From `boot.pc = "gone"` on, the registers of each process are those of its program,
in the frame or in its context (`RunOK`), and a process was passed over at most as
often as there are places between it and the current one, round the list
(`WaitOK`).  All but `SlotsStay` are proved under `DirsSucceed`, that no allocation
of a page directory fails: such a failure goes unnoticed (`proc.c:134`), the
processes it happens to share one directory, and the properties are false of them.
`Space` has that failure, and shows whom it harms.  All other failures are
covered.  `SlotsStay` has an invariant of its own and needs no hypothesis.

**SpaceProofs**, for any number of processes, any memory with any frames free, any
layout of the user half in which code, data and stack do not overlap, and with
every allocation failing or not: `RunsOwn` (`RunsOwnPages`), `SpacesIsolated`
(`Isolated`), `KernelKeepsItsMemory` (`KernelMemoryMapped`), `WindowStaysClean`
(`WindowClean`) and `CopiesRight` (`CopyRight`).  The centre of the invariant is that
a frame serves one purpose (`FramesOK`) and no two entries share a page table
(`TablesOK`): then `set_page` changes what one page of one process leads to and
nothing else, and `WalkOK` can follow the mapping page by page.  `WindowOK` says that
a window page is mapped exactly while the boot thread holds it, and that only user
pages can be unmapped in low memory.  `FreshOK` is the argument about stale
translations: as long as every process could be made, the TLB agrees with the
window, because each `proc_map_pages` that succeeds flushes it; so what is written
through the window arrives.  `SysOK` follows `copy_user_string` byte by byte.

**AcpiProofs**, for any firmware and any sizes that keep the order header < FADT <
counter < page: `MadtAlwaysRight` (`MadtRight`), `CopiesAlwaysRight` (`CopiesRight`)
and `CopyAlwaysFits` (`CopyFits`).  `ParseInv` is about `parse_madt` and has no
hypothesis, on lengths, flags or types.  The pointer is at a byte of `Met` or beyond
the end, and what it met before ends there at the latest (`Passed`).  `PassOne` is
the step: as `Met` is the least closed set, and `Met` without the bytes between the
begin and the end of the record in hand is closed too, nothing between them is met.
So the records counted are those of `Met` before `k`, and the 8-bit counters cannot
wrap because a record that is passed has at least a byte and an accepted table fewer than
256, the sum of a longer one never returning.  `CopyInv` is about the copies, if
`OneWindowFrame`: each translation, in the page table or stale in the TLB, is the
identity or leads from the first free window page to the one high frame in use, so a
page that translates at all translates right; the bytes read so far lie in the
frames of the first `b` bytes of the table in hand; and as long as the table is
shorter than the counter's range, counter and pointer agree.  The proof showed that
a table may span frames and lie across the end of low memory, where the second half
of the copy comes from the local APIC; `CopiesRight` excludes that case
(`NoneStraddles`).

**PrintfProofs**, for any widths of the integers, formats, arguments, sizes of
buffers that a `size_t` can have, and bases, in range or not:
`DigitsAlwaysRight` (`DigitsRight`), `BuffersAlwaysKept` (`BuffersKept`),
`OutputAlwaysRight` (`OutputRight`) and `OnlyLGoesAstray` (`AstrayOnlyAfterL`).  The
digits of a conversion, the value of a numeral and the powers of two are recursive
functions.  The provers cannot apply a theorem of induction, but they can follow a
least counterexample (`LeastNumber`): so it is shown that each recursion has a
solution and what it yields.  `QuotRem` is C's division: the digits of i are the
digit of its remainder behind those of its quotient, which is nearer to zero.  With
Horner's rule that gives the value, and since every base is at least 2, a number
below 2^n has at most n digits; in base 10 the number 2^n too, which is what leaves
room for the sign of the least integer.  The loops need only that nothing was cut
off as long as `vsnprintf` with a size of 1 to INT_MAX goes on (`NothingCut`), for
which `(int) n - 1` is `n - 1` (`LimitIs`), and that `pos` is at most one
behind the end of the format unless a `%l` took it further.  The widths are at least
2: with a single bit, -1 and its sign would not fit.

**TtyProofs**, for a screen of any size, any text and any number of handlers:
`CursorAlwaysHeals` (`CursorHeals`), `OvershootAlwaysBounded` (`OvershootBounded`)
and `ScreenShowsTail` (`ShowsTail`).  `CursorInv` says where row, column and the
register can be at each access: the column is VGA_WIDTH only until it is compared
again, the row is VGA_HEIGHT or more only until it is compared and while the scroll
goes on, and a cursor that is lost stays beyond the comparison.  `MessagePrinted` is
what a handler does to it: a message of at most a row takes a cursor on the screen
to the beginning of a row on the screen, one below the screen one or two rows
further, and one in the column VGA_WIDTH to a new row.  `TailInv` is about a call
that no handler interrupted: the cells before the index of a scroll are those of the
next row already (`Partly`), the others are not; so at its end the screen is what
`terminal_scroll` as a whole makes of it.  `Sheet` and `terminal_writestring` are
recursive functions, and are followed by least counterexample as in PrintfProofs; as
later characters stand further down or further right (`SheetOrder`), no two share a
cell of the sheet.

Only model-checked: liveness (`EveryMessagePrinted`, `EveryProcessRuns`,
`LowReturns`, `Settles`, `Boots`, `Ends`), which is out of the prover's reach.

## Not modelled

* APIC, IOAPIC and HPET: `init_apic` and `init_hpet` are commented out of `kmain`;
  they write device registers and keep no state.
* The deep copy of user pages in `clone_page_dir`: its caller copies the kernel
  directory, which has no user half.
* Descriptor tables, port programming and the boot assembly: straight-line code
  that runs once, before anything else can.
* The string functions of libc: loops of a few lines without state.
* Page-table bits other than presence; every user page is mapped with user and
  write rights.
* Memory that the firmware map does not mention counts as free, as it does in the
  code: the repository's README assumes 4 GiB.  In `Acpi`, a failed `kmalloc`, a
  full window and an RSDT shorter than its header are left out.

## Plan

1. *Done*: OrderedArray, KHeap with HeapSpec and proofs; Sched; Pmm; Vmm, Space
   and Acpi; Tty; Printf.
2. *Done*: the safety properties of KHeap, Pmm, Sched, Space, Acpi, Printf and Tty
   proved.
3. An abstract specification of the scheduler (processes that each run their
   program, interleaved) that Sched implements.
