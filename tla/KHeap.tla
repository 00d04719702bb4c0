------------------------------- MODULE KHeap --------------------------------
(***************************************************************************)
(* The kernel heap of kernel/mm/kmm.c: a boundary-tag first-fit allocator  *)
(* whose blocks are indexed by two ordered arrays, one of header and one   *)
(* of footer addresses.                                                    *)
(*                                                                         *)
(* A header and a footer are 16 bytes each and every address and size the  *)
(* allocator computes is a multiple of 16, so memory is counted in         *)
(* granules of 16 bytes and a machine word holds Word = 2^32 / 16 of them. *)
(* A granule holds the four words that header_t and footer_t overlay:      *)
(*                                                                         *)
(*             w0       w1       w2        w3                              *)
(*   header    size     footer   used      magic                           *)
(*   footer    header   res      magic (low and high half)                 *)
(*                                                                         *)
(* so that metadata written over other metadata reads as what it becomes.  *)
(***************************************************************************)
EXTENDS OrderedArray, FiniteSets

CONSTANTS
    HeapStart,  \* first granule of the heap (kheap.start)
    HeapLen,    \* granules in the heap (KHEAP_PAGES pages)
    Tail,       \* granules of other memory kept after the heap
    Word,       \* granules a 32-bit word can count
    MaxBlocks,  \* capacity of header_ptr_array and footer_ptr_array
    Magic,      \* 0xB10CB10C
    Handles,    \* kernel variables that may hold a heap pointer
    Requests    \* sizes the kernel asks for, as [q, r]: 16 * q + r bytes

ASSUME HeapAssumption ==
    /\ HeapStart \in Nat \ {0}
    /\ HeapLen \in Nat /\ HeapLen >= 3
    /\ Tail \in Nat \ {0}
    /\ Word \in Nat /\ HeapStart + HeapLen + Tail < Word
    /\ MaxBlocks \in Nat \ {0}
    /\ Magic \in Nat /\ Magic > 1
    /\ Requests \subseteq [q : 0 .. Word - 1, r : 0 .. 15]

VARIABLES
    kheap,      \* the memory of the heap and its two ordered arrays
    held,       \* what each handle points at, and how much it asked for
    fault       \* history: the arithmetic or capacity limits passed so far

vars == <<kheap, held, fault>>
-----------------------------------------------------------------------------
HeapEnd == HeapStart + HeapLen          \* first granule after the heap
Cells == HeapStart .. HeapEnd + Tail - 1
Words == 0 .. Word - 1

Cell == [w0 : Words, w1 : Words, w2 : {0, 1, Magic}, w3 : {0, Magic}]
Heap == [mem : [Cells -> Cell],
         header_array : OrderedArrays(MaxBlocks, Words),
         footer_array : OrderedArrays(MaxBlocks, Words)]

(* 32-bit unsigned addition and subtraction *)
WAdd(a, b) == IF a + b < Word THEN a + b ELSE a + b - Word
WSub(a, b) == IF a >= b THEN a - b ELSE a - b + Word

Header(size, footer, used) ==
    [w0 |-> size, w1 |-> footer, w2 |-> used, w3 |-> Magic]
Footer(header) == [w0 |-> header, w1 |-> 0, w2 |-> Magic, w3 |-> Magic]
(* A header whose size, footer and used words are written                  *)
Rewritten(cell, size, footer, used) ==
    [w0 |-> size, w1 |-> footer, w2 |-> used, w3 |-> cell.w3]
Blank == [w0 |-> 0, w1 |-> 0, w2 |-> 0, w3 |-> 0]

(* The least remainder alloc_from_block means to leave: 64 bytes.          *)
SplitSlack == 4
-----------------------------------------------------------------------------
(* kmm_prechecks; kheap.magic is written once and never changes            *)
kmm_prechecks(hp) == hp.header_array.size = hp.footer_array.size

(* kmm_checks: both magics, and the two pointers that tie the pair         *)
kmm_checks(hp, header, footer) ==
    /\ header \in Cells /\ footer \in Cells
    /\ hp.mem[header].w3 = Magic
    /\ hp.mem[footer].w2 = Magic /\ hp.mem[footer].w3 = Magic
    /\ hp.mem[header].w1 = footer
    /\ hp.mem[footer].w0 = header

(* The size a block must exceed the request by to be split.  The unsigned  *)
(* difference wraps for a block smaller than 96 bytes.                     *)
SplitLimit(hp, header) ==
    WSub(WSub(WSub(hp.mem[header].w0, 1), 1), SplitSlack)
Splits(hp, header, size) == ~ (size >= SplitLimit(hp, header))

(* mutant: the block is handed out without being marked                    *)
TakeUnmarked(hp, header) == hp
TakeWhole(hp, header) == [hp EXCEPT !.mem[header].w2 = 1]

(* mutant: the old footer keeps pointing at the old header                 *)
SplitOldFooter(hp, header, footer, size) ==
    LET new_footer == WAdd(WAdd(header, size), 1)
        new_header == WAdd(new_footer, 1)
        m1 == [hp.mem EXCEPT ![new_footer] = Footer(header)]
        m2 == [m1 EXCEPT ![new_header] =
                 Header(WSub(m1[header].w0, WAdd(size, 2)), footer, 0)]
        m3 == [m2 EXCEPT ![header] = Rewritten(@, size, new_footer, 1)]
    IN  [mem |-> m3,
         header_array |-> insert_ordered_array(hp.header_array, new_header),
         footer_array |-> insert_ordered_array(hp.footer_array, new_footer)]
(* The else branch of alloc_from_block, in the order of its writes.        *)
Split(hp, header, footer, size) ==
    LET new_footer == WAdd(WAdd(header, size), 1)
        new_header == WAdd(new_footer, 1)
        m1 == [hp.mem EXCEPT ![new_footer] = Footer(header)]
        m2 == [m1 EXCEPT ![new_header] =
                 Header(WSub(m1[header].w0, WAdd(size, 2)), footer, 0)]
        m3 == [m2 EXCEPT ![footer].w0 = new_header]
        m4 == [m3 EXCEPT ![header] = Rewritten(@, size, new_footer, 1)]
    IN  [mem |-> m4,
         header_array |-> insert_ordered_array(hp.header_array, new_header),
         footer_array |-> insert_ordered_array(hp.footer_array, new_footer)]

alloc_from_block(hp, header, footer, size) ==
    IF Splits(hp, header, size)
    THEN Split(hp, header, footer, size)
    ELSE TakeWhole(hp, header)

(* The rounding of alloc to a multiple of 16 bytes, in granules.           *)
Align(req) == IF req.r # 0 THEN WAdd(req.q, 1) ELSE req.q

(* mutants: the used flag, the size, or the tags a block needs are ignored *)
SuitableUsed(hp, i, size) ==
    LET header == hp.header_array.array[i]
    IN  /\ header \in Cells
        /\ hp.mem[header].w0 >= size
        /\ kmm_checks(hp, header, hp.footer_array.array[i])
SuitableAnySize(hp, i, size) ==
    LET header == hp.header_array.array[i]
    IN  /\ header \in Cells
        /\ hp.mem[header].w2 = 0
        /\ kmm_checks(hp, header, hp.footer_array.array[i])
SuitableWithTags(hp, i, size) ==
    LET header == hp.header_array.array[i]
    IN  /\ header \in Cells
        /\ hp.mem[header].w2 = 0
        /\ hp.mem[header].w0 + 2 >= size
        /\ kmm_checks(hp, header, hp.footer_array.array[i])
(* alloc takes the first block that is free, large enough and intact.      *)
Suitable(hp, i, size) ==
    LET header == hp.header_array.array[i]
        footer == hp.footer_array.array[i]
    IN  /\ header \in Cells
        /\ hp.mem[header].w2 = 0
        /\ hp.mem[header].w0 >= size
        /\ kmm_checks(hp, header, footer)

FirstFit(hp, i, size) ==
    /\ Suitable(hp, i, size)
    /\ \A k \in 0 .. i - 1 : ~ Suitable(hp, k, size)
-----------------------------------------------------------------------------
(* unify_left: merge with the block below if that is free.  ret is the     *)
(* header of the block that results.                                       *)
unify_left(hp, header, footer) ==
    LET index == find_ordered_array(hp.header_array, header)
        prev_header == hp.header_array.array[index - 1]
        prev_footer == hp.mem[prev_header].w1
        size == WAdd(WAdd(hp.mem[prev_header].w0, hp.mem[header].w0), 2)
        m1 == [hp.mem EXCEPT ![prev_header] = Rewritten(@, size, footer, @.w2)]
        m2 == [m1 EXCEPT ![footer].w0 = prev_header]
        m3 == [m2 EXCEPT ![header] = Blank]
        m4 == [m3 EXCEPT ![prev_footer] = Blank]
    IN  IF index > 0 /\ hp.mem[prev_header].w2 = 0
        THEN [heap |->
                [mem |-> m4,
                 header_array |->
                    remove_ordered_array(hp.header_array, index),
                 footer_array |->
                    remove_ordered_array(hp.footer_array, index - 1)],
              ret |-> prev_header]
        ELSE [heap |-> hp, ret |-> header]

(* mutant: a block is never merged with the one above                      *)
UnifyRightNever(hp, header, footer) == hp

(* unify_right: merge with the block above if that is free.                *)
unify_right(hp, header, footer) ==
    LET index == find_ordered_array(hp.header_array, header)
        next_header == hp.header_array.array[index + 1]
        next_footer == hp.mem[next_header].w1
        size == WAdd(WAdd(hp.mem[header].w0, hp.mem[next_header].w0), 2)
        m1 == [hp.mem EXCEPT ![header] = Rewritten(@, size, next_footer, @.w2)]
        m2 == [m1 EXCEPT ![next_footer].w0 = header]
        m3 == [m2 EXCEPT ![footer] = Blank]
        m4 == [m3 EXCEPT ![next_header] = Blank]
    IN  IF index < hp.header_array.size - 1 /\ hp.mem[next_header].w2 = 0
        THEN [mem |-> m4,
              header_array |->
                remove_ordered_array(hp.header_array, index + 1),
              footer_array |->
                remove_ordered_array(hp.footer_array, index)]
        ELSE hp

(* mutant: used is counted down instead of cleared                         *)
UnifyCountsDown(hp, header, footer) ==
    LET left == unify_left(hp, header, footer)
        both == unify_right(left.heap, left.ret, footer)
    IN  [both EXCEPT !.mem[left.ret].w2 = @ - 1]

unify(hp, header, footer) ==
    LET left == unify_left(hp, header, footer)
        both == unify_right(left.heap, left.ret, footer)
    IN  [both EXCEPT !.mem[left.ret].w2 = 0]

(* free: nothing happens to a block that fails the checks.                 *)
free(hp, ptr) ==
    LET header == ptr - 1
        footer == hp.mem[header].w1
    IN  IF kmm_prechecks(hp) /\ kmm_checks(hp, header, footer)
        THEN unify(hp, header, footer)
        ELSE hp
-----------------------------------------------------------------------------
Nothing == [ptr |-> 0, len |-> 0]
Holds(h) == held[h].ptr # 0

(* The granules the caller believes it was given: no 32-bit rounding.      *)
Asked(req) == IF req.r # 0 THEN req.q + 1 ELSE req.q

(* Which limits does this allocation pass?  The rounding of alloc wraps to *)
(* zero, the subtraction of alloc_from_block wraps, or the arrays are full *)
(* when the remainder of a split should go in.                             *)
Limits(hp, header, req) ==
    {f \in {"align", "split", "full"} :
        \/ f = "align" /\ Asked(req) # Align(req)
        \/ f = "split" /\ hp.mem[header].w0 < 2 + SplitSlack
        \/ f = "full"  /\ Splits(hp, header, Align(req))
                       /\ hp.header_array.size = hp.header_array.max_size}

(* kheap_init: one free block that spans the heap                          *)
kheap_init ==
    LET footer == HeapEnd - 1
    IN  [mem |-> [c \in Cells |->
                    IF c = HeapStart
                    THEN Header(HeapLen - 2, footer, 0)
                    ELSE IF c = footer THEN Footer(HeapStart) ELSE Blank],
         header_array |-> insert_ordered_array(
                init_ordered_array_place(MaxBlocks), HeapStart),
         footer_array |-> insert_ordered_array(
                init_ordered_array_place(MaxBlocks), footer)]

Init ==
    /\ kheap = kheap_init
    /\ held = [h \in Handles |-> Nothing]
    /\ fault = {}

(* kmalloc returns a block *)
Kmalloc(h, req) ==
    /\ ~ Holds(h)
    /\ req # [q |-> 0, r |-> 0]
    /\ kmm_prechecks(kheap)
    /\ \E i \in 0 .. kheap.header_array.size - 1 :
        LET header == kheap.header_array.array[i]
            footer == kheap.footer_array.array[i]
        IN  /\ FirstFit(kheap, i, Align(req))
            /\ kheap' = alloc_from_block(kheap, header, footer, Align(req))
            /\ held' = [held EXCEPT
                          ![h] = [ptr |-> header + 1, len |-> Asked(req)]]
            /\ fault' = fault \cup Limits(kheap, header, req)

(* kmalloc returns NULL *)
KmallocNull(h, req) ==
    /\ ~ Holds(h)
    /\ \/ req = [q |-> 0, r |-> 0]
       \/ ~ kmm_prechecks(kheap)
       \/ \A i \in 0 .. kheap.header_array.size - 1 :
            ~ Suitable(kheap, i, Align(req))
    /\ UNCHANGED vars

(* kfree of a pointer that kmalloc returned and nobody has freed since.    *)
(* A header that the arrays no longer list makes unify_left index them     *)
(* with 0xFFFFFFFE: nothing is said about what follows such a read.        *)
Kfree(h) ==
    /\ Holds(h)
    /\ Contains(kheap.header_array, held[h].ptr - 1)
    /\ kheap' = free(kheap, held[h].ptr)
    /\ held' = [held EXCEPT ![h] = Nothing]
    /\ UNCHANGED fault

Next ==
    \E h \in Handles :
        \/ \E req \in Requests : Kmalloc(h, req) \/ KmallocNull(h, req)
        \/ Kfree(h)

Spec == Init /\ [][Next]_vars
-----------------------------------------------------------------------------
(* Block i of the heap, as the two arrays list it                          *)
Blocks(hp) == 0 .. hp.header_array.size - 1
HeaderOf(hp, i) == hp.header_array.array[i]
FooterOf(hp, i) == hp.footer_array.array[i]
IsUsed(hp, i) == hp.mem[HeaderOf(hp, i)].w2 = 1

(* The state has its type; the heap as long as no limit has been passed.   *)
TypeOK ==
    /\ held \in [Handles -> [ptr : Nat, len : Nat]]
    /\ fault \subseteq {"align", "split", "full"}
    /\ fault = {} => kheap \in Heap

(* The blocks tile the heap: they are listed in address order, the first   *)
(* starts it, the last ends it, each starts where the one below ends, and  *)
(* the tags of each describe the extent between them.                      *)
SizesAgree(hp) ==
    /\ hp.header_array.size = hp.footer_array.size
    /\ hp.header_array.size >= 1
Spans(hp) ==
    /\ HeaderOf(hp, 0) = HeapStart
    /\ FooterOf(hp, hp.header_array.size - 1) = HeapEnd - 1
Adjacent(hp) ==
    \A i \in Blocks(hp) :
        i + 1 \in Blocks(hp) => HeaderOf(hp, i + 1) = FooterOf(hp, i) + 1
Ascending(hp) ==
    \A i, j \in Blocks(hp) : i < j => FooterOf(hp, i) < HeaderOf(hp, j)
Tagged(hp) ==
    \A i \in Blocks(hp) :
        /\ HeapStart <= HeaderOf(hp, i)
        /\ HeaderOf(hp, i) < FooterOf(hp, i)
        /\ FooterOf(hp, i) < HeapEnd
        /\ hp.mem[FooterOf(hp, i)] = Footer(HeaderOf(hp, i))
        /\ \E u \in {0, 1} : hp.mem[HeaderOf(hp, i)] =
              Header(FooterOf(hp, i) - HeaderOf(hp, i) - 1, FooterOf(hp, i), u)
Tiled(hp) ==
    SizesAgree(hp) /\ Spans(hp) /\ Adjacent(hp) /\ Ascending(hp) /\ Tagged(hp)

(* alloc_from_block, unify_left and unify_right keep the boundary tags and *)
(* the two ordered arrays consistent with each other and with the memory.  *)
HeapTiled == fault = {} => Tiled(kheap)

(* Coalescing is complete: no two neighbouring blocks are both free.       *)
Coalesced(hp) ==
    \A i \in Blocks(hp) :
        i + 1 \in Blocks(hp) => IsUsed(hp, i) \/ IsUsed(hp, i + 1)

(* A block is marked used exactly while some handle holds its payload, no  *)
(* two handles hold the same block, and it is as large as was asked for:   *)
(* kfree neither leaks a block nor takes one that is still in use.         *)
Owned(hp, hd) ==
    /\ \A h \in Handles : hd[h].ptr # 0 =>
          \E i \in Blocks(hp) : /\ hd[h].ptr = HeaderOf(hp, i) + 1
                               /\ IsUsed(hp, i)
                               /\ hd[h].len <= hp.mem[HeaderOf(hp, i)].w0
    /\ \A i \in Blocks(hp) : IsUsed(hp, i) =>
          \E h \in Handles : hd[h].ptr = HeaderOf(hp, i) + 1
    /\ \A g, h \in Handles :
          hd[g].ptr # 0 /\ hd[g].ptr = hd[h].ptr => g = h
BlocksOwned == fault = {} => Owned(kheap, held)

(* The inductive invariant behind the four properties around it            *)
HeapInv ==
    /\ TypeOK
    /\ fault = {} => Tiled(kheap) /\ Coalesced(kheap) /\ Owned(kheap, held)

(* What alloc promises (mm/kmm.h:62-65): the payloads in use lie in the    *)
(* heap, and neither overlap nor contain a boundary tag.                   *)
Payload(h) == held[h].ptr .. held[h].ptr + held[h].len - 1
PayloadsDisjoint ==
    \A h \in Handles : Holds(h) =>
        /\ held[h].ptr > HeapStart
        /\ held[h].ptr + held[h].len < HeapEnd
        /\ \A g \in Handles : g # h /\ Holds(g) =>
              \/ held[g].ptr + held[g].len <= held[h].ptr
              \/ held[h].ptr + held[h].len <= held[g].ptr
        /\ \A i \in Blocks(kheap) : /\ HeaderOf(kheap, i) \notin Payload(h)
                                    /\ FooterOf(kheap, i) \notin Payload(h)
PayloadsSafe == fault = {} => PayloadsDisjoint

(* kmalloc returns NULL only if it must: whenever the memory outside the   *)
(* blocks in use has room for a block with its two tags, the scan of alloc *)
(* finds one.  It fails if a free leaves two neighbours apart.             *)
Room(size) ==
    \E lo \in HeapStart .. HeapEnd - (size + 2) :
        \A h \in Handles : Holds(h) =>
            \/ lo + size + 1 < held[h].ptr - 1
            \/ lo > kheap.mem[held[h].ptr - 1].w1
RoomIsFound ==
    fault = {} =>
        \A req \in Requests :
            Room(Align(req)) =>
                \E i \in Blocks(kheap) : Suitable(kheap, i, Align(req))

(* The subtraction of alloc_from_block wraps only for a request of 80      *)
(* bytes or less, whatever kmalloc and kfree came before: larger requests, *)
(* such as those of create_proc, never meet a block too small to split.    *)
SmallSplitsOnly ==
    [][fault = {} /\ "split" \in fault' =>
          \/ "align" \in fault'
          \/ \E h \in Handles : /\ ~ Holds(h) /\ held'[h].ptr # 0
                                /\ held'[h].len < 2 + SplitSlack]_vars

(* The allocator implements the abstract heap: see HeapSpec.               *)
Abstract == INSTANCE HeapSpec WITH
    First <- HeapStart + 1, Last <- HeapEnd - 2,
    Sizes <- {Asked(req) : req \in Requests}
ImplementsHeapSpec == Abstract!Spec
=============================================================================
