-------------------------------- MODULE Vmm ---------------------------------
(***************************************************************************)
(* kmap and kunmap of kernel/mm/vmm.c: temporary kernel mappings of        *)
(* physical pages, and the TLB that kunmap leaves alone.  The code that    *)
(* uses them is in Space and Acpi, which instantiate this module.          *)
(*                                                                         *)
(* Physical frames and kernel virtual pages are numbered.  The frames of   *)
(* Low are mapped for good at the page of the same number.  Behind them is *)
(* the HIGHMEM window, whose first page isr_init keeps for the local APIC; *)
(* Slots are the others, but for those that other drivers keep for good.   *)
(* A translation enters the TLB when a page is accessed and leaves it with *)
(* a reload of cr3; the processor may drop one at any time.                *)
(***************************************************************************)
EXTENDS Integers

CONSTANTS
    LowFrames,  \* frames below KERN_IDENTITY_PHYS_END, without frame 0
    NSlots,     \* pages of the HIGHMEM window that nobody keeps
    Clients     \* pieces of kernel code that hold a mapping

VARIABLES
    pte,        \* the kernel's page table entries: a frame, or 0
    tlb,        \* cached translations
    held        \* what kmap returned to each client, and for which frame
-----------------------------------------------------------------------------
Low == 1 .. LowFrames
ApicPage == LowFrames + 1
Slots == ApicPage + 1 .. ApicPage + NSlots
Pages == Low \cup Slots
Nothing == [page |-> 0, frame |-> 0]

Init ==
    /\ pte = [v \in Pages |-> IF v \in Low THEN v ELSE 0]
    /\ tlb = [v \in Pages |-> 0]
    /\ held = [c \in Clients |-> Nothing]

(* mutant: the search does not look at the entry                           *)
FirstSlot(v) == v = ApicPage + 1
(* The first entry of the window that is zero                              *)
FirstFree(v) == pte[v] = 0 /\ \A w \in Slots : w < v => pte[w] # 0

(* kmap: a frame of low memory has its page already.                       *)
Kmap(c, frame) ==
    /\ \/ /\ frame \in Low
          /\ held' = [held EXCEPT ![c] = [page |-> frame, frame |-> frame]]
          /\ UNCHANGED pte
       \/ /\ frame \notin Low
          /\ \E v \in Slots :
               /\ FirstFree(v)
               /\ pte' = [pte EXCEPT ![v] = frame]
               /\ held' = [held EXCEPT ![c] = [page |-> v, frame |-> frame]]
    /\ UNCHANGED tlb

(* kunmap clears the entry, whichever part of the kernel half it is in.    *)
Kunmap(c) ==
    /\ pte' = [pte EXCEPT ![held[c].page] = 0]
    /\ held' = [held EXCEPT ![c] = Nothing]
    /\ UNCHANGED tlb

(* The frame that an access to page v reaches; 0 for a page fault          *)
Translate(v) == IF tlb[v] # 0 THEN tlb[v] ELSE pte[v]

(* The pages of a set are accessed: their translations are cached.         *)
Access(set) ==
    /\ \A v \in set : Translate(v) # 0
    /\ tlb' = [v \in Pages |-> IF v \in set THEN Translate(v) ELSE tlb[v]]
    /\ UNCHANGED <<pte, held>>

(* flush_tlb, and swap_dir                                                 *)
Flush ==
    /\ tlb' = [v \in Pages |-> 0]
    /\ UNCHANGED <<pte, held>>

(* The processor evicts a translation.                                     *)
Evict(v) ==
    /\ tlb[v] # 0
    /\ tlb' = [tlb EXCEPT ![v] = 0]
    /\ UNCHANGED <<pte, held>>
=============================================================================
