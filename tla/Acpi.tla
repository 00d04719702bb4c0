-------------------------------- MODULE Acpi --------------------------------
(***************************************************************************)
(* init_acpi of kernel/core/acpi.c and parse_madt of kernel/core/madt.c:   *)
(* the search for the RSDP, the copies of the RSDT, MADT, HPET and FADT    *)
(* that are made and summed through kmap, and the records of the MADT.     *)
(* The mappings and the TLB are those of Vmm.                              *)
(*                                                                         *)
(* A table begins in a frame at an offset, goes on in the frames behind,   *)
(* and is known by its signature.  Bytes have no values: a sum is right    *)
(* when it is that of the bytes of one whole table, and arbitrary when it  *)
(* mixes the bytes of several places.  Sizes are scaled: what matters is   *)
(* that HeaderSize < FadtSize < CounterRange < PageSize.                   *)
(***************************************************************************)
EXTENDS Integers, SequencesExt

CONSTANTS
    Firmwares,     \* the tables a machine may have, see FirmwareType
    LowFrames, NSlots,  \* as in Vmm
    PageSize,      \* 4096
    CounterRange,  \* 256: the values of a uint8_t
    HeaderSize,    \* 36: sizeof(acpi_sdt_header_t)
    PtrSize,       \* 4: an entry of the RSDT
    FadtSize,      \* 244: sizeof(fadt_t)
    MaxLength      \* bounds a length that is not read from a table

Needed == <<"RSDT", "APIC", "HPET", "FACP">>
Signatures == ToSet(Needed) \cup {"OTHER"}
(* What the records of a MADT hold: the type and the length; an APIC id,   *)
(* an IOAPIC address or an interrupt override; bit 0 of a LAPIC's flags.   *)
(* records has one for each byte of the table behind madt_t's own fields:  *)
(* what parse_madt reads when its pointer comes to that byte, be it where  *)
(* a record was meant to begin or not.  Bytes behind the table's end that  *)
(* it reads for one close to it hold something, too.                       *)
RecordTypes == {"LAPIC", "IOAPIC", "IOAPIC_ISO", "NMI_SRC", "LAPIC_NMI",
                "LAPIC_ADDR_OVR", "LAPIC_X2APIC"}
IsTable(t) ==
    /\ t.sig \in Signatures
    /\ t.frame \in Nat \ {0} /\ t.off \in 0 .. PageSize - 1
    /\ t.len \in HeaderSize .. MaxLength
    /\ t.good \in BOOLEAN
    /\ t.lapic_addr \in Nat
    /\ t.records \in Seq(ToSet(t.records))
    /\ Len(t.records) <= t.len - HeaderSize
    /\ \A r \in ToSet(t.records) :
         /\ r.type \in RecordTypes
         /\ r.length \in 0 .. CounterRange - 1
         /\ r.value \in Nat
         /\ r.enabled \in BOOLEAN
(* Candidates for the RSDP in the order of their addresses, each with the  *)
(* outcome of the sum of 20 bytes and of that of 36.  What two tables have *)
(* in the same place is the same table.                                    *)
FirmwareType(fw) ==
    /\ \A c \in ToSet(fw.rsdps) :
         c.revision \in Nat /\ c.good20 \in BOOLEAN /\ c.good36 \in BOOLEAN
    /\ fw.tables \in Seq(ToSet(fw.tables))
    /\ \A t \in ToSet(fw.tables) \cup {fw.rsdt} : IsTable(t)
    /\ \A s, t \in ToSet(fw.tables) \cup {fw.rsdt} :
         s.frame = t.frame /\ s.off = t.off => s = t
    /\ fw.rsdt.len = HeaderSize + PtrSize * Len(fw.tables)

ASSUME AcpiAssumption ==
    /\ LowFrames \in Nat /\ NSlots \in Nat \ {0}
    /\ {PageSize, CounterRange, HeaderSize, FadtSize, MaxLength} \subseteq Nat
    /\ 0 < HeaderSize /\ HeaderSize < FadtSize /\ FadtSize < CounterRange
    /\ CounterRange < PageSize /\ PtrSize \in Nat \ {0}
    /\ \A fw \in Firmwares : FirmwareType(fw)

VARIABLES
    fw,            \* this machine's tables
    pc,            \* where init_acpi and parse_madt are
    want,          \* position in Needed of the table being looked for
    k,             \* candidate, entry of the RSDT, or parse_madt's pointer
    room,          \* what kmalloc gave for the copy
    n,             \* bytes memcpy was asked to copy
    b, i,          \* bytes read, and the loop's own 8-bit count of them
    from,          \* the frames these bytes came from
    acpi_version,
    rsdp,          \* the copied candidate, or 0: NULL or all zeroes
    copies,        \* what was copied for each table
    num_procs, lapic_ids, num_iso_entries, iso_entries, lapic_addr, ioapic_addr,
    pte, tlb, held \* as in Vmm

loop == <<room, n, b, i, from>>
found == <<acpi_version, rsdp, copies>>
madt == <<num_procs, lapic_ids, num_iso_entries, iso_entries,
          lapic_addr, ioapic_addr>>
window == <<pte, tlb, held>>
vars == <<fw, pc, want, k, loop, found, madt, window>>

V == INSTANCE Vmm WITH Clients <- {"acpi"}
-----------------------------------------------------------------------------
(* The table that is wanted                                                *)
Sig == Needed[want]
Nowhere == [from |-> {}, off |-> 0, len |-> 0]

Init ==
    /\ fw \in Firmwares
    /\ pc = "rsdp" /\ want = 1 /\ k = 1
    /\ room = 0 /\ n = 0 /\ b = 0 /\ i = 0 /\ from = {}
    /\ acpi_version = 0 /\ rsdp = 0
    /\ copies = [s \in ToSet(Needed) |-> Nowhere]
    /\ num_procs = 0 /\ lapic_ids = [j \in 0 .. CounterRange - 1 |-> 0]
    /\ num_iso_entries = 0 /\ iso_entries = lapic_ids
    /\ lapic_addr = 0 /\ ioapic_addr = 0
    /\ V!Init

rsdp_checksum(c) == IF c.revision < 2 THEN c.good20 ELSE c.good36

(* find_rsdp: a candidate is copied before it is summed; the revision of   *)
(* one that is refused stays in acpi_version.                              *)
Candidate ==
    /\ pc = "rsdp" /\ k <= Len(fw.rsdps)
    /\ acpi_version' = fw.rsdps[k].revision
    /\ \/ /\ rsdp_checksum(fw.rsdps[k])
          /\ rsdp' = k /\ pc' = "scan" /\ k' = 1
       \/ /\ ~ rsdp_checksum(fw.rsdps[k])
          /\ rsdp' = 0 /\ k' = k + 1 /\ UNCHANGED pc
    /\ UNCHANGED <<fw, want, loop, copies, madt, window>>

find_rsdp ==
    /\ pc = "rsdp" /\ k > Len(fw.rsdps)
    /\ pc' = "scan" /\ k' = 1
    /\ UNCHANGED <<fw, want, loop, found, madt, window>>
-----------------------------------------------------------------------------
(* mutant: the last entry is not counted                                   *)
EntriesShort == (copies["RSDT"].len - HeaderSize) \div PtrSize - 1
(* The addresses that are tried: that of the RSDT, then, for each table,   *)
(* those the copy of the RSDT has room for                                 *)
entries == (copies["RSDT"].len - HeaderSize) \div PtrSize
Places ==
    IF Sig = "RSDT" THEN <<fw.rsdt>> ELSE SubSeq(fw.tables, 1, entries)
Place == Places[k]

kmap(frame) == V!Kmap("acpi", frame)
kunmap == V!Kunmap("acpi")

(* What is at the offset of the table in hand, in some frame               *)
There(f, off) ==
    {t \in ToSet(fw.tables) \cup {fw.rsdt} : t.frame = f /\ t.off = off}
SignatureAt(f) == {t.sig : t \in There(f, Place.off)}
LengthAt(f) ==
    IF There(f, Place.off) = {} THEN 0 .. MaxLength
    ELSE {t.len : t \in There(f, Place.off)}

(* The page and the frame that byte j of the mapping lies in; frame 0 when *)
(* nothing translates it.  Behind low memory are the registers of the      *)
(* local APIC, which isr_init has mapped: no frame of any table.           *)
PageOf(j) == held["acpi"].page + (Place.off + j) \div PageSize
ApicFrame == -1
FrameOf(j) ==
    IF PageOf(j) = V!ApicPage THEN ApicFrame
    ELSE IF PageOf(j) \in V!Pages THEN V!Translate(PageOf(j)) ELSE 0
(* Bytes are read: their translations are in the TLB.                      *)
Read(bytes) ==
    /\ \A j \in bytes : FrameOf(j) # 0
    /\ V!Access({PageOf(j) : j \in bytes} \cap V!Pages)

(* find_rsdt_xsdt and find_table map the next place.  A version of 2 or    *)
(* more panics; without an RSDP, or with no place left, a NULL pointer is  *)
(* followed.                                                               *)
Map ==
    /\ pc = "scan" /\ acpi_version < 2
    /\ Sig = "RSDT" => rsdp # 0
    /\ k <= Len(Places)
    /\ kmap(Place.frame)
    /\ pc' = IF Sig = "RSDT" THEN "allocate" ELSE "match"
    /\ UNCHANGED <<fw, want, k, loop, found, madt>>

NotFound ==
    /\ pc = "scan"
    /\ \/ acpi_version >= 2
       \/ Sig = "RSDT" /\ rsdp = 0
       \/ k > Len(Places)
    /\ pc' = "halted"
    /\ UNCHANGED <<fw, want, k, loop, found, madt, window>>

find_table ==
    /\ pc = "match" /\ Read({0})
    /\ pc' = IF Sig \in SignatureAt(FrameOf(0)) THEN "allocate" ELSE "skip"
    /\ UNCHANGED <<fw, want, k, loop, found, madt>>

Skip ==
    /\ pc = "skip" /\ kunmap
    /\ pc' = "scan" /\ k' = k + 1
    /\ UNCHANGED <<fw, want, loop, found, madt>>

(* mutant: room for the header alone                                       *)
AllocateHeader ==
    /\ pc = "allocate" /\ Read({0})
    /\ room' = HeaderSize
    /\ pc' = "start"
    /\ UNCHANGED <<fw, want, k, n, b, i, from, found, madt>>
(* kmalloc: the size of the FADT is that of its structure.                 *)
Allocate ==
    /\ pc = "allocate" /\ Read({0})
    /\ room' \in (IF Sig = "FACP" THEN {FadtSize} ELSE LengthAt(FrameOf(0)))
    /\ pc' = "start"
    /\ UNCHANGED <<fw, want, k, n, b, i, from, found, madt>>

(* memcpy, of the length it reads now                                      *)
StartCopy ==
    /\ pc = "start" /\ Read({0})
    /\ n' \in LengthAt(FrameOf(0))
    /\ b' = 0 /\ i' = 0 /\ from' = {}
    /\ pc' = "copy"
    /\ UNCHANGED <<fw, want, k, room, found, madt>>

CopyByte ==
    /\ pc = "copy" /\ b < n /\ Read({b})
    /\ b' = b + 1 /\ from' = from \cup {FrameOf(b)}
    /\ UNCHANGED <<fw, pc, want, k, room, n, i, found, madt>>

Copied ==
    /\ pc = "copy" /\ b = n
    /\ copies' = [copies EXCEPT ![Sig] =
                    [from |-> from, off |-> Place.off, len |-> n]]
    /\ b' = 0 /\ from' = {}
    /\ pc' = "sum"
    /\ UNCHANGED <<fw, want, k, room, n, i, acpi_version, rsdp, madt, window>>

(* acpi_sdt_checksum of the source, whose length each turn reads again.    *)
(* The count is a uint8_t and the pointer is not.                          *)
SumByte ==
    /\ pc = "sum" /\ Read({0, b})
    /\ \E length \in LengthAt(FrameOf(0)) : i < length
    /\ i' = (i + 1) % CounterRange
    /\ b' = b + 1 /\ from' = from \cup {FrameOf(b)}
    /\ UNCHANGED <<fw, pc, want, k, room, n, found, madt>>

(* The frames of a table                                                   *)
Frames(t) == t.frame .. t.frame + (t.off + t.len - 1) \div PageSize
(* The tables whose bytes are those that were read                         *)
Whole(frames, off, len) ==
    {t \in ToSet(fw.tables) \cup {fw.rsdt} :
        frames = Frames(t) /\ off = t.off /\ len = t.len}
SumIsZero(frames, off, len) ==
    IF Whole(frames, off, len) = {} THEN BOOLEAN
    ELSE {t.good : t \in Whole(frames, off, len)}

CopyEnds ==
    \A t \in Whole(copies[Sig].from, copies[Sig].off, copies[Sig].len) :
        t.len < CounterRange

(* mutant: the sums are not looked at                                      *)
ChecksumUnused ==
    /\ pc = "sum" /\ Read({0})
    /\ \E length \in LengthAt(FrameOf(0)) : i >= length
    /\ pc' = "unmap"
    /\ UNCHANGED <<fw, want, k, loop, found, madt>>
(* Both sums, that of the source and that of the copy, or a panic.  The    *)
(* sum of a copy too long for the count runs on until it leaves the heap.  *)
acpi_sdt_checksum ==
    /\ pc = "sum" /\ Read({0})
    /\ \E length \in LengthAt(FrameOf(0)) : i >= length
    /\ \E src \in SumIsZero(from, Place.off, b),
          dst \in SumIsZero(copies[Sig].from, copies[Sig].off, copies[Sig].len) :
         pc' = IF src /\ dst /\ CopyEnds THEN "unmap" ELSE "halted"
    /\ UNCHANGED <<fw, want, k, loop, found, madt>>

(* kunmap, and on to the next table; after the FADT, to parse_madt         *)
Unmap ==
    /\ pc = "unmap" /\ kunmap
    /\ IF want < Len(Needed) THEN want' = want + 1 /\ pc' = "scan"
       ELSE want' = 2 /\ pc' = "madt"
    /\ k' = 1
    /\ UNCHANGED <<fw, loop, found, madt>>

(* A byte that nothing translates: page_fault panics.                      *)
Fault ==
    /\ \/ pc \in {"match", "allocate", "start"} /\ FrameOf(0) = 0
       \/ pc = "copy" /\ b < n /\ FrameOf(b) = 0
       \/ /\ pc = "sum"
          /\ \/ FrameOf(0) = 0
             \/ FrameOf(b) = 0 /\ \E length \in LengthAt(FrameOf(0)) : i < length
    /\ pc' = "halted"
    /\ UNCHANGED <<fw, want, k, loop, found, madt, window>>
-----------------------------------------------------------------------------
(* parse_madt.  A copy that is no whole table has no records to speak of.  *)
Madt == Whole(copies["APIC"].from, copies["APIC"].off, copies["APIC"].len)
MadtTable == CHOOSE t \in Madt : TRUE
Records == MadtTable.records
Record == Records[k]

parse_madt ==
    /\ pc = "madt"
    /\ \/ Madt = {} /\ pc' = "astray" /\ UNCHANGED lapic_addr
       \/ Madt # {} /\ pc' = "parse" /\ lapic_addr' = MadtTable.lapic_addr
    /\ UNCHANGED <<fw, want, k, loop, found, window,
                   num_procs, lapic_ids, num_iso_entries, iso_entries, ioapic_addr>>

(* ptr += header.length: into another record or beyond the end, if need be *)
Advance == k' = k + Record.length
At(type) == pc = "parse" /\ k <= Len(Records) /\ Record.type = type

(* mutant: only the first processor is kept                                *)
LapicFirst ==
    /\ At("LAPIC") /\ Advance
    /\ lapic_ids' = [lapic_ids EXCEPT ![0] = Record.value]
    /\ num_procs' = (num_procs + 1) % CounterRange
    /\ UNCHANGED <<fw, pc, want, loop, found, window,
                   num_iso_entries, iso_entries, lapic_addr, ioapic_addr>>
Lapic ==
    /\ At("LAPIC") /\ Advance
    /\ lapic_ids' = [lapic_ids EXCEPT ![num_procs] = Record.value]
    /\ num_procs' = (num_procs + 1) % CounterRange
    /\ UNCHANGED <<fw, pc, want, loop, found, window,
                   num_iso_entries, iso_entries, lapic_addr, ioapic_addr>>

Ioapic ==
    /\ At("IOAPIC") /\ Advance
    /\ ioapic_addr' = IF ioapic_addr = 0 THEN Record.value ELSE ioapic_addr
    /\ UNCHANGED <<fw, pc, want, loop, found, window,
                   num_procs, lapic_ids, num_iso_entries, iso_entries, lapic_addr>>

IoapicIso ==
    /\ At("IOAPIC_ISO") /\ Advance
    /\ iso_entries' = [iso_entries EXCEPT ![num_iso_entries] = Record.value]
    /\ num_iso_entries' = (num_iso_entries + 1) % CounterRange
    /\ UNCHANGED <<fw, pc, want, loop, found, window,
                   num_procs, lapic_ids, lapic_addr, ioapic_addr>>

Printed == {"NMI_SRC", "LAPIC_NMI", "LAPIC_ADDR_OVR"}
(* mutant: a record that is only printed is not stepped over               *)
PrintStays ==
    /\ \E type \in Printed : At(type)
    /\ UNCHANGED vars
PrintOnly ==
    /\ \E type \in Printed : At(type)
    /\ Advance
    /\ UNCHANGED <<fw, pc, want, loop, found, madt, window>>

(* No case of the switch: the loop turns without moving.                   *)
Unknown == At("LAPIC_X2APIC") /\ UNCHANGED vars

RecordsEnd ==
    /\ pc = "parse" /\ k > Len(Records)
    /\ pc' = "done"
    /\ UNCHANGED <<fw, want, k, loop, found, madt, window>>
-----------------------------------------------------------------------------
Kernel ==
    \/ Candidate \/ find_rsdp
    \/ Map \/ NotFound \/ find_table \/ Skip
    \/ Allocate \/ StartCopy \/ CopyByte \/ Copied
    \/ SumByte \/ acpi_sdt_checksum \/ Unmap \/ Fault
    \/ parse_madt \/ RecordsEnd
    \/ Lapic \/ Ioapic \/ IoapicIso \/ PrintOnly \/ Unknown

(* The processor drops a translation.                                      *)
Evict ==
    /\ pc \notin {"done", "halted", "astray"}
    /\ \E v \in V!Pages : V!Evict(v)
    /\ UNCHANGED <<fw, pc, want, k, loop, found, madt>>

(* What follows is not the business of these two functions.                *)
Over == pc \in {"done", "halted", "astray"} /\ UNCHANGED vars

Next == Kernel \/ Evict \/ Over

(* Nothing else runs on the machine yet.                                   *)
Spec == Init /\ [][Next]_vars /\ WF_vars(Kernel)
-----------------------------------------------------------------------------
AllTables == ToSet(fw.tables) \cup {fw.rsdt}
(* At most one frame of tables is reached through the HIGHMEM window: the  *)
(* page that kmap gives every time, stale in the TLB, is then not wrong.   *)
OneWindowFrame ==
    \A s, t \in AllTables :
        s.frame > LowFrames /\ t.frame > LowFrames => s.frame = t.frame
(* No table leaves low memory at its end: the page behind is the local     *)
(* APIC's.                                                                 *)
NoneStraddles ==
    \A t \in AllTables : t.frame <= LowFrames => Frames(t) \subseteq 1 .. LowFrames
(* The table find_table should return                                      *)
FirstWith(sig) ==
    fw.tables[CHOOSE j \in 1 .. Len(fw.tables) :
                /\ fw.tables[j].sig = sig
                /\ \A m \in 1 .. j - 1 : fw.tables[m].sig # sig]

(* When init_acpi is through (acpi.c:211-218), each copy is the first      *)
(* table of its signature, whole, and that table's sum is right, wherever  *)
(* the tables are as long as one window frame is enough and none lies      *)
(* across the end of low memory.                                           *)
CopiesRight ==
    pc \in {"madt", "parse", "done"} /\ OneWindowFrame /\ NoneStraddles =>
        \A sig \in {"APIC", "HPET", "FACP"} :
            LET t == FirstWith(sig) IN
            /\ copies[sig] = [from |-> Frames(t), off |-> t.off, len |-> t.len]
            /\ t.good

(* memcpy stays in what kmalloc gave, but for a FADT longer than the       *)
(* structure find_fadt allocates (acpi.c:134-135).                         *)
CopyFits ==
    pc = "copy" /\ OneWindowFrame =>
        b <= room \/ (Sig = "FACP" /\ FirstWith("FACP").len > FadtSize)

(* The bytes the pointer comes to: the first, and where a record that it   *)
(* comes to ends.  They are the least such set.                            *)
Met(records) ==
    {j \in 1 .. Len(records) :
        \A S \in SUBSET (1 .. Len(records)) :
            /\ 1 \in S
            /\ \A m \in S : m + records[m].length <= Len(records) =>
                             m + records[m].length \in S
            => j \in S}
(* The records of a type before byte j, and the IOAPICs with an address    *)
Before(records, type, j) ==
    {m \in Met(records) : m < j /\ records[m].type = type}
Addresses(records) ==
    {m \in Met(records) : records[m].type = "IOAPIC" /\ records[m].value # 0}
(* The first count entries of array are the values of those before j.      *)
Lists(count, array, records, type, j) ==
    /\ count = Cardinality(Before(records, type, j))
    /\ \A m \in Before(records, type, j) :
         array[Cardinality(Before(records, type, m))] = records[m].value
(* The processors that are enabled, and those that are not                 *)
Processors(records, enabled) ==
    {m \in Met(records) : records[m].type = "LAPIC" /\ records[m].enabled = enabled}
(* What parse_madt leaves for the APIC code (madt.h:89-91): the id of every*)
(* local APIC, enabled or not, and every override in the table's order,    *)
(* counted without a wrap, the local APICs' address, and that of the first *)
(* IOAPIC that has one.  So num_procs is the number of enabled LAPIC       *)
(* entries, as madt.h:94 says, exactly if the table has no disabled one.   *)
MadtRight ==
    pc = "done" =>
        /\ Lists(num_procs, lapic_ids, Records, "LAPIC", Len(Records) + 1)
        /\ Lists(num_iso_entries, iso_entries, Records, "IOAPIC_ISO", Len(Records) + 1)
        /\ num_procs = Cardinality(Processors(Records, TRUE)) <=>
             Processors(Records, FALSE) = {}
        /\ lapic_addr = MadtTable.lapic_addr
        /\ ioapic_addr = IF Addresses(Records) = {} THEN 0
                         ELSE Records[Min(Addresses(Records))].value

(* What acpi.h:164-165 says of acpi_sdt_checksum: it sums the table, across*)
(* its length.                                                             *)
SumsTheTable ==
    pc = "sum" /\ Whole({V!Translate(held["acpi"].page)}, Place.off, n) # {} => b <= n

(* The loop of parse_madt turns on the spot: no case of its switch is for  *)
(* the record in hand, or it has no length.                                *)
Stuck ==
    /\ pc = "parse" /\ k <= Len(Records)
    /\ Record.type = "LAPIC_X2APIC" \/ Record.length = 0
(* Whatever the firmware is, init_acpi and parse_madt come to an end, be it*)
(* in a panic, unless the pointer comes to a record of the MADT that is    *)
(* unknown or has no length.                                               *)
Settles == <>(pc \in {"done", "halted", "astray"} \/ Stuck)

(* A machine the code is written for: an RSDP of revision 0 or 1, every    *)
(* table there, its sum right, shorter than 256 bytes, and all of them in  *)
(* one page of high memory.                                                *)
Has(sig) == \E t \in ToSet(fw.tables) : t.sig = sig
Supported ==
    /\ \E c \in 1 .. Len(fw.rsdps) :
         /\ rsdp_checksum(fw.rsdps[c]) /\ fw.rsdps[c].revision < 2
         /\ \A d \in 1 .. c - 1 : ~ rsdp_checksum(fw.rsdps[d])
    /\ fw.rsdt.good /\ fw.rsdt.frame > LowFrames
    /\ \A sig \in {"APIC", "HPET", "FACP"} : Has(sig) /\ FirstWith(sig).good
    /\ \A t \in AllTables :
         /\ t.frame = fw.rsdt.frame
         /\ t.off + t.len <= PageSize
         /\ t.len < CounterRange
(* Such a machine boots through init_acpi and parse_madt, whichever        *)
(* translations the processor drops meanwhile, or comes to such a record.  *)
Boots == Supported => <>(pc = "done" \/ Stuck)
=============================================================================
