------------------------------- MODULE MCAcpi -------------------------------
(* Machines: one the code is written for, the same tables spread over a low
   frame and two high ones in every way, and machines that differ from the
   first in something else *)
EXTENDS Acpi

Table(sig, off, len) ==
    [sig |-> sig, frame |-> 5, off |-> off, len |-> len, good |-> TRUE,
     lapic_addr |-> off, records |-> <<>>]
R(type, length, value) ==
    [type |-> type, length |-> length, value |-> value, enabled |-> TRUE]
Rsdp(revision, good20, good36) ==
    [revision |-> revision, good20 |-> good20, good36 |-> good36]
MadtOf(records) ==
    [Table("APIC", 16, HeaderSize + Len(records)) EXCEPT !.records = records]

Off(record) == [record EXCEPT !.enabled = FALSE]
Junk == R("LAPIC_X2APIC", 0, 9)
(* Records longer than a byte, over bytes that would read as other records,
   and one that ends behind the table *)
Long(rest) == <<R("LAPIC", 2, 1), Junk, R("IOAPIC_ISO", 3, 3)>> \o rest
Records1 ==
    <<R("LAPIC", 1, 1), R("IOAPIC", 1, 0), Off(R("LAPIC", 1, 2)), R("IOAPIC_ISO", 1, 3),
      R("NMI_SRC", 1, 0), R("IOAPIC", 1, 5), R("IOAPIC_ISO", 1, 4), R("IOAPIC", 1, 6)>>
Lapics(count) == [j \in 1 .. count |-> R("LAPIC", 1, j)]
Other == Table("OTHER", 32, 2)
Hpet == Table("HPET", 45, 3)
Fadt == Table("FACP", 8, 6)
Plain == <<Other, Fadt, MadtOf(Records1), Hpet>>
Put(j, table) == [Plain EXCEPT ![j] = table]

Machine(tables) ==
    [rsdps |-> <<Rsdp(0, TRUE, FALSE)>>,
     rsdt |-> Table("RSDT", 0, HeaderSize + PtrSize * Len(tables)), tables |-> tables]

(* The tables of Plain in these frames, the first of them also, perhaps, at
   the offset of the MADT *)
Placed(frames, off) ==
    [Machine(Plain) EXCEPT
       !.rsdt.frame = frames[5],
       !.tables = [j \in 1 .. 4 |->
                     [Plain[j] EXCEPT !.frame = frames[j],
                                      !.off = IF j = 1 THEN off ELSE @]]]
Spread ==
    {Placed(frames, off) : frames \in [1 .. 5 -> {2, 5, 6}], off \in {16, 32}}

Machines ==
    {Machine(ts) : ts \in
        {SubSeq(Plain, 2, 4), SubSeq(Plain, 1, 3),
         Append(Plain, [Table("APIC", 36, 1) EXCEPT !.good = FALSE]),
         Put(3, [MadtOf(Records1) EXCEPT !.good = FALSE]),
         Put(3, MadtOf(Lapics(CounterRange - HeaderSize - 1))),
         Put(3, MadtOf(Lapics(CounterRange))),
         Put(4, Table("HPET", 45, 4)),                \* crosses its page
         Put(4, [Table("HPET", 45, 4) EXCEPT !.frame = 1]),  \* in low memory
         Put(4, [Table("HPET", 45, 4) EXCEPT !.frame = 2]),  \* and at its end
         Put(2, Table("FACP", 8, FadtSize + 1)),
         Put(3, MadtOf(<<R("LAPIC", 1, 1), R("LAPIC_X2APIC", 1, 1)>>)),
         Put(3, MadtOf(<<R("LAPIC", 1, 1), R("LAPIC", 0, 1)>>)),
         Put(3, MadtOf(<<R("IOAPIC_ISO", 1, 1), R("LAPIC_ADDR_OVR", 1, 1)>>)),
         Put(3, MadtOf(Long(<<R("IOAPIC", 2, 5), Junk, R("LAPIC", 2, 2), Junk>>))),
         Put(3, MadtOf(Long(<<Junk, Junk, R("LAPIC", 3, 2), Junk, R("LAPIC", 2, 4)>>))),
         Put(3, MadtOf(Long(<<R("IOAPIC", 1, 0), Junk, R("IOAPIC", 5, 6)>>)))}}
    \cup {m \in Spread : m.tables[1].off = 16 => m.tables[1].frame # m.tables[3].frame}
    \cup {[Machine(Plain) EXCEPT !.rsdps = rs] : rs \in
        {<<>>, <<Rsdp(0, FALSE, TRUE)>>, <<Rsdp(2, TRUE, FALSE), Rsdp(0, TRUE, FALSE)>>,
         <<Rsdp(2, FALSE, TRUE)>>, <<Rsdp(1, FALSE, TRUE), Rsdp(1, TRUE, TRUE)>>}}
=============================================================================
