----------------------------- MODULE AcpiProofs -----------------------------
(***************************************************************************)
(* Proofs about Acpi, for any firmware, any size of low memory and of the  *)
(* window, and any sizes of pages, headers and counters that the           *)
(* assumptions of Acpi allow.                                              *)
(***************************************************************************)
EXTENDS Acpi, FiniteSetTheorems, NumberFacts, TLAPS

(* The places of init_acpi with a table mapped, and those after find_table *)
Taken == {"allocate", "start", "copy", "sum", "unmap"}
Mapped == Taken \cup {"match", "skip"}
Seeking == Mapped \cup {"scan"}
Parsing == {"parse", "done", "astray"}
(* init_acpi is through, and parse_madt has not gone astray.               *)
Through == {"madt", "parse", "done"}
Steps == Seeking \cup Parsing \cup {"rsdp", "madt", "halted"}

(* What the proofs need to know of types                                   *)
TypeOK ==
    /\ fw \in Firmwares
    /\ pc \in Steps /\ want \in 1 .. 4 /\ k \in Nat \ {0}
    /\ b \in Nat /\ i \in 0 .. CounterRange - 1
    /\ DOMAIN copies = ToSet(Needed)
    /\ num_procs \in 0 .. CounterRange - 1
    /\ num_iso_entries \in 0 .. CounterRange - 1
    /\ DOMAIN lapic_ids = 0 .. CounterRange - 1
    /\ DOMAIN iso_entries = 0 .. CounterRange - 1

(* A copy of the MADT that has been accepted is short enough for a uint8_t *)
(* to count its bytes, and so its records.                                 *)
MadtShort ==
    want > 2 \/ (want = 2 /\ pc = "unmap") \/ pc \in Parsing \cup {"madt"} =>
        \A t \in Madt : t.len < CounterRange

(* Nothing is counted before parse_madt, which begins at the first record. *)
Uncounted ==
    /\ pc \notin Parsing => num_procs = 0 /\ num_iso_entries = 0 /\ ioapic_addr = 0
    /\ pc = "madt" => k = 1

(* The pointer is at byte j: it came there or beyond the end, and whatever *)
(* it met before ends at j at the latest.                                  *)
Passed(records, j) ==
    /\ j <= Len(records) => j \in Met(records)
    /\ \A m \in Met(records) : m < j => m + records[m].length <= j
(* count and array hold the records of a type before j, each at an index   *)
(* below count.                                                            *)
Counted(count, array, records, type, j) ==
    /\ Lists(count, array, records, type, j)
    /\ \A m \in Before(records, type, j) :
         Cardinality(Before(records, type, m)) < count
AddressFound(addr, records, j) ==
    \/ addr = 0 /\ \A m \in Addresses(records) : m >= j
    \/ \E m \in Addresses(records) : /\ m < j
                                     /\ \A l \in Addresses(records) : m <= l
                                     /\ addr = records[m].value
(* What parse_madt has read so far, unless it is stuck at a record without *)
(* a length                                                                *)
ParseOK ==
    pc \in {"parse", "done"} =>
        /\ Madt # {} /\ lapic_addr = MadtTable.lapic_addr
        /\ \/ pc = "parse" /\ k \in 1 .. Len(Records) /\ Records[k].length = 0
           \/ /\ Passed(Records, k)
              /\ pc = "done" => k > Len(Records)
              /\ Counted(num_procs, lapic_ids, Records, "LAPIC", k)
              /\ Counted(num_iso_entries, iso_entries, Records, "IOAPIC_ISO", k)
              /\ AddressFound(ioapic_addr, Records, k)

ParseInv == TypeOK /\ MadtShort /\ Uncounted /\ ParseOK
-----------------------------------------------------------------------------
(* The table in hand                                                       *)
Here == IF want = 1 THEN fw.rsdt ELSE fw.tables[k]
Windowed == {t.frame : t \in {t \in AllTables : t.frame > LowFrames}}
Slot == V!ApicPage + 1

(* A translation, cached or not, is that of the identity mapping or leads  *)
(* to the one frame the window is used for, through its first page.        *)
TlbOK ==
    /\ DOMAIN pte = V!Pages /\ DOMAIN tlb = V!Pages /\ DOMAIN held = {"acpi"}
    /\ \A v \in V!Pages :
         IF v <= LowFrames THEN pte[v] \in {0, v} /\ tlb[v] \in {0, v}
         ELSE IF v = Slot THEN pte[v] \in {0} \cup Windowed /\ tlb[v] \in {0} \cup Windowed
         ELSE pte[v] = 0 /\ tlb[v] = 0

(* Where the search is, what it has passed over and what it has found      *)
AtOK ==
    /\ pc \in Seeking /\ want = 1 => k = 1
    /\ pc \in Seeking /\ want > 1 =>
         /\ k <= Len(fw.tables) + 1
         /\ \A m \in 1 .. k - 1 : fw.tables[m].sig # Sig
    /\ pc \in Mapped /\ want > 1 => k <= Len(fw.tables)
    /\ pc \in {"match", "skip"} => want > 1
    /\ pc = "skip" => Here.sig # Sig
    /\ pc \in Taken /\ want > 1 => Here.sig = Sig

WindowOK ==
    /\ pc \in {"rsdp", "scan"} => pte[Slot] = 0
    /\ pc \in Mapped =>
         IF Here.frame <= LowFrames
         THEN held["acpi"].page = Here.frame /\ pte[Slot] = 0
         ELSE held["acpi"].page = Slot

(* The copy of the RSDT has the length of the RSDT.                        *)
RsdtOK ==
    want > 1 \/ pc \in {"sum", "unmap"} \cup Through =>
        copies["RSDT"].len = fw.rsdt.len

(* The frames of the first c bytes of t                                    *)
Span(t, c) == IF c = 0 THEN {} ELSE t.frame .. t.frame + (t.off + c - 1) \div PageSize
CopyOf(t) == [from |-> Frames(t), off |-> t.off, len |-> t.len]

LoopOK ==
    /\ pc \in {"start", "copy"} =>
         room = IF Sig = "FACP" THEN FadtSize ELSE Here.len
    /\ pc \in {"copy", "sum"} => n = Here.len
    /\ pc = "copy" => b <= n /\ i = 0 /\ (NoneStraddles => from = Span(Here, b))
    /\ pc \in {"sum", "unmap"} /\ NoneStraddles => copies[Sig] = CopyOf(Here)
    /\ pc = "sum" /\ NoneStraddles /\ Here.len < CounterRange =>
         i = b /\ b <= Here.len /\ from = Span(Here, b)
    /\ pc = "unmap" /\ NoneStraddles => Here.good

IsFirst(j, sig) ==
    /\ fw.tables[j].sig = sig
    /\ \A m \in 1 .. j - 1 : fw.tables[m].sig # sig
CopyGood(sig) ==
    \E j \in 1 .. Len(fw.tables) :
        IsFirst(j, sig) /\ copies[sig] = CopyOf(fw.tables[j]) /\ fw.tables[j].good
GoodOK ==
    NoneStraddles =>
        \A w \in 2 .. 4 :
            w < want \/ pc \in Through => CopyGood(Needed[w])

CopyParts == TlbOK /\ AtOK /\ WindowOK /\ RsdtOK /\ LoopOK /\ GoodOK
CopyInv == OneWindowFrame => CopyParts

Inv == ParseInv /\ CopyInv
-----------------------------------------------------------------------------
(* What the assumptions say of this machine's tables                       *)
LEMMA FirmwareFacts ==
    ASSUME fw \in Firmwares
    PROVE  /\ Len(fw.tables) \in Nat
           /\ DOMAIN fw.tables = 1 .. Len(fw.tables)
           /\ \A j \in 1 .. Len(fw.tables) : fw.tables[j] \in AllTables
           /\ fw.rsdt \in AllTables
           /\ \A t \in AllTables : IsTable(t)
           /\ \A s, t \in AllTables : s.frame = t.frame /\ s.off = t.off => s = t
           /\ fw.rsdt.len = HeaderSize + PtrSize * Len(fw.tables)
<1>1. FirmwareType(fw)
  BY AcpiAssumption
<1>2. /\ fw.tables \in Seq(ToSet(fw.tables))
      /\ \A t \in AllTables : IsTable(t)
      /\ \A s, t \in AllTables : s.frame = t.frame /\ s.off = t.off => s = t
      /\ fw.rsdt.len = HeaderSize + PtrSize * Len(fw.tables)
  BY <1>1 DEF FirmwareType, AllTables
<1>3. /\ Len(fw.tables) \in Nat
      /\ DOMAIN fw.tables = 1 .. Len(fw.tables)
      /\ \A j \in 1 .. Len(fw.tables) : fw.tables[j] \in ToSet(fw.tables)
  BY <1>2
<1> QED
  BY <1>2, <1>3 DEF AllTables

LEMMA TableFacts ==
    ASSUME NEW t, IsTable(t)
    PROVE  /\ t.frame \in Nat \ {0} /\ t.off \in 0 .. PageSize - 1
           /\ t.len \in Nat \ {0} /\ t.len >= HeaderSize
           /\ Len(t.records) \in Nat /\ Len(t.records) <= t.len - HeaderSize
           /\ t.good \in BOOLEAN
<1>1. /\ t.frame \in Nat \ {0} /\ t.off \in 0 .. PageSize - 1
      /\ t.len \in HeaderSize .. MaxLength /\ t.good \in BOOLEAN
      /\ t.records \in Seq(ToSet(t.records))
      /\ Len(t.records) <= t.len - HeaderSize
  BY DEF IsTable
<1>2. Len(t.records) \in Nat
  BY <1>1
<1>3. HeaderSize \in Nat \ {0}
  BY AcpiAssumption
<1> QED
  BY <1>1, <1>2, <1>3

Closed(records, S) ==
    /\ 1 \in S
    /\ \A m \in S : m + records[m].length <= Len(records) =>
                     m + records[m].length \in S

(* The bytes the pointer comes to are the least closed set.                *)
LEMMA MetFacts ==
    ASSUME NEW records, Len(records) \in Nat,
           \A m \in 1 .. Len(records) : records[m].length \in Nat
    PROVE  /\ Met(records) \subseteq 1 .. Len(records)
           /\ Len(records) >= 1 => Closed(records, Met(records))
           /\ \A S \in SUBSET (1 .. Len(records)) :
                Closed(records, S) => Met(records) \subseteq S
<1> DEFINE L == Len(records)
           E(m) == m + records[m].length
<1>1. \A S \in SUBSET (1 .. L) : Closed(records, S) => Met(records) \subseteq S
  BY DEF Closed, Met
<1>2. Met(records) \subseteq 1 .. L
  BY DEF Met
<1>3. ASSUME L >= 1 PROVE 1 \in Met(records)
  BY <1>3 DEF Met
<1>4. ASSUME NEW m \in Met(records), E(m) <= L PROVE E(m) \in Met(records)
  <2>1. E(m) \in 1 .. L
    BY <1>2, <1>4
  <2>2. ASSUME NEW S \in SUBSET (1 .. L), Closed(records, S) PROVE E(m) \in S
    <3>1. m \in S
      BY <1>1, <2>2
    <3> QED
      BY <3>1, <1>4, <2>2 DEF Closed
  <2> HIDE DEF E
  <2>3. \A S \in SUBSET (1 .. L) :
          /\ 1 \in S
          /\ \A x \in S : x + records[x].length <= L => x + records[x].length \in S
          => E(m) \in S
    BY <2>2 DEF Closed
  <2> QED
    BY <2>1, <2>3 DEF Met
<1>5. L >= 1 => Closed(records, Met(records))
  BY <1>3, <1>4 DEF Closed
<1> QED
  BY <1>1, <1>2, <1>5

(* The pointer passes a record that has a length: it meets nothing between *)
(* its begin and its end.                                                  *)
LEMMA PassOne ==
    ASSUME NEW records, Len(records) \in Nat,
           \A m \in 1 .. Len(records) : records[m].length \in Nat,
           NEW j \in 1 .. Len(records), records[j].length # 0, Passed(records, j)
    PROVE  /\ j \in Met(records)
           /\ \A m \in Met(records) : m < j + records[j].length => m <= j
           /\ Passed(records, j + records[j].length)
<1> DEFINE L == Len(records)
           E(m) == m + records[m].length
           M == Met(records)
           S == {m \in M : m <= j \/ m >= E(j)}
<1>1. /\ M \subseteq 1 .. L /\ Closed(records, M)
      /\ \A T \in SUBSET (1 .. L) : Closed(records, T) => M \subseteq T
  BY MetFacts
<1>2. j \in M /\ \A m \in M : m < j => E(m) <= j
  BY DEF Passed
<1>3. \A m \in M : E(m) \in Nat /\ E(m) >= m
  BY <1>1
<1>4. E(j) > j
  OBVIOUS
<1>5. 1 \in M /\ \A m \in M : E(m) <= L => E(m) \in M
  BY <1>1 DEF Closed
<1>6. j \in Nat /\ L \in Nat /\ \A m \in M : m \in Nat /\ m >= 1
  BY <1>1
<1> HIDE DEF E, M
<1>7. ASSUME NEW m \in S, E(m) <= L PROVE E(m) \in S
  <2>1. E(m) \in M
    BY <1>5, <1>7
  <2>2. CASE m < j
    BY <2>1, <2>2, <1>2
  <2>3. CASE m = j
    BY <2>1, <2>3, <1>3
  <2>4. CASE m > j
    BY <2>1, <2>4, <1>2, <1>3, <1>6
  <2> QED
    BY <2>2, <2>3, <2>4, <1>6
<1>8. 1 \in S
  BY <1>5, <1>6, <1>2
<1>9. Closed(records, S)
  BY <1>7, <1>8 DEF Closed, E
<1>10. M \subseteq S
  <2>1. S \in SUBSET (1 .. L)
    BY <1>1
  <2> QED
    BY <2>1, <1>9, <1>1
<1>11. \A m \in M : m < E(j) => m <= j
  BY <1>10, <1>2, <1>3, <1>6
<1>12. \A m \in M : m < E(j) => E(m) <= E(j)
  BY <1>11, <1>2, <1>3, <1>4, <1>6
<1>13. E(j) <= L => E(j) \in M
  BY <1>2, <1>5
<1>14. Passed(records, E(j))
  BY <1>12, <1>13 DEF Passed, E, M
<1> QED
  BY <1>2, <1>11, <1>14 DEF E, M

(* The records before one more                                             *)
LEMMA BeforeCount ==
    ASSUME NEW records, Met(records) \subseteq Nat \ {0}, NEW type,
           NEW j \in Nat \ {0}
    PROVE  /\ Cardinality(Before(records, type, j)) \in 0 .. j - 1
           /\ Before(records, type, 1) = {}
           /\ Cardinality(Before(records, type, 1)) = 0
<1> DEFINE S == Before(records, type, j)
<1>1. IsFiniteSet(1 .. j - 1) /\ Cardinality(1 .. j - 1) = j - 1
  BY FS_Interval
<1>2. S \subseteq 1 .. j - 1
  BY DEF Before
<1>3. IsFiniteSet(S) /\ Cardinality(S) \in Nat /\ Cardinality(S) <= j - 1
  BY <1>1, <1>2, FS_Subset, FS_CardinalityType
<1>4. Before(records, type, 1) = {}
  BY DEF Before
<1>5. Cardinality(Before(records, type, 1)) = 0
  BY <1>4, FS_EmptySet
<1> QED
  BY <1>3, <1>4, <1>5

LEMMA BeforeNext ==
    ASSUME NEW records, Met(records) \subseteq Nat \ {0}, NEW type,
           NEW j \in Met(records), NEW e \in Nat, e > j,
           \A m \in Met(records) : m < e => m <= j
    PROVE  /\ Before(records, type, e) =
                IF records[j].type = type THEN Before(records, type, j) \cup {j}
                ELSE Before(records, type, j)
           /\ records[j].type = type =>
                Cardinality(Before(records, type, e)) =
                    Cardinality(Before(records, type, j)) + 1
<1> DEFINE S == Before(records, type, j)
           T == Before(records, type, e)
<1>1. T = IF records[j].type = type THEN S \cup {j} ELSE S
  BY DEF Before
<1>2. S \subseteq 1 .. j - 1 /\ j \notin S
  BY DEF Before
<1>3. IsFiniteSet(S)
  <2>1. IsFiniteSet(1 .. j - 1)
    BY FS_Interval
  <2> QED
    BY <1>2, <2>1, FS_Subset
<1>4. records[j].type = type => Cardinality(T) = Cardinality(S) + 1
  BY <1>1, <1>2, <1>3, FS_AddElement
<1> QED
  BY <1>1, <1>4

(* parse_madt goes on to the next record and counts it if it is of type.   *)
LEMMA CountOne ==
    ASSUME NEW count \in Nat, NEW array, NEW records, NEW type,
           Met(records) \subseteq Nat \ {0},
           NEW j \in Met(records), j < CounterRange, NEW e \in Nat, e > j,
           \A m \in Met(records) : m < e => m <= j,
           DOMAIN array = 0 .. CounterRange - 1,
           Counted(count, array, records, type, j)
    PROVE  /\ count < CounterRange
           /\ records[j].type # type =>
                Counted(count, array, records, type, e)
           /\ records[j].type = type =>
                /\ (count + 1) % CounterRange = count + 1
                /\ Counted(count + 1, [array EXCEPT ![count] = records[j].value],
                           records, type, e)
<1> DEFINE C(m) == Cardinality(Before(records, type, m))
           B(m) == Before(records, type, m)
<1>1. /\ count = C(j)
      /\ \A m \in B(j) : array[C(m)] = records[m].value /\ C(m) < count
  BY DEF Counted, Lists
<1>2. /\ C(j) \in 0 .. j - 1
      /\ records[j].type = type => C(e) = C(j) + 1 /\ B(e) = B(j) \cup {j}
      /\ records[j].type # type => B(e) = B(j)
  BY BeforeCount, BeforeNext
<1>3. \A m \in B(j) : C(m) \in Nat
  <2>1. \A m \in B(j) : m \in Nat \ {0}
    BY DEF Before
  <2> QED
    BY <2>1, BeforeCount
<1>4. CounterRange \in Nat
  BY AcpiAssumption
<1>5. records[j].type # type => C(e) = C(j)
  BY <1>2
<1> HIDE DEF C, B
<1>6. count < CounterRange /\ count + 1 < CounterRange + 1
  BY <1>1, <1>2, <1>4
<1>7. ASSUME records[j].type # type
      PROVE  Counted(count, array, records, type, e)
  <2>1. count = C(e) /\ \A m \in B(e) : array[C(m)] = records[m].value /\ C(m) < count
    BY <1>1, <1>2, <1>5, <1>7
  <2> QED
    BY <2>1 DEF Counted, Lists, C, B
<1>8. ASSUME records[j].type = type
      PROVE  /\ (count + 1) % CounterRange = count + 1
             /\ Counted(count + 1, [array EXCEPT ![count] = records[j].value],
                        records, type, e)
  <2> DEFINE new == [array EXCEPT ![count] = records[j].value]
  <2>1. count + 1 < CounterRange
    BY <1>1, <1>2, <1>4
  <2>2. (count + 1) % CounterRange = count + 1
    BY <2>1, <1>4
  <2>3. count + 1 = C(e)
    BY <1>1, <1>2, <1>8
  <2>4. ASSUME NEW m \in B(j)
        PROVE  new[C(m)] = records[m].value /\ C(m) < count + 1
    <3>1. C(m) \in Nat /\ C(m) < count /\ array[C(m)] = records[m].value
      BY <1>1, <1>3
    <3>2. C(m) \in DOMAIN array /\ C(m) # count
      BY <3>1, <1>6, <1>4
    <3> QED
      BY <3>1, <3>2
  <2>5. new[C(j)] = records[j].value /\ C(j) < count + 1
    BY <1>1, <1>6, <1>4
  <2>6. \A m \in B(e) : new[C(m)] = records[m].value /\ C(m) < count + 1
    BY <1>2, <1>8, <2>4, <2>5
  <2> QED
    BY <2>2, <2>3, <2>6 DEF Counted, Lists, C, B
<1> QED
  BY <1>6, <1>7, <1>8

(* ... and keeps the address of the first IOAPIC that has one.             *)
LEMMA AddressOne ==
    ASSUME NEW addr, NEW records, Met(records) \subseteq Nat \ {0},
           NEW j \in Met(records), NEW e \in Nat, e > j,
           \A m \in Met(records) : m < e => m <= j,
           AddressFound(addr, records, j)
    PROVE  /\ records[j].type # "IOAPIC" => AddressFound(addr, records, e)
           /\ records[j].type = "IOAPIC" =>
                AddressFound(IF addr = 0 THEN records[j].value ELSE addr,
                             records, e)
<1> DEFINE A == Addresses(records)
<1>1. A \subseteq Met(records) /\ A \subseteq Nat
  BY DEF Addresses
<1>2. j \in A <=> records[j].type = "IOAPIC" /\ records[j].value # 0
  BY DEF Addresses
<1>3. \A m \in A : m < e => m <= j
  BY <1>1
<1>4. \A m \in A : records[m].value # 0
  BY DEF Addresses
<1>5. CASE addr = 0 /\ \A m \in A : m >= j
  <2>1. CASE j \in A
    BY <2>1, <1>1, <1>2, <1>5 DEF AddressFound
  <2>2. CASE j \notin A
    <3>1. \A m \in A : m >= e
      BY <2>2, <1>1, <1>3, <1>5
    <3> QED
      BY <2>2, <3>1, <1>2, <1>5 DEF AddressFound
  <2> QED
    BY <2>1, <2>2
<1>6. ASSUME NEW m \in A, m < j, \A l \in A : m <= l, addr = records[m].value
      PROVE  addr # 0 /\ AddressFound(addr, records, e)
  <2>1. addr # 0
    BY <1>4, <1>6
  <2>2. m < e
    BY <1>1, <1>6
  <2> QED
    BY <2>1, <2>2, <1>6 DEF AddressFound
<1> QED
  BY <1>5, <1>6 DEF AddressFound
-----------------------------------------------------------------------------
(* The MADT is what was copied for it.                                     *)
LEMMA MadtSame ==
    ASSUME fw' = fw, copies'["APIC"] = copies["APIC"]
    PROVE  Madt' = Madt /\ MadtTable' = MadtTable /\ Records' = Records
<1>1. Madt' = Madt
  BY DEF Madt, Whole
<1> QED
  BY <1>1 DEF Records, MadtTable

LEMMA RecordsShort ==
    ASSUME fw \in Firmwares, Madt # {}, \A t \in Madt : t.len < CounterRange
    PROVE  /\ Len(Records) \in Nat /\ Len(Records) < CounterRange
           /\ \A m \in 1 .. Len(Records) :
                Records[m].length \in Nat /\ Records[m].enabled \in BOOLEAN
           /\ Met(Records) \subseteq Nat \ {0}
<1> DEFINE t == MadtTable
<1>1. t \in Madt
  BY DEF MadtTable
<1>2. t.len < CounterRange
  BY <1>1
<1>3. t \in AllTables
  BY <1>1 DEF Madt, Whole, AllTables
<1> HIDE DEF t
<1>4. IsTable(t)
  BY <1>3, FirmwareFacts
<1>5. /\ Len(t.records) \in Nat /\ t.len \in Nat
      /\ Len(t.records) <= t.len - HeaderSize
  BY <1>4, TableFacts
<1>6. CounterRange \in Nat /\ HeaderSize \in Nat
  BY AcpiAssumption
<1>7. Len(t.records) < CounterRange
  BY <1>2, <1>5, <1>6
<1>8. Len(Records) \in Nat /\ Len(Records) < CounterRange
  BY <1>5, <1>7 DEF Records, t
<1>9. /\ t.records \in Seq(ToSet(t.records))
      /\ \A x \in ToSet(t.records) :
           x.length \in 0 .. CounterRange - 1 /\ x.enabled \in BOOLEAN
  BY <1>4 DEF IsTable
<1>10. \A m \in 1 .. Len(t.records) : t.records[m] \in ToSet(t.records)
  BY <1>9
<1>11. \A m \in 1 .. Len(Records) :
         Records[m].length \in Nat /\ Records[m].enabled \in BOOLEAN
  BY <1>9, <1>10 DEF Records, t
<1>12. Met(Records) \subseteq 1 .. Len(Records)
  BY <1>8, <1>11, MetFacts
<1> QED
  BY <1>8, <1>11, <1>12

LEMMA InitParse == Init => ParseInv
<1> SUFFICES ASSUME Init PROVE ParseInv
  OBVIOUS
<1>1. CounterRange \in Nat \ {0}
  BY AcpiAssumption
<1>2. TypeOK
  BY <1>1 DEF Init, TypeOK, Steps, Needed
<1>3. MadtShort /\ Uncounted /\ ParseOK
  BY DEF Init, MadtShort, Uncounted, ParseOK, Parsing
<1> QED
  BY <1>2, <1>3 DEF ParseInv

(* A step of init_acpi that neither copies, accepts nor unmaps a table     *)
LEMMA EarlyParse ==
    ASSUME ParseInv, fw' = fw, want' = want, copies' = copies, madt' = madt,
           pc \notin Parsing, pc' \in (Steps \ Parsing) \ {"unmap", "madt"},
           k' \in Nat \ {0}, b' \in Nat, i' \in 0 .. CounterRange - 1
    PROVE  ParseInv'
<1>1. TypeOK'
  BY DEF ParseInv, TypeOK, madt
<1>2. Madt' = Madt
  BY MadtSame
<1>3. MadtShort'
  BY <1>2 DEF ParseInv, MadtShort, Parsing
<1>4. Uncounted'
  BY DEF ParseInv, Uncounted, madt
<1>5. ParseOK'
  BY DEF ParseOK, Parsing
<1> QED
  BY <1>1, <1>3, <1>4, <1>5 DEF ParseInv

LEMMA ParseCopied ==
    ASSUME ParseInv, Copied
    PROVE  ParseInv'
<1>1. /\ fw' = fw /\ want' = want /\ madt' = madt /\ pc = "copy" /\ pc' = "sum"
      /\ k' = k /\ b' = 0 /\ i' = i
      /\ copies' = [copies EXCEPT ![Sig] = [from |-> from, off |-> Place.off, len |-> n]]
  BY DEF Copied
<1>2. TypeOK'
  BY <1>1 DEF ParseInv, TypeOK, Steps, Seeking, Mapped, Taken, madt
<1>3. ASSUME want > 2 PROVE copies'["APIC"] = copies["APIC"]
  <2>1. want \in {3, 4}
    BY <1>3 DEF ParseInv, TypeOK
  <2>2. Sig # "APIC"
    BY <2>1 DEF Sig, Needed
  <2>3. "APIC" \in DOMAIN copies
    BY DEF ParseInv, TypeOK, Needed, ToSet
  <2> QED
    BY <1>1, <2>2, <2>3
<1>4. MadtShort'
  <2>1. SUFFICES ASSUME want > 2 PROVE \A t \in Madt' : t.len < CounterRange
    BY <1>1 DEF MadtShort, Parsing
  <2>2. Madt' = Madt
    BY <1>1, <1>3, <2>1, MadtSame
  <2> QED
    BY <2>1, <2>2 DEF ParseInv, MadtShort
<1>5. Uncounted' /\ ParseOK'
  BY <1>1 DEF ParseInv, Uncounted, ParseOK, madt, Parsing
<1> QED
  BY <1>2, <1>4, <1>5 DEF ParseInv

LEMMA ParseChecked ==
    ASSUME ParseInv, acpi_sdt_checksum
    PROVE  ParseInv'
<1>1. /\ fw' = fw /\ want' = want /\ madt' = madt /\ pc = "sum"
      /\ k' = k /\ b' = b /\ i' = i /\ copies' = copies
      /\ pc' \in {"unmap", "halted"} /\ (pc' = "unmap" => CopyEnds)
  BY DEF acpi_sdt_checksum, loop, found
<1>2. TypeOK'
  BY <1>1 DEF ParseInv, TypeOK, Steps, Seeking, Mapped, Taken, madt
<1>3. Madt' = Madt
  BY <1>1, MadtSame
<1>4. MadtShort'
  <2>1. CASE want > 2
    BY <2>1, <1>1, <1>3 DEF ParseInv, MadtShort, Parsing
  <2>2. CASE want = 2 /\ pc' = "unmap"
    <3>1. Sig = "APIC"
      BY <2>2 DEF Sig, Needed
    <3> QED
      BY <2>2, <3>1, <1>1, <1>3 DEF MadtShort, Madt, CopyEnds
  <2>3. CASE ~ (want > 2) /\ ~ (want = 2 /\ pc' = "unmap")
    BY <2>3, <1>1 DEF MadtShort, Parsing
  <2> QED
    BY <2>1, <2>2, <2>3
<1>5. Uncounted' /\ ParseOK'
  BY <1>1 DEF ParseInv, Uncounted, ParseOK, madt, Parsing
<1> QED
  BY <1>2, <1>4, <1>5 DEF ParseInv

LEMMA ParseUnmap ==
    ASSUME ParseInv, Unmap
    PROVE  ParseInv'
<1>1. /\ fw' = fw /\ madt' = madt /\ pc = "unmap"
      /\ k' = 1 /\ b' = b /\ i' = i /\ copies' = copies
      /\ IF want < 4 THEN want' = want + 1 /\ pc' = "scan"
         ELSE want' = 2 /\ pc' = "madt"
  BY DEF Unmap, loop, found, Needed
<1>2. want \in 1 .. 4 /\ pc \notin Parsing
  BY <1>1 DEF ParseInv, TypeOK, Parsing
<1>3. TypeOK'
  BY <1>1, <1>2 DEF ParseInv, TypeOK, Steps, Seeking, Parsing, madt
<1>4. Madt' = Madt /\ Records' = Records
  BY <1>1, MadtSame
<1>5. MadtShort'
  <2>1. CASE want = 1
    BY <2>1, <1>1 DEF MadtShort, Parsing
  <2>2. CASE want # 1
    BY <2>2, <1>1, <1>2, <1>4 DEF ParseInv, MadtShort
  <2> QED
    BY <2>1, <2>2
<1>6. num_procs' = 0 /\ num_iso_entries' = 0 /\ ioapic_addr' = 0
  BY <1>1, <1>2 DEF ParseInv, Uncounted, madt
<1>7. Uncounted' /\ ParseOK'
  BY <1>1, <1>6 DEF Uncounted, ParseOK
<1> QED
  BY <1>3, <1>5, <1>7 DEF ParseInv

(* parse_madt begins at the first record.                                  *)
LEMMA ParseBegin ==
    ASSUME ParseInv, parse_madt
    PROVE  ParseInv'
<1>1. /\ fw' = fw /\ want' = want /\ pc = "madt" /\ pc' \in {"astray", "parse"}
      /\ k' = 1 /\ b' = b /\ i' = i /\ copies' = copies
      /\ num_procs' = num_procs /\ lapic_ids' = lapic_ids
      /\ num_iso_entries' = num_iso_entries /\ iso_entries' = iso_entries
      /\ ioapic_addr' = ioapic_addr
      /\ pc' = "parse" => Madt # {} /\ lapic_addr' = MadtTable.lapic_addr
  BY DEF ParseInv, Uncounted, parse_madt, loop, found
<1>2. Madt' = Madt /\ MadtTable' = MadtTable /\ Records' = Records
  BY <1>1, MadtSame
<1>3. pc \notin Parsing /\ pc' \in Parsing
  BY <1>1 DEF Parsing
<1>4. TypeOK'
  BY <1>1, <1>3 DEF ParseInv, TypeOK, Steps
<1>5. \A t \in Madt : t.len < CounterRange
  BY <1>1 DEF ParseInv, MadtShort
<1>6. MadtShort' /\ Uncounted'
  BY <1>1, <1>2, <1>3, <1>5 DEF MadtShort, Uncounted
<1>7. num_procs' = 0 /\ num_iso_entries' = 0 /\ ioapic_addr' = 0
  BY <1>1, <1>3 DEF ParseInv, Uncounted
<1>8. ASSUME pc' = "parse"
      PROVE  /\ Passed(Records, 1)
             /\ Counted(0, lapic_ids, Records, "LAPIC", 1)
             /\ Counted(0, iso_entries, Records, "IOAPIC_ISO", 1)
             /\ AddressFound(0, Records, 1)
  <2>1. /\ Len(Records) \in Nat
        /\ \A m \in 1 .. Len(Records) : Records[m].length \in Nat
        /\ Met(Records) \subseteq Nat \ {0}
    BY <1>1, <1>5, <1>8, RecordsShort DEF ParseInv, TypeOK
  <2>2. Passed(Records, 1)
    BY <2>1, MetFacts DEF Passed, Closed
  <2>3. \A type : /\ Before(Records, type, 1) = {}
                  /\ Cardinality(Before(Records, type, 1)) = 0
    BY <2>1, BeforeCount
  <2>4. AddressFound(0, Records, 1)
    BY <2>1 DEF AddressFound, Addresses
  <2> QED
    BY <2>2, <2>3, <2>4 DEF Counted, Lists
<1>9. ParseOK'
  <2>1. CASE pc' = "astray"
    BY <2>1 DEF ParseOK
  <2>2. CASE pc' = "parse"
    BY <2>2, <1>1, <1>2, <1>7, <1>8 DEF ParseOK
  <2> QED
    BY <2>1, <2>2, <1>1
<1> QED
  BY <1>4, <1>6, <1>9 DEF ParseInv

(* A record of the MADT is passed, and whatever its case of the switch     *)
(* does is done to the counters.                                           *)
LEMMA ParseRecord ==
    ASSUME ParseInv, pc = "parse", k <= Len(Records), Advance,
           lapic_addr' = lapic_addr, fw' = fw, pc' = pc, want' = want, b' = b, i' = i, copies' = copies,
           IF Record.type = "LAPIC"
           THEN /\ lapic_ids' = [lapic_ids EXCEPT ![num_procs] = Record.value]
                /\ num_procs' = (num_procs + 1) % CounterRange
           ELSE lapic_ids' = lapic_ids /\ num_procs' = num_procs,
           IF Record.type = "IOAPIC_ISO"
           THEN /\ iso_entries' = [iso_entries EXCEPT ![num_iso_entries] = Record.value]
                /\ num_iso_entries' = (num_iso_entries + 1) % CounterRange
           ELSE iso_entries' = iso_entries /\ num_iso_entries' = num_iso_entries,
           ioapic_addr' = IF Record.type = "IOAPIC" /\ ioapic_addr = 0
                          THEN Record.value ELSE ioapic_addr
    PROVE  ParseInv'
<1>1. Madt' = Madt /\ MadtTable' = MadtTable /\ Records' = Records
  BY MadtSame
<1>2. pc \in Parsing /\ pc' \in Parsing
  BY DEF Parsing
<1>3. /\ TypeOK /\ \A t \in Madt : t.len < CounterRange
      /\ Madt # {} /\ lapic_addr = MadtTable.lapic_addr
  BY <1>2 DEF ParseInv, MadtShort, ParseOK
<1>4. /\ Len(Records) \in Nat /\ Len(Records) < CounterRange
      /\ \A m \in 1 .. Len(Records) : Records[m].length \in Nat
      /\ Met(Records) \subseteq Nat \ {0}
  BY <1>3, RecordsShort DEF TypeOK
<1>5. CounterRange \in Nat \ {0}
  BY AcpiAssumption
<1> DEFINE e == k + Records[k].length
<1>6. k \in 1 .. Len(Records) /\ Records[k].length \in Nat /\ k' = e
  BY <1>3, <1>4 DEF TypeOK, Advance, Record
<1>7. TypeOK'
  <2>1. /\ num_procs \in Nat /\ num_iso_entries \in Nat
        /\ num_procs \in 0 .. CounterRange - 1
        /\ num_iso_entries \in 0 .. CounterRange - 1
    BY <1>3 DEF TypeOK
  <2>2. \A c \in Nat : (c + 1) % CounterRange \in 0 .. CounterRange - 1
    BY <1>5
  <2>3. /\ num_procs' \in 0 .. CounterRange - 1
        /\ num_iso_entries' \in 0 .. CounterRange - 1
    BY <2>1, <2>2
  <2>4. /\ DOMAIN lapic_ids' = 0 .. CounterRange - 1
        /\ DOMAIN iso_entries' = 0 .. CounterRange - 1
    BY <1>3 DEF TypeOK
  <2>5. k' \in Nat \ {0}
    BY <1>6
  <2> QED
    BY <2>3, <2>4, <2>5, <1>3 DEF TypeOK
<1>8. MadtShort' /\ Uncounted'
  BY <1>1, <1>2, <1>3 DEF MadtShort, Uncounted
<1>9. ParseOK'
  <2>1. CASE Records[k].length = 0
    <3>1. k' = k
      BY <2>1, <1>6
    <3> QED
      BY <2>1, <3>1, <1>1, <1>3, <1>6 DEF ParseOK
  <2>2. CASE Records[k].length # 0
    <3>1. e \in Nat /\ e > k
      BY <2>2, <1>6
    <3>2. /\ Passed(Records, k)
          /\ Counted(num_procs, lapic_ids, Records, "LAPIC", k)
          /\ Counted(num_iso_entries, iso_entries, Records, "IOAPIC_ISO", k)
          /\ AddressFound(ioapic_addr, Records, k)
      BY <2>2 DEF ParseInv, ParseOK
    <3>3. /\ num_procs \in Nat /\ num_iso_entries \in Nat
          /\ DOMAIN lapic_ids = 0 .. CounterRange - 1
          /\ DOMAIN iso_entries = 0 .. CounterRange - 1
      BY <1>3 DEF TypeOK
    <3>4. k < CounterRange
      BY <1>4, <1>5, <1>6
    <3>9. /\ k \in Met(Records) /\ Passed(Records, e)
          /\ \A m \in Met(Records) : m < e => m <= k
      BY <3>2, <2>2, <1>4, <1>6, PassOne
    <3> HIDE DEF e
    <3>5. Counted(num_procs', lapic_ids', Records, "LAPIC", e)
      <4>1. /\ Records[k].type # "LAPIC" =>
                 Counted(num_procs, lapic_ids, Records, "LAPIC", e)
            /\ Records[k].type = "LAPIC" =>
                 /\ (num_procs + 1) % CounterRange = num_procs + 1
                 /\ Counted(num_procs + 1, [lapic_ids EXCEPT ![num_procs] = Records[k].value],
                            Records, "LAPIC", e)
        BY <3>1, <3>2, <3>3, <3>4, <3>9, <1>4, CountOne
      <4>2. CASE Records[k].type = "LAPIC"
        <5>1. /\ lapic_ids' = [lapic_ids EXCEPT ![num_procs] = Records[k].value]
              /\ num_procs' = num_procs + 1
          BY <4>1, <4>2 DEF Record
        <5> QED
          BY <5>1, <4>1, <4>2
      <4>3. CASE Records[k].type # "LAPIC"
        <5>1. lapic_ids' = lapic_ids /\ num_procs' = num_procs
          BY <4>3 DEF Record
        <5> QED
          BY <5>1, <4>1, <4>3
      <4> QED
        BY <4>2, <4>3
    <3>6. Counted(num_iso_entries', iso_entries', Records, "IOAPIC_ISO", e)
      <4>1. /\ Records[k].type # "IOAPIC_ISO" =>
                 Counted(num_iso_entries, iso_entries, Records, "IOAPIC_ISO", e)
            /\ Records[k].type = "IOAPIC_ISO" =>
                 /\ (num_iso_entries + 1) % CounterRange = num_iso_entries + 1
                 /\ Counted(num_iso_entries + 1, [iso_entries EXCEPT ![num_iso_entries] = Records[k].value],
                            Records, "IOAPIC_ISO", e)
        BY <3>1, <3>2, <3>3, <3>4, <3>9, <1>4, CountOne
      <4>2. CASE Records[k].type = "IOAPIC_ISO"
        <5>1. /\ iso_entries' = [iso_entries EXCEPT ![num_iso_entries] = Records[k].value]
              /\ num_iso_entries' = num_iso_entries + 1
          BY <4>1, <4>2 DEF Record
        <5> QED
          BY <5>1, <4>1, <4>2
      <4>3. CASE Records[k].type # "IOAPIC_ISO"
        <5>1. iso_entries' = iso_entries /\ num_iso_entries' = num_iso_entries
          BY <4>3 DEF Record
        <5> QED
          BY <5>1, <4>1, <4>3
      <4> QED
        BY <4>2, <4>3
    <3>7. AddressFound(ioapic_addr', Records, e)
      BY <3>1, <3>2, <3>9, <1>4, AddressOne DEF Record
    <3> QED
      BY <3>5, <3>6, <3>7, <3>9, <1>1, <1>3, <1>6 DEF ParseOK
  <2> QED
    BY <2>1, <2>2
<1> QED
  BY <1>7, <1>8, <1>9 DEF ParseInv

LEMMA ParseFinish ==
    ASSUME ParseInv, RecordsEnd
    PROVE  ParseInv'
<1>1. /\ fw' = fw /\ want' = want /\ madt' = madt /\ pc = "parse" /\ pc' = "done"
      /\ k' = k /\ b' = b /\ i' = i /\ copies' = copies /\ k > Len(Records)
  BY DEF RecordsEnd, loop, found
<1>2. Madt' = Madt /\ MadtTable' = MadtTable /\ Records' = Records
  BY <1>1, MadtSame
<1>3. pc \in Parsing /\ pc' \in Parsing
  BY <1>1 DEF Parsing
<1>4. TypeOK'
  BY <1>1, <1>3 DEF ParseInv, TypeOK, madt, Steps
<1>5. MadtShort' /\ Uncounted'
  BY <1>1, <1>2, <1>3 DEF ParseInv, MadtShort, Uncounted
<1>6. ParseOK'
  <2>1. Madt # {} /\ lapic_addr = MadtTable.lapic_addr
    BY <1>1 DEF ParseInv, ParseOK
  <2>2. Len(Records) \in Nat /\ k \in Nat
    BY <2>1, <1>3, RecordsShort DEF ParseInv, TypeOK, MadtShort
  <2>3. /\ Passed(Records, k)
        /\ Counted(num_procs, lapic_ids, Records, "LAPIC", k)
        /\ Counted(num_iso_entries, iso_entries, Records, "IOAPIC_ISO", k)
        /\ AddressFound(ioapic_addr, Records, k)
    BY <2>2, <1>1 DEF ParseInv, ParseOK
  <2> QED
    BY <2>1, <2>3, <1>1, <1>2 DEF ParseOK, madt
<1> QED
  BY <1>4, <1>5, <1>6 DEF ParseInv

LEMMA ParseStutter ==
    ASSUME ParseInv, UNCHANGED <<fw, pc, want, k, loop, found, madt>>
    PROVE  ParseInv'
<1>1. Madt' = Madt /\ MadtTable' = MadtTable /\ Records' = Records
  BY MadtSame DEF found
<1> QED
  BY <1>1 DEF ParseInv, TypeOK, MadtShort, Uncounted, ParseOK, loop, found, madt

LEMMA NextParse ==
    ASSUME ParseInv, [Next]_vars
    PROVE  ParseInv'
<1>1. CASE Kernel
  <2> USE DEF Steps, Seeking, Mapped, Taken, Parsing, loop, found, ParseInv, TypeOK
  <2>1. CASE Candidate
    BY <2>1, EarlyParse DEF Candidate
  <2>2. CASE find_rsdp
    BY <2>2, EarlyParse DEF find_rsdp
  <2>3. CASE Map
    BY <2>3, EarlyParse DEF Map
  <2>4. CASE NotFound
    BY <2>4, EarlyParse DEF NotFound
  <2>5. CASE find_table
    BY <2>5, EarlyParse DEF find_table
  <2>6. CASE Skip
    BY <2>6, EarlyParse DEF Skip
  <2>7. CASE Allocate
    BY <2>7, EarlyParse DEF Allocate
  <2>8. CASE StartCopy
    <3>1. 0 \in 0 .. CounterRange - 1
      BY AcpiAssumption
    <3> QED
      BY <2>8, <3>1, EarlyParse DEF StartCopy
  <2>9. CASE CopyByte
    BY <2>9, EarlyParse DEF CopyByte
  <2>10. CASE SumByte
    <3>1. (i + 1) % CounterRange \in 0 .. CounterRange - 1
      BY AcpiAssumption
    <3> QED
      BY <2>10, <3>1, EarlyParse DEF SumByte
  <2>11. CASE Fault
    BY <2>11, EarlyParse DEF Fault
  <2>12. CASE Copied
    BY <2>12, ParseCopied
  <2>13. CASE acpi_sdt_checksum
    BY <2>13, ParseChecked
  <2>14. CASE Unmap
    BY <2>14, ParseUnmap
  <2>15. CASE Lapic
    BY <2>15, ParseRecord DEF Lapic, At
  <2>16. CASE Ioapic
    BY <2>16, ParseRecord DEF Ioapic, At
  <2>17. CASE IoapicIso
    BY <2>17, ParseRecord DEF IoapicIso, At
  <2>18. CASE PrintOnly
    BY <2>18, ParseRecord DEF PrintOnly, At, Printed, madt
  <2>19. CASE Unknown
    BY <2>19, ParseStutter DEF Unknown, vars
  <2>20. CASE parse_madt
    BY <2>20, ParseBegin
  <2>21. CASE RecordsEnd
    BY <2>21, ParseFinish
  <2> QED
    BY <1>1, <2>1, <2>2, <2>3, <2>4, <2>5, <2>6, <2>7, <2>8, <2>9, <2>10,
       <2>11, <2>12, <2>13, <2>14, <2>15, <2>16, <2>17, <2>18, <2>19, <2>20, <2>21
       DEF Kernel
<1>2. CASE Evict
  BY <1>2, ParseStutter DEF Evict
<1>3. CASE Over \/ UNCHANGED vars
  BY <1>3, ParseStutter DEF Over, vars
<1> QED
  BY <1>1, <1>2, <1>3 DEF Next

LEMMA ParseInvariant == Spec => []ParseInv
BY InitParse, NextParse, PTL DEF Spec

(* When parse_madt is through, the counters and arrays it leaves are those *)
(* of the whole MADT it was given: no count has wrapped, no entry is lost. *)
THEOREM MadtAlwaysRight == Spec => []MadtRight
<1>1. ParseInv => MadtRight
  <2> SUFFICES ASSUME ParseInv, pc = "done" PROVE MadtRight
    BY DEF MadtRight
  <2>1. /\ Madt # {} /\ lapic_addr = MadtTable.lapic_addr
        /\ k > Len(Records)
        /\ Counted(num_procs, lapic_ids, Records, "LAPIC", k)
        /\ Counted(num_iso_entries, iso_entries, Records, "IOAPIC_ISO", k)
        /\ AddressFound(ioapic_addr, Records, k)
    BY DEF ParseInv, ParseOK
  <2>2. /\ Len(Records) \in Nat /\ k \in Nat
        /\ \A m \in 1 .. Len(Records) :
             Records[m].length \in Nat /\ Records[m].enabled \in BOOLEAN
    BY <2>1, RecordsShort DEF ParseInv, TypeOK, MadtShort, Parsing
  <2>3. Met(Records) \subseteq 1 .. Len(Records)
    BY <2>2, MetFacts
  <2>4. \A type : Before(Records, type, k) = Before(Records, type, Len(Records) + 1)
    BY <2>1, <2>2, <2>3 DEF Before
  <2>5. Addresses(Records) \subseteq 1 .. Len(Records)
    BY <2>3 DEF Addresses
  <2>6. ioapic_addr = IF Addresses(Records) = {} THEN 0
                      ELSE Records[Min(Addresses(Records))].value
    <3>1. CASE ioapic_addr = 0 /\ \A m \in Addresses(Records) : m >= k
      <4>1. Addresses(Records) = {}
        BY <3>1, <2>1, <2>2, <2>5
      <4> QED
        BY <3>1, <4>1
    <3>2. ASSUME NEW m \in Addresses(Records), \A l \in Addresses(Records) : m <= l
          PROVE  Min(Addresses(Records)) = m
      <4>1. \A l \in Addresses(Records) : l \in Nat
        BY <2>5
      <4>2. \A y \in Addresses(Records) :
              (\A x \in Addresses(Records) : y <= x) => y = m
        BY <3>2, <4>1
      <4> QED
        BY <3>2, <4>1, <4>2 DEF Min
    <3> QED
      BY <3>1, <3>2, <2>1 DEF AddressFound
  <2>7. /\ Lists(num_procs, lapic_ids, Records, "LAPIC", Len(Records) + 1)
        /\ Lists(num_iso_entries, iso_entries, Records, "IOAPIC_ISO", Len(Records) + 1)
    BY <2>1, <2>4 DEF Counted, Lists
  <2>8. num_procs = Cardinality(Processors(Records, TRUE)) <=>
          Processors(Records, FALSE) = {}
    <3> DEFINE A == Before(Records, "LAPIC", Len(Records) + 1)
               B == Processors(Records, TRUE)
    <3>1. num_procs = Cardinality(A)
      BY <2>7 DEF Lists
    <3>2. A \subseteq 1 .. Len(Records) /\ B \subseteq A
      BY <2>2, <2>3 DEF Before, Processors
    <3>3. \A m \in A : Records[m].enabled \in BOOLEAN
      BY <2>2, <3>2
    <3>4. Processors(Records, FALSE) = {} <=> A = B
      BY <3>2, <3>3, <2>2, <2>3 DEF Before, Processors
    <3>5. IsFiniteSet(A)
      <4>1. IsFiniteSet(1 .. Len(Records))
        BY <2>2, FS_Interval
      <4> QED
        BY <3>2, <4>1, FS_Subset
    <3>6. Cardinality(A) = Cardinality(B) => A = B
      BY <3>2, <3>5, FS_Subset
    <3> QED
      BY <3>1, <3>4, <3>6
  <2> QED
    BY <2>1, <2>6, <2>7, <2>8 DEF MadtRight
<1> QED
  BY <1>1, ParseInvariant, PTL
-----------------------------------------------------------------------------
(* What depends on the machine alone                                       *)
LEMMA SameTables ==
    ASSUME fw' = fw
    PROVE  /\ AllTables' = AllTables /\ Windowed' = Windowed
           /\ OneWindowFrame' <=> OneWindowFrame
           /\ NoneStraddles' <=> NoneStraddles
<1>1. AllTables' = AllTables
  BY DEF AllTables
<1> QED
  BY <1>1 DEF Windowed, OneWindowFrame, NoneStraddles

LEMMA SameHere ==
    ASSUME fw' = fw, want' = want, k' = k
    PROVE  Here' = Here /\ Sig' = Sig
BY DEF Here, Sig

(* find_table tries the tables of the RSDT, all of them and in order.      *)
LEMMA PlacesAre ==
    ASSUME TypeOK, RsdtOK
    PROVE  /\ want = 1 => Len(Places) = 1 /\ Places[1] = fw.rsdt
           /\ want > 1 => /\ Len(Places) = Len(fw.tables)
                          /\ \A j \in 1 .. Len(fw.tables) : Places[j] = fw.tables[j]
<1>1. CASE want = 1
  <2>1. Sig = "RSDT"
    BY <1>1 DEF Sig, Needed
  <2> QED
    BY <1>1, <2>1 DEF Places
<1>2. CASE want > 1
  <2>1. want \in {2, 3, 4}
    BY <1>2 DEF TypeOK
  <2>2. Sig # "RSDT"
    BY <2>1 DEF Sig, Needed
  <2>3. /\ Len(fw.tables) \in Nat /\ fw.tables \in Seq(ToSet(fw.tables))
        /\ fw.rsdt.len = HeaderSize + PtrSize * Len(fw.tables)
    BY AcpiAssumption, FirmwareFacts DEF TypeOK, FirmwareType
  <2>4. copies["RSDT"].len - HeaderSize = PtrSize * Len(fw.tables)
    <3>1. PtrSize * Len(fw.tables) \in Nat /\ HeaderSize \in Nat
      BY <2>3, AcpiAssumption
    <3> QED
      BY <1>2, <2>3, <3>1 DEF RsdtOK
  <2>5. entries = Len(fw.tables)
    BY <2>3, <2>4, AcpiAssumption, DivExact DEF entries
  <2>6. Places = SubSeq(fw.tables, 1, Len(fw.tables))
    BY <2>2, <2>5 DEF Places
  <2> QED
    BY <1>2, <2>3, <2>6
<1> QED
  BY <1>1, <1>2 DEF TypeOK

LEMMA PlaceIsHere ==
    ASSUME TypeOK, RsdtOK, AtOK, pc \in Mapped
    PROVE  Place = Here /\ Here \in AllTables /\ IsTable(Here)
<1>1. want = 1 \/ want > 1
  BY DEF TypeOK
<1>2. CASE want = 1
  <2>1. k = 1
    BY <1>2 DEF AtOK, Seeking
  <2> QED
    BY <1>2, <2>1, PlacesAre, FirmwareFacts DEF Place, Here, TypeOK
<1>3. CASE want > 1
  <2>1. k \in 1 .. Len(fw.tables)
    BY <1>3, FirmwareFacts DEF AtOK, TypeOK
  <2> QED
    BY <1>3, <2>1, PlacesAre, FirmwareFacts DEF Place, Here, TypeOK
<1> QED
  BY <1>1, <1>2, <1>3

(* What lies where the table in hand begins                                *)
LEMMA FoundThere ==
    ASSUME TypeOK, RsdtOK, AtOK, pc \in Mapped
    PROVE  /\ SignatureAt(Here.frame) = {Here.sig}
           /\ LengthAt(Here.frame) = {Here.len}
<1>1. Place = Here /\ Here \in AllTables
  BY PlaceIsHere
<1>2. There(Here.frame, Here.off) = {Here}
  BY <1>1, FirmwareFacts DEF There, AllTables, TypeOK
<1> QED
  BY <1>1, <1>2 DEF SignatureAt, LengthAt

(* The frames that the bytes of the table in hand are read from            *)
LEMMA BytesFrom ==
    ASSUME TypeOK, RsdtOK, AtOK, TlbOK, WindowOK, OneWindowFrame, pc \in Mapped,
           NEW j \in Nat, FrameOf(j) # 0,
           j = 0 \/ (NoneStraddles /\ j < Here.len)
    PROVE  FrameOf(j) = Here.frame + (Here.off + j) \div PageSize
<1> DEFINE q == (Here.off + j) \div PageSize
           page == PageOf(j)
<1>1. Place = Here /\ Here \in AllTables /\ IsTable(Here)
  BY PlaceIsHere
<1>2. /\ Here.frame \in Nat \ {0} /\ Here.off \in 0 .. PageSize - 1
      /\ Here.len \in Nat \ {0}
  BY <1>1, TableFacts
<1>3. LowFrames \in Nat /\ NSlots \in Nat \ {0} /\ PageSize \in Nat \ {0}
  BY AcpiAssumption
<1>4. q \in Nat /\ (j = 0 => q = 0)
  <2>1. Here.off + j \in Nat
    BY <1>2
  <2>2. q \in Nat
    BY <1>3, <2>1, DivMod
  <2>3. ASSUME j = 0 PROVE q < 1
    <3>1. Here.off + j < 1 * PageSize
      BY <1>2, <1>3, <2>3
    <3> QED
      BY <1>3, <2>1, <3>1, DivBelow
  <2> QED
    BY <2>2, <2>3
<1>5. page = held["acpi"].page + q
  BY <1>1 DEF PageOf
<1>6. page # V!ApicPage => page \in V!Pages /\ FrameOf(j) = V!Translate(page)
  BY DEF FrameOf
<1> HIDE DEF q, page
<1>7. CASE Here.frame <= LowFrames
  <2>1. page = Here.frame + q
    BY <1>5, <1>7 DEF WindowOK
  <2>2. page <= LowFrames
    <3>1. CASE j = 0
      BY <3>1, <1>2, <1>4, <1>7, <2>1
    <3>2. CASE NoneStraddles /\ j < Here.len
      <4>1. q <= (Here.off + Here.len - 1) \div PageSize
        <5>1. /\ Here.off + j \in Nat /\ Here.off + Here.len - 1 \in Nat
              /\ Here.off + j <= Here.off + Here.len - 1
          BY <1>2, <3>2
        <5> QED
          BY <5>1, <1>3, DivMonotone DEF q
      <4>2. (Here.off + Here.len - 1) \div PageSize \in Nat
        <5>1. Here.off + Here.len - 1 \in Nat
          BY <1>2
        <5> QED
          BY <5>1, <1>3, DivMod
      <4>3. page \in Frames(Here)
        BY <2>1, <4>1, <4>2, <1>2, <1>4 DEF Frames
      <4>4. Frames(Here) \subseteq 1 .. LowFrames
        BY <3>2, <1>1, <1>7 DEF NoneStraddles
      <4> QED
        BY <4>3, <4>4
    <3> QED
      BY <3>1, <3>2
  <2>3. page # V!ApicPage
    BY <2>2, <1>3 DEF V!ApicPage
  <2>4. pte[page] \in {0, page} /\ tlb[page] \in {0, page}
    BY <1>6, <2>2, <2>3 DEF TlbOK
  <2> QED
    BY <1>6, <2>1, <2>3, <2>4 DEF V!Translate, q
<1>8. CASE ~ (Here.frame <= LowFrames)
  <2>1. page = Slot + q
    BY <1>5, <1>8 DEF WindowOK
  <2>2. page \in Nat /\ page >= Slot /\ Slot = LowFrames + 2 /\ page # V!ApicPage
    BY <2>1, <1>3, <1>4 DEF Slot, V!ApicPage
  <2>9. page \in V!Pages /\ FrameOf(j) = V!Translate(page)
    BY <2>2, <1>6
  <2>3. page = Slot
    <3>1. ASSUME page # Slot PROVE FALSE
      <4>1. ~ (page <= LowFrames)
        BY <2>2, <1>3
      <4>2. pte[page] = 0 /\ tlb[page] = 0
        BY <3>1, <4>1, <2>9 DEF TlbOK
      <4> QED
        BY <4>2, <2>9 DEF V!Translate
    <3> QED
      BY <3>1
  <2>4. pte[page] \in {0} \cup Windowed /\ tlb[page] \in {0} \cup Windowed
    <3>1. ~ (page <= LowFrames)
      BY <2>2, <1>3
    <3> QED
      BY <2>3, <3>1, <2>9 DEF TlbOK
  <2>5. FrameOf(j) \in Windowed
    BY <2>4, <2>9 DEF V!Translate
  <2>6. Here.frame > LowFrames
    BY <1>2, <1>3, <1>8
  <2>7. \A f \in Windowed : f = Here.frame
    BY <1>1, <2>6 DEF Windowed, OneWindowFrame
  <2>8. q = 0
    BY <2>1, <2>2, <2>3, <1>4
  <2> QED
    BY <2>5, <2>7, <2>8, <1>2 DEF q
<1> QED
  BY <1>7, <1>8

LEMMA FirstByte ==
    ASSUME TypeOK, RsdtOK, AtOK, TlbOK, WindowOK, OneWindowFrame, pc \in Mapped,
           Read({0})
    PROVE  FrameOf(0) = Here.frame
<1> DEFINE q == (Here.off + 0) \div PageSize
<1>1. FrameOf(0) # 0
  BY DEF Read
<1>2. FrameOf(0) = Here.frame + q
  BY <1>1, BytesFrom
<1>3. Here.frame \in Nat /\ Here.off \in 0 .. PageSize - 1 /\ PageSize \in Nat \ {0}
  BY PlaceIsHere, TableFacts, AcpiAssumption
<1>4. q = 0
  <2>1. Here.off + 0 \in Nat /\ Here.off + 0 < 1 * PageSize
    BY <1>3
  <2>2. q < 1 /\ q \in Nat
    BY <1>3, <2>1, DivBelow, DivMod
  <2> QED
    BY <2>2
<1> HIDE DEF q
<1> QED
  BY <1>2, <1>3, <1>4

(* An access caches what it was translated to.                             *)
LEMMA AccessKeeps ==
    ASSUME TlbOK, fw' = fw, NEW bytes, Read(bytes)
    PROVE  TlbOK' /\ UNCHANGED <<pte, held>>
<1>1. /\ UNCHANGED <<pte, held>>
      /\ \E set : tlb' = [v \in V!Pages |-> IF v \in set THEN V!Translate(v) ELSE tlb[v]]
  BY DEF Read, V!Access
<1>2. PICK set : tlb' = [v \in V!Pages |-> IF v \in set THEN V!Translate(v) ELSE tlb[v]]
  BY <1>1
<1>3. \A v \in V!Pages : tlb'[v] \in {tlb[v], pte[v]}
  BY <1>2 DEF V!Translate
<1>4. DOMAIN tlb' = V!Pages
  BY <1>2
<1>5. Windowed' = Windowed
  BY SameTables
<1>6. ASSUME NEW v \in V!Pages
      PROVE  IF v <= LowFrames THEN pte'[v] \in {0, v} /\ tlb'[v] \in {0, v}
             ELSE IF v = Slot
             THEN pte'[v] \in {0} \cup Windowed' /\ tlb'[v] \in {0} \cup Windowed'
             ELSE pte'[v] = 0 /\ tlb'[v] = 0
  BY <1>1, <1>3, <1>5 DEF TlbOK
<1> QED
  BY <1>1, <1>4, <1>6 DEF TlbOK

LEMMA EvictKeeps ==
    ASSUME TlbOK, fw' = fw, NEW u \in V!Pages, V!Evict(u)
    PROVE  TlbOK' /\ UNCHANGED <<pte, held>>
<1>1. UNCHANGED <<pte, held>> /\ tlb' = [tlb EXCEPT ![u] = 0]
  BY DEF V!Evict
<1>2. DOMAIN tlb' = V!Pages /\ \A v \in V!Pages : tlb'[v] \in {tlb[v], 0}
  BY <1>1 DEF TlbOK
<1>3. Windowed' = Windowed
  BY SameTables
<1>4. ASSUME NEW v \in V!Pages
      PROVE  IF v <= LowFrames THEN pte'[v] \in {0, v} /\ tlb'[v] \in {0, v}
             ELSE IF v = Slot
             THEN pte'[v] \in {0} \cup Windowed' /\ tlb'[v] \in {0} \cup Windowed'
             ELSE pte'[v] = 0 /\ tlb'[v] = 0
  BY <1>1, <1>2, <1>3 DEF TlbOK
<1> QED
  BY <1>1, <1>2, <1>4 DEF TlbOK

(* One more byte of a table lies in the frame of the last or in the next.  *)
LEMMA SpanNext ==
    ASSUME NEW t, IsTable(t), NEW c \in Nat
    PROVE  Span(t, c + 1) = Span(t, c) \cup {t.frame + (t.off + c) \div PageSize}
<1> DEFINE p == (t.off + c - 1) \div PageSize
           q == (t.off + c) \div PageSize
<1>1. t.frame \in Nat /\ t.off \in Nat /\ t.off < PageSize /\ PageSize \in Nat \ {0}
  BY TableFacts, AcpiAssumption
<1>2. t.off + (c + 1) - 1 = t.off + c
  BY <1>1
<1>3. Span(t, c + 1) = t.frame .. t.frame + q
  BY <1>2 DEF Span
<1>4. q \in Nat
  <2>1. t.off + c \in Nat
    BY <1>1
  <2> QED
    BY <2>1, <1>1, DivMod
<1>5. CASE c = 0
  <2>1. t.off + c \in Nat /\ t.off + c < 1 * PageSize
    BY <1>1, <1>5
  <2>2. q < 1
    BY <2>1, <1>1, DivBelow
  <2> HIDE DEF q
  <2>3. q = 0
    BY <2>2, <1>4
  <2>4. Span(t, c + 1) = {t.frame + q}
    BY <1>1, <1>3, <2>3
  <2> QED
    BY <1>5, <2>4 DEF Span, q
<1>6. CASE c # 0
  <2>1. t.off + c - 1 \in Nat /\ (t.off + c - 1) + 1 = t.off + c
    BY <1>1, <1>6
  <2>2. p \in Nat /\ q \in {p, p + 1}
    BY <2>1, <1>1, DivMod, DivNext
  <2>3. Span(t, c) = t.frame .. t.frame + p
    BY <1>6 DEF Span
  <2> HIDE DEF p, q
  <2>4. t.frame .. t.frame + q = (t.frame .. t.frame + p) \cup {t.frame + q}
    BY <1>1, <2>2
  <2> QED
    BY <1>3, <2>3, <2>4 DEF q
<1> QED
  BY <1>5, <1>6

LEMMA WholeSpan ==
    ASSUME NEW t, IsTable(t)
    PROVE  Span(t, t.len) = Frames(t)
<1>1. t.len # 0
  BY TableFacts
<1> QED
  BY <1>1 DEF Span, Frames

(* The tables copied so far, as long as nothing is copied                  *)
LEMMA GoodSame ==
    ASSUME TypeOK, GoodOK, fw' = fw, copies' = copies,
           want' = want \/ pc \in Through,
           pc' \in Through => pc \in Through, want' \in 1 .. 4
    PROVE  GoodOK'
<1>1. NoneStraddles' <=> NoneStraddles
  BY SameTables
<1>2. \A sig : CopyGood(sig) => CopyGood(sig)'
  BY DEF CopyGood, IsFirst, CopyOf
<1> QED
  BY <1>1, <1>2 DEF GoodOK, TypeOK
-----------------------------------------------------------------------------
LEMMA InitCopy == Init => CopyInv
<1> SUFFICES ASSUME Init PROVE CopyParts
  BY DEF CopyInv
<1>1. LowFrames \in Nat /\ NSlots \in Nat \ {0}
  BY AcpiAssumption
<1>2. /\ pte = [v \in V!Pages |-> IF v \in V!Low THEN v ELSE 0]
      /\ tlb = [v \in V!Pages |-> 0]
      /\ DOMAIN held = {"acpi"}
  BY DEF Init, V!Init
<1>3. \A v \in V!Pages : v \in V!Low <=> v <= LowFrames
  BY <1>1 DEF V!Pages, V!Low, V!Slots, V!ApicPage
<1>4. TlbOK
  BY <1>2, <1>3 DEF TlbOK
<1>5. Slot \in V!Pages /\ ~ (Slot <= LowFrames)
  BY <1>1 DEF Slot, V!Pages, V!Slots, V!ApicPage
<1>6. pte[Slot] = 0
  BY <1>2, <1>3, <1>5
<1>7. AtOK /\ WindowOK /\ RsdtOK /\ LoopOK /\ GoodOK
  BY <1>6 DEF Init, AtOK, WindowOK, RsdtOK, LoopOK, GoodOK, Seeking, Mapped, Taken, Through
<1> QED
  BY <1>4, <1>7 DEF CopyParts

(* The search for the RSDP goes on or ends.                                *)
LEMMA CopyRsdp ==
    ASSUME TypeOK, CopyParts, pc = "rsdp",
           \/ pc' = "rsdp"
           \/ pc' = "scan" /\ k' = 1,
           UNCHANGED <<fw, want, loop, copies, window>>
    PROVE  CopyParts'
<1>1. TlbOK'
  BY SameTables DEF CopyParts, TlbOK, window
<1>2. AtOK'
  <2>1. pc' = "scan" => 1 .. k' - 1 = {}
    OBVIOUS
  <2>2. pc' = "scan" => k' <= Len(fw.tables) + 1
    BY FirmwareFacts DEF TypeOK
  <2> QED
    BY <2>1, <2>2 DEF AtOK, Seeking, Mapped, Taken
<1>3. WindowOK'
  BY DEF CopyParts, WindowOK, window, Mapped, Taken
<1>4. RsdtOK'
  BY DEF CopyParts, RsdtOK, Through
<1>5. LoopOK'
  BY DEF LoopOK
<1>6. GoodOK'
  BY GoodSame DEF CopyParts, TypeOK, Through
<1> QED
  BY <1>1, <1>2, <1>3, <1>4, <1>5, <1>6 DEF CopyParts

(* init_acpi stops.                                                        *)
LEMMA CopyHalts ==
    ASSUME TypeOK, CopyParts, TlbOK', pc' = "halted",
           UNCHANGED <<fw, want, k, copies>>
    PROVE  CopyParts'
<1>1. AtOK' /\ WindowOK' /\ LoopOK'
  BY DEF AtOK, WindowOK, LoopOK, Seeking, Mapped, Taken
<1>2. RsdtOK'
  BY DEF CopyParts, RsdtOK, Through
<1>3. GoodOK'
  BY GoodSame DEF CopyParts, TypeOK, Through
<1> QED
  BY <1>1, <1>2, <1>3 DEF CopyParts

LEMMA CopyMap ==
    ASSUME TypeOK, CopyParts, Map
    PROVE  CopyParts'
<1>1. /\ pc = "scan" /\ k <= Len(Places)
      /\ V!Kmap("acpi", Place.frame)
      /\ pc' = IF Sig = "RSDT" THEN "allocate" ELSE "match"
      /\ UNCHANGED <<fw, want, k, copies>>
  BY DEF Map, kmap, found
<1>2. Here' = Here /\ Sig' = Sig
  BY <1>1, SameHere
<1>3. want \in 1 .. 4 /\ (want = 1 <=> Sig = "RSDT") /\ k \in Nat \ {0}
  BY DEF TypeOK, Sig, Needed
<1>4. LowFrames \in Nat /\ NSlots \in Nat \ {0}
  BY AcpiAssumption
<1>5. /\ want = 1 => k = 1
      /\ want > 1 => k <= Len(fw.tables)
      /\ Place = Here
  <2>1. CASE want = 1
    BY <2>1, <1>1, PlacesAre DEF CopyParts, AtOK, Seeking, Place, Here
  <2>2. CASE want # 1
    <3>1. want > 1
      BY <2>2, <1>3
    <3>2. k <= Len(fw.tables)
      BY <3>1, <1>1, PlacesAre DEF CopyParts
    <3>3. k \in 1 .. Len(fw.tables)
      BY <3>2, <1>3, FirmwareFacts DEF TypeOK
    <3> QED
      BY <3>1, <3>2, <3>3, <2>2, PlacesAre DEF CopyParts, Place, Here
  <2> QED
    BY <2>1, <2>2
<1>6. Here \in AllTables /\ Here.frame \in Nat \ {0}
  <2>1. Here \in AllTables
    BY <1>3, <1>5, FirmwareFacts DEF Here, TypeOK
  <2> QED
    BY <2>1, FirmwareFacts, TableFacts DEF TypeOK
<1>7. pte[Slot] = 0 /\ Slot \in V!Pages /\ Slot \in V!Slots
      /\ \A v \in V!Slots : v >= Slot
  BY <1>1, <1>4 DEF CopyParts, WindowOK, Slot, V!Pages, V!Slots, V!ApicPage
<1>8. Windowed' = Windowed
  BY <1>1, SameTables
<1>9. /\ TlbOK'
      /\ IF Here.frame <= LowFrames
         THEN held'["acpi"].page = Here.frame /\ pte'[Slot] = 0
         ELSE held'["acpi"].page = Slot
  <2>1. CASE Here.frame \in V!Low
    <3>1. UNCHANGED <<pte, tlb>>
          /\ held' = [held EXCEPT !["acpi"] = [page |-> Here.frame, frame |-> Here.frame]]
      BY <2>1, <1>1, <1>5 DEF V!Kmap
    <3>2. Here.frame <= LowFrames
      BY <2>1, <1>4 DEF V!Low
    <3>3. TlbOK'
      BY <3>1, <1>8 DEF CopyParts, TlbOK
    <3> QED
      BY <3>1, <3>2, <3>3, <1>7 DEF CopyParts, TlbOK
  <2>2. CASE Here.frame \notin V!Low
    <3>1. PICK v \in V!Slots :
            /\ V!FirstFree(v)
            /\ pte' = [pte EXCEPT ![v] = Here.frame]
            /\ held' = [held EXCEPT !["acpi"] = [page |-> v, frame |-> Here.frame]]
            /\ tlb' = tlb
      BY <2>2, <1>1, <1>5 DEF V!Kmap
    <3>2. v = Slot
      <4>1. ~ (Slot < v)
        BY <3>1, <1>7 DEF V!FirstFree
      <4>2. v \in Nat /\ Slot \in Nat
        BY <1>4 DEF V!Slots, Slot, V!ApicPage
      <4> QED
        BY <4>1, <4>2, <1>7
    <3>3. ~ (Here.frame <= LowFrames)
      BY <2>2, <1>4, <1>6 DEF V!Low
    <3>4. Here.frame \in Windowed
      <4>1. Here.frame > LowFrames
        BY <3>3, <1>4, <1>6
      <4> QED
        BY <4>1, <1>6 DEF Windowed
    <3>5. ~ (Slot <= LowFrames)
      BY <1>4 DEF Slot, V!ApicPage
    <3>6. /\ DOMAIN pte' = V!Pages
          /\ \A u \in V!Pages : pte'[u] = IF u = Slot THEN Here.frame ELSE pte[u]
      BY <3>1, <3>2, <1>7 DEF CopyParts, TlbOK
    <3>7. TlbOK'
      <4>1. DOMAIN tlb' = V!Pages /\ DOMAIN held' = {"acpi"}
        BY <3>1 DEF CopyParts, TlbOK
      <4>2. ASSUME NEW u \in V!Pages
            PROVE  IF u <= LowFrames THEN pte'[u] \in {0, u} /\ tlb'[u] \in {0, u}
                   ELSE IF u = Slot
                   THEN pte'[u] \in {0} \cup Windowed' /\ tlb'[u] \in {0} \cup Windowed'
                   ELSE pte'[u] = 0 /\ tlb'[u] = 0
        BY <3>1, <3>4, <3>5, <3>6, <1>8 DEF CopyParts, TlbOK
      <4> QED
        BY <3>6, <4>1, <4>2 DEF TlbOK
    <3> QED
      BY <3>1, <3>2, <3>3, <3>7 DEF CopyParts, TlbOK
  <2> QED
    BY <2>1, <2>2
<1>10. WindowOK'
  BY <1>1, <1>2, <1>9 DEF WindowOK
<1>11. AtOK'
  BY <1>1, <1>2, <1>3, <1>5 DEF CopyParts, AtOK, Seeking, Mapped, Taken
<1>12. RsdtOK' /\ LoopOK'
  BY <1>1 DEF CopyParts, RsdtOK, LoopOK, Through
<1>13. GoodOK'
  BY <1>1, GoodSame DEF CopyParts, TypeOK, Through
<1> QED
  BY <1>9, <1>10, <1>11, <1>12, <1>13 DEF CopyParts

(* A byte of the table in hand is read, and the search stays where it is.  *)
LEMMA CopyReads ==
    ASSUME TypeOK, CopyParts, pc \in Mapped, NEW bytes, Read(bytes),
           UNCHANGED <<fw, want, k>>
    PROVE  /\ TlbOK' /\ Here' = Here /\ Sig' = Sig
           /\ pc' \in Mapped => WindowOK'
           /\ NoneStraddles' <=> NoneStraddles
<1>1. TlbOK' /\ UNCHANGED <<pte, held>>
  BY AccessKeeps DEF CopyParts
<1>2. Here' = Here /\ Sig' = Sig
  BY SameHere
<1>3. pc' \in Mapped => WindowOK'
  BY <1>1, <1>2 DEF CopyParts, WindowOK, Mapped, Taken
<1> QED
  BY <1>1, <1>2, <1>3, SameTables

LEMMA CopyMatch ==
    ASSUME TypeOK, CopyParts, OneWindowFrame, find_table
    PROVE  CopyParts'
<1>1. /\ pc = "match" /\ Read({0})
      /\ pc' = IF Sig \in SignatureAt(FrameOf(0)) THEN "allocate" ELSE "skip"
      /\ UNCHANGED <<fw, want, k, copies>>
  BY DEF find_table, found
<1>2. pc \in Mapped /\ pc' \in Mapped
  BY <1>1 DEF Mapped, Taken
<1>3. /\ TlbOK' /\ Here' = Here /\ Sig' = Sig /\ WindowOK'
  BY <1>1, <1>2, CopyReads
<1>4. pc' = IF Sig = Here.sig THEN "allocate" ELSE "skip"
  BY <1>1, <1>2, FirstByte, FoundThere DEF CopyParts
<1>5. AtOK'
  BY <1>1, <1>3, <1>4 DEF CopyParts, AtOK, Seeking, Mapped, Taken
<1>6. RsdtOK' /\ LoopOK'
  BY <1>1 DEF CopyParts, RsdtOK, LoopOK, Through
<1>7. GoodOK'
  BY <1>1, GoodSame DEF CopyParts, TypeOK, Through
<1> QED
  BY <1>3, <1>5, <1>6, <1>7 DEF CopyParts

(* kunmap leaves the window empty.                                         *)
LEMMA UnmapKeeps ==
    ASSUME TypeOK, CopyParts, pc \in Mapped, fw' = fw, kunmap
    PROVE  TlbOK' /\ pte'[Slot] = 0
<1>1. /\ pte' = [pte EXCEPT ![held["acpi"].page] = 0]
      /\ held' = [held EXCEPT !["acpi"] = V!Nothing]
      /\ tlb' = tlb
  BY DEF kunmap, V!Kunmap
<1>2. LowFrames \in Nat /\ NSlots \in Nat \ {0}
  BY AcpiAssumption
<1>3. Slot \in V!Pages
  BY <1>2 DEF Slot, V!Pages, V!Slots, V!ApicPage
<1>4. /\ DOMAIN pte' = V!Pages
      /\ \A v \in V!Pages : pte'[v] \in {0, pte[v]}
      /\ pte'[held["acpi"].page] = 0 \/ held["acpi"].page \notin V!Pages
  BY <1>1 DEF CopyParts, TlbOK
<1>5. Windowed' = Windowed
  BY SameTables
<1>6. TlbOK'
  <2>1. ASSUME NEW v \in V!Pages
        PROVE  IF v <= LowFrames THEN pte'[v] \in {0, v} /\ tlb'[v] \in {0, v}
               ELSE IF v = Slot
               THEN pte'[v] \in {0} \cup Windowed' /\ tlb'[v] \in {0} \cup Windowed'
               ELSE pte'[v] = 0 /\ tlb'[v] = 0
    BY <1>1, <1>4, <1>5 DEF CopyParts, TlbOK
  <2>2. DOMAIN tlb' = V!Pages /\ DOMAIN held' = {"acpi"}
    BY <1>1 DEF CopyParts, TlbOK
  <2> QED
    BY <1>4, <2>1, <2>2 DEF TlbOK
<1>7. pte'[Slot] = 0
  <2>1. CASE Here.frame <= LowFrames
    BY <2>1, <1>3, <1>4 DEF CopyParts, WindowOK
  <2>2. CASE ~ (Here.frame <= LowFrames)
    BY <2>2, <1>3, <1>4 DEF CopyParts, WindowOK
  <2> QED
    BY <2>1, <2>2
<1> QED
  BY <1>6, <1>7

LEMMA CopySkip ==
    ASSUME TypeOK, CopyParts, Skip
    PROVE  CopyParts'
<1>1. /\ pc = "skip" /\ kunmap /\ pc' = "scan" /\ k' = k + 1
      /\ UNCHANGED <<fw, want, copies>>
  BY DEF Skip, found
<1>2. pc \in Mapped /\ pc \in Seeking
  BY <1>1 DEF Mapped, Seeking
<1>3. TlbOK' /\ pte'[Slot] = 0
  BY <1>1, <1>2, UnmapKeeps
<1>4. WindowOK'
  BY <1>1, <1>3 DEF WindowOK, Mapped, Taken
<1>5. /\ want > 1 /\ Sig' = Sig /\ fw.tables[k].sig # Sig /\ k <= Len(fw.tables)
      /\ \A m \in 1 .. k - 1 : fw.tables[m].sig # Sig
  BY <1>1, <1>2 DEF CopyParts, AtOK, Here, Sig
<1>6. k \in Nat \ {0} /\ Len(fw.tables) \in Nat
  BY FirmwareFacts DEF TypeOK
<1>7. 1 .. (k + 1) - 1 = (1 .. k - 1) \cup {k} /\ k + 1 <= Len(fw.tables) + 1
  BY <1>5, <1>6
<1>8. \A m \in 1 .. k' - 1 : fw'.tables[m].sig # Sig'
  BY <1>1, <1>5, <1>7
<1>9. AtOK'
  BY <1>1, <1>5, <1>7, <1>8 DEF AtOK, Seeking, Mapped, Taken
<1>10. RsdtOK' /\ LoopOK'
  BY <1>1 DEF CopyParts, RsdtOK, LoopOK, Through
<1>11. GoodOK'
  BY <1>1, GoodSame DEF CopyParts, TypeOK, Through
<1> QED
  BY <1>3, <1>4, <1>9, <1>10, <1>11 DEF CopyParts

LEMMA CopyAllocate ==
    ASSUME TypeOK, CopyParts, OneWindowFrame, Allocate
    PROVE  CopyParts'
<1>1. /\ pc = "allocate" /\ Read({0}) /\ pc' = "start"
      /\ room' \in (IF Sig = "FACP" THEN {FadtSize} ELSE LengthAt(FrameOf(0)))
      /\ UNCHANGED <<fw, want, k, copies>>
  BY DEF Allocate, found
<1>2. pc \in Mapped /\ pc' \in Mapped
  BY <1>1 DEF Mapped, Taken
<1>3. /\ TlbOK' /\ Here' = Here /\ Sig' = Sig /\ WindowOK'
  BY <1>1, <1>2, CopyReads
<1>4. room' = IF Sig = "FACP" THEN FadtSize ELSE Here.len
  BY <1>1, <1>2, FirstByte, FoundThere DEF CopyParts
<1>5. AtOK'
  BY <1>1, <1>3 DEF CopyParts, AtOK, Seeking, Mapped, Taken
<1>6. RsdtOK' /\ LoopOK'
  BY <1>1, <1>3, <1>4 DEF CopyParts, RsdtOK, LoopOK, Through
<1>7. GoodOK'
  BY <1>1, GoodSame DEF CopyParts, TypeOK, Through
<1> QED
  BY <1>3, <1>5, <1>6, <1>7 DEF CopyParts

LEMMA CopyStart ==
    ASSUME TypeOK, CopyParts, OneWindowFrame, StartCopy
    PROVE  CopyParts'
<1>1. /\ pc = "start" /\ Read({0}) /\ pc' = "copy"
      /\ n' \in LengthAt(FrameOf(0)) /\ b' = 0 /\ i' = 0 /\ from' = {}
      /\ UNCHANGED <<fw, want, k, room, copies>>
  BY DEF StartCopy, found
<1>2. pc \in Mapped /\ pc' \in Mapped
  BY <1>1 DEF Mapped, Taken
<1>3. /\ TlbOK' /\ Here' = Here /\ Sig' = Sig /\ WindowOK'
  BY <1>1, <1>2, CopyReads
<1>4. n' = Here.len /\ Here.len \in Nat
  BY <1>1, <1>2, FirstByte, FoundThere, PlaceIsHere, TableFacts DEF CopyParts
<1>5. AtOK'
  BY <1>1, <1>3 DEF CopyParts, AtOK, Seeking, Mapped, Taken
<1>6. RsdtOK'
  BY <1>1 DEF CopyParts, RsdtOK, Through
<1>7. Span(Here, 0) = {}
  BY DEF Span
<1>8. room = IF Sig = "FACP" THEN FadtSize ELSE Here.len
  BY <1>1 DEF CopyParts, LoopOK
<1>9. b' <= n'
  BY <1>1, <1>4
<1>10. Span(Here, b)' = {}
  BY <1>1, <1>3, <1>7
<1>11. LoopOK'
  BY <1>1, <1>3, <1>4, <1>8, <1>9, <1>10 DEF LoopOK
<1>12. GoodOK'
  BY <1>1, GoodSame DEF CopyParts, TypeOK, Through
<1> QED
  BY <1>3, <1>5, <1>6, <1>11, <1>12 DEF CopyParts

LEMMA CopyOne ==
    ASSUME TypeOK, CopyParts, OneWindowFrame, CopyByte
    PROVE  CopyParts'
<1>1. /\ pc = "copy" /\ b < n /\ Read({b}) /\ b' = b + 1
      /\ from' = from \cup {FrameOf(b)}
      /\ UNCHANGED <<fw, pc, want, k, room, n, i, copies>>
  BY DEF CopyByte, found
<1>2. pc \in Mapped /\ pc' \in Mapped
  BY <1>1 DEF Mapped, Taken
<1>3. /\ TlbOK' /\ Here' = Here /\ Sig' = Sig /\ WindowOK'
      /\ NoneStraddles' <=> NoneStraddles
  BY <1>1, <1>2, CopyReads
<1>4. IsTable(Here) /\ Here.len \in Nat /\ b \in Nat /\ n = Here.len
  BY <1>1, <1>2, PlaceIsHere, TableFacts DEF CopyParts, TypeOK, LoopOK
<1>5. ASSUME NoneStraddles PROVE from' = Span(Here, b + 1)
  <2>1. FrameOf(b) # 0
    BY <1>1 DEF Read
  <2>2. FrameOf(b) = Here.frame + (Here.off + b) \div PageSize
    BY <2>1, <1>1, <1>2, <1>4, <1>5, BytesFrom DEF CopyParts
  <2>3. from = Span(Here, b)
    BY <1>1, <1>5 DEF CopyParts, LoopOK
  <2> QED
    BY <2>2, <2>3, <1>1, <1>4, SpanNext
<1>6. AtOK'
  BY <1>1, <1>3 DEF CopyParts, AtOK
<1>7. RsdtOK'
  BY <1>1 DEF CopyParts, RsdtOK
<1>8. b' <= n'
  BY <1>1, <1>4
<1>9. Span(Here, b)' = Span(Here, b + 1)
  BY <1>1, <1>3
<1>10. i = 0 /\ room = IF Sig = "FACP" THEN FadtSize ELSE Here.len
  BY <1>1 DEF CopyParts, LoopOK
<1>11. LoopOK'
  BY <1>1, <1>3, <1>4, <1>5, <1>8, <1>9, <1>10 DEF LoopOK
<1>12. GoodOK'
  BY <1>1, GoodSame DEF CopyParts, TypeOK
<1> QED
  BY <1>3, <1>6, <1>7, <1>11, <1>12 DEF CopyParts

LEMMA CopyEnd ==
    ASSUME TypeOK, CopyParts, Copied
    PROVE  CopyParts'
<1>1. /\ pc = "copy" /\ b = n /\ b' = 0 /\ from' = {} /\ pc' = "sum"
      /\ copies' = [copies EXCEPT ![Sig] = [from |-> from, off |-> Place.off, len |-> n]]
      /\ UNCHANGED <<fw, want, k, n, i, window>>
  BY DEF Copied
<1>2. pc \in Mapped /\ pc' \in Mapped /\ pc \in Seeking
  BY <1>1 DEF Mapped, Taken, Seeking
<1>3. Here' = Here /\ Sig' = Sig /\ (NoneStraddles' <=> NoneStraddles)
  BY <1>1, SameHere, SameTables
<1>4. Place = Here /\ IsTable(Here) /\ n = Here.len /\ Here.len \in Nat
  BY <1>1, <1>2, PlaceIsHere, TableFacts DEF CopyParts, LoopOK
<1>5. want \in 1 .. 4 /\ Sig \in ToSet(Needed) /\ DOMAIN copies = ToSet(Needed)
      /\ "RSDT" \in ToSet(Needed) /\ (Sig = "RSDT" <=> want = 1)
  <2>1. want \in 1 .. 4 /\ DOMAIN copies = ToSet(Needed)
    BY DEF TypeOK
  <2>2. ToSet(Needed) = {"RSDT", "APIC", "HPET", "FACP"}
    BY DEF Needed, ToSet
  <2>3. want = 1 \/ want = 2 \/ want = 3 \/ want = 4
    BY <2>1
  <2> QED
    BY <2>1, <2>2, <2>3 DEF Sig, Needed
<1>6. /\ copies'[Sig] = [from |-> from, off |-> Here.off, len |-> n]
      /\ \A sig \in ToSet(Needed) : sig # Sig => copies'[sig] = copies[sig]
  BY <1>1, <1>4, <1>5
<1>7. TlbOK' /\ WindowOK'
  BY <1>1, <1>2, <1>3, SameTables DEF CopyParts, TlbOK, WindowOK, window, Mapped, Taken
<1>8. AtOK'
  BY <1>1, <1>3 DEF CopyParts, AtOK, Seeking, Mapped, Taken
<1>9. RsdtOK'
  <2>1. CASE want = 1
    <3>1. Here = fw.rsdt /\ Sig = "RSDT"
      BY <2>1, <1>5 DEF Here
    <3> QED
      BY <3>1, <1>1, <1>4, <1>6 DEF RsdtOK
  <2>2. CASE want # 1
    <3>1. want > 1 /\ Sig # "RSDT"
      BY <2>2, <1>5
    <3> QED
      BY <3>1, <1>1, <1>5, <1>6 DEF CopyParts, RsdtOK
  <2> QED
    BY <2>1, <2>2
<1>10. ASSUME NoneStraddles PROVE copies'[Sig] = CopyOf(Here)
  <2>1. from = Frames(Here)
    BY <1>1, <1>4, <1>10, WholeSpan DEF CopyParts, LoopOK
  <2> QED
    BY <2>1, <1>4, <1>6 DEF CopyOf
<1>11. i = 0
  BY <1>1 DEF CopyParts, LoopOK
<1>12. Span(Here, 0) = {} /\ 0 <= Here.len
  BY <1>4 DEF Span
<1>13. LoopOK'
  <2>1. Span(Here, b)' = {}
    BY <1>1, <1>3, <1>12
  <2>2. i' = b' /\ b' <= Here'.len
    BY <1>1, <1>3, <1>11, <1>12
  <2> QED
    BY <2>1, <2>2, <1>1, <1>3, <1>4, <1>10 DEF LoopOK
<1>14. GoodOK'
  <2> SUFFICES ASSUME NoneStraddles, NEW w \in 2 .. 4, w < want
               PROVE  CopyGood(Needed[w])'
    BY <1>1, <1>3 DEF GoodOK, Through
  <2>1. CopyGood(Needed[w])
    BY DEF CopyParts, GoodOK
  <2>2. Needed[w] # Sig /\ Needed[w] \in ToSet(Needed)
    <3>1. w = 2 \/ w = 3
      BY <1>5
    <3>2. want = 1 \/ want = 2 \/ want = 3 \/ want = 4
      BY <1>5
    <3>3. ToSet(Needed) = {"RSDT", "APIC", "HPET", "FACP"}
      BY DEF Needed, ToSet
    <3> QED
      BY <3>1, <3>2, <3>3 DEF Sig, Needed
  <2>3. copies'[Needed[w]] = copies[Needed[w]]
    BY <1>6, <2>2
  <2> QED
    BY <2>1, <2>3, <1>1 DEF CopyGood, IsFirst, CopyOf
<1> QED
  BY <1>7, <1>8, <1>9, <1>13, <1>14 DEF CopyParts

LEMMA CopySum ==
    ASSUME TypeOK, CopyParts, OneWindowFrame, SumByte
    PROVE  CopyParts'
<1>1. /\ pc = "sum" /\ Read({0, b}) /\ i' = (i + 1) % CounterRange /\ b' = b + 1
      /\ from' = from \cup {FrameOf(b)}
      /\ \E length \in LengthAt(FrameOf(0)) : i < length
      /\ UNCHANGED <<fw, pc, want, k, n, copies>>
  BY DEF SumByte, found
<1>2. pc \in Mapped /\ pc' \in Mapped
  BY <1>1 DEF Mapped, Taken
<1>3. /\ TlbOK' /\ Here' = Here /\ Sig' = Sig /\ WindowOK'
      /\ NoneStraddles' <=> NoneStraddles
  BY <1>1, <1>2, CopyReads
<1>4. IsTable(Here) /\ Here.len \in Nat /\ b \in Nat /\ n = Here.len
  BY <1>1, <1>2, PlaceIsHere, TableFacts DEF CopyParts, TypeOK, LoopOK
<1>5. FrameOf(0) # 0 /\ FrameOf(b) # 0
  BY <1>1 DEF Read
<1>6. i < Here.len
  <2>1. FrameOf(0) = Here.frame + (Here.off + 0) \div PageSize
    BY <1>2, <1>5, BytesFrom DEF CopyParts
  <2>2. FrameOf(0) = Here.frame
    <3>1. Here.off \in 0 .. PageSize - 1 /\ Here.frame \in Nat /\ PageSize \in Nat \ {0}
      BY <1>4, TableFacts, AcpiAssumption
    <3>2. Here.off + 0 \in Nat /\ Here.off + 0 < 1 * PageSize
      BY <3>1
    <3> DEFINE q == (Here.off + 0) \div PageSize
    <3>3. q < 1 /\ q \in Nat
      BY <3>1, <3>2, DivBelow, DivMod
    <3>4. FrameOf(0) = Here.frame + q
      BY <2>1
    <3> HIDE DEF q
    <3> QED
      BY <3>1, <3>3, <3>4
  <2> QED
    BY <2>2, <1>1, <1>2, FoundThere DEF CopyParts
<1>7. ASSUME NoneStraddles, Here.len < CounterRange
      PROVE  i' = b' /\ b' <= Here.len /\ from' = Span(Here, b + 1)
  <2>1. i = b /\ from = Span(Here, b)
    BY <1>1, <1>7 DEF CopyParts, LoopOK
  <2>2. b + 1 <= Here.len /\ b < Here.len
    BY <1>4, <1>6, <2>1
  <2>3. (b + 1) % CounterRange = b + 1
    BY <1>4, <1>7, <2>2, AcpiAssumption
  <2>4. FrameOf(b) = Here.frame + (Here.off + b) \div PageSize
    BY <1>2, <1>4, <1>5, <1>7, <2>2, BytesFrom DEF CopyParts
  <2>5. from' = Span(Here, b + 1)
    BY <2>1, <2>4, <1>1, <1>4, SpanNext
  <2> QED
    BY <2>1, <2>2, <2>3, <2>5, <1>1
<1>8. AtOK' /\ RsdtOK'
  BY <1>1, <1>3 DEF CopyParts, AtOK, RsdtOK
<1>9. Span(Here, b)' = Span(Here, b + 1)
  BY <1>1, <1>3
<1>10. NoneStraddles => copies[Sig] = CopyOf(Here)
  BY <1>1 DEF CopyParts, LoopOK
<1>11. CopyOf(Here)' = CopyOf(Here)
  BY <1>3
<1>12. LoopOK'
  BY <1>1, <1>3, <1>4, <1>7, <1>9, <1>10, <1>11 DEF LoopOK
<1>13. GoodOK'
  BY <1>1, GoodSame DEF CopyParts, TypeOK
<1> QED
  BY <1>3, <1>8, <1>12, <1>13 DEF CopyParts

(* A table is accepted: its sum is right, and so is that of its copy.      *)
LEMMA CopyChecked ==
    ASSUME TypeOK, CopyParts, OneWindowFrame, acpi_sdt_checksum
    PROVE  CopyParts'
<1>1. /\ pc = "sum" /\ Read({0}) /\ pc' \in {"unmap", "halted"}
      /\ \E length \in LengthAt(FrameOf(0)) : i >= length
      /\ pc' = "unmap" => TRUE \in SumIsZero(from, Place.off, b)
      /\ UNCHANGED <<fw, want, k, n, b, i, from, copies>>
  BY DEF acpi_sdt_checksum, found, loop
<1>2. pc \in Mapped
  BY <1>1 DEF Mapped, Taken
<1>3. /\ TlbOK' /\ Here' = Here /\ Sig' = Sig /\ (pc' \in Mapped => WindowOK')
      /\ NoneStraddles' <=> NoneStraddles
  BY <1>1, <1>2, CopyReads
<1>4. CASE pc' = "halted"
  BY <1>1, <1>3, <1>4, CopyHalts
<1>5. CASE pc' = "unmap"
  <2>1. /\ Place = Here /\ Here \in AllTables /\ IsTable(Here)
        /\ Here.len \in Nat /\ b \in Nat /\ Here.good \in BOOLEAN
        /\ Here.frame \in Nat /\ Here.off \in Nat
    BY <1>2, PlaceIsHere, TableFacts DEF CopyParts, TypeOK
  <2>2. i >= Here.len
    BY <1>1, <1>2, FirstByte, FoundThere DEF CopyParts
  <2>3. Here.len < CounterRange
    BY <2>1, <2>2, AcpiAssumption DEF TypeOK
  <2>4. ASSUME NoneStraddles PROVE Here.good
    <3>1. i = b /\ b <= Here.len /\ from = Span(Here, b)
      BY <1>1, <2>3, <2>4 DEF CopyParts, LoopOK
    <3>2. b = Here.len
      BY <2>1, <2>2, <3>1
    <3>3. from = Frames(Here)
      BY <2>1, <3>1, <3>2, WholeSpan
    <3>4. Here \in Whole(from, Place.off, b)
      BY <2>1, <3>2, <3>3 DEF Whole, AllTables
    <3>5. ASSUME NEW t \in Whole(from, Place.off, b) PROVE t = Here
      <4>1. t \in AllTables /\ Frames(t) = Frames(Here) /\ t.off = Here.off
        BY <2>1, <3>3, <3>5 DEF Whole, AllTables
      <4>2. /\ t.frame \in Nat /\ t.off \in Nat /\ t.len \in Nat \ {0}
            /\ Here.len \in Nat \ {0} /\ PageSize \in Nat \ {0}
        <5>1. IsTable(t)
          BY <4>1, FirmwareFacts DEF TypeOK
        <5>2. PageSize \in Nat \ {0}
          BY AcpiAssumption
        <5> QED
          BY <2>1, <5>1, <5>2, TableFacts
      <4> DEFINE p == (t.off + t.len - 1) \div PageSize
                 q == (Here.off + Here.len - 1) \div PageSize
      <4>3. p \in Nat /\ q \in Nat
        <5>1. t.off + t.len - 1 \in Nat /\ Here.off + Here.len - 1 \in Nat
          BY <2>1, <4>2
        <5> QED
          BY <5>1, <4>2, DivMod
      <4>4. t.frame .. t.frame + p = Here.frame .. Here.frame + q
        BY <4>1 DEF Frames
      <4> HIDE DEF p, q
      <4>5. t.frame \in Here.frame .. Here.frame + q
        <5>1. t.frame \in t.frame .. t.frame + p
          BY <4>2, <4>3
        <5> QED
          BY <5>1, <4>4
      <4>6. Here.frame \in t.frame .. t.frame + p
        <5>1. Here.frame \in Here.frame .. Here.frame + q
          BY <2>1, <4>3
        <5> QED
          BY <5>1, <4>4
      <4>7. t.frame = Here.frame
        BY <2>1, <4>2, <4>3, <4>5, <4>6
      <4> QED
        BY <2>1, <4>1, <4>7, FirmwareFacts DEF TypeOK
    <3>6. SumIsZero(from, Place.off, b) = {Here.good}
      BY <3>4, <3>5 DEF SumIsZero
    <3> QED
      BY <1>1, <1>5, <3>6
  <2>5. pc' \in Mapped
    BY <1>5 DEF Mapped, Taken
  <2>6. AtOK' /\ RsdtOK'
    BY <1>1, <1>3, <1>5 DEF CopyParts, AtOK, RsdtOK, Seeking, Mapped, Taken
  <2>7. NoneStraddles => copies[Sig] = CopyOf(Here)
    BY <1>1 DEF CopyParts, LoopOK
  <2>8. CopyOf(Here)' = CopyOf(Here)
    BY <1>3
  <2>9. LoopOK'
    BY <1>1, <1>3, <1>5, <2>4, <2>7, <2>8 DEF LoopOK
  <2>10. GoodOK'
    BY <1>1, <1>5, GoodSame DEF CopyParts, TypeOK, Through
  <2> QED
    BY <1>3, <2>5, <2>6, <2>9, <2>10 DEF CopyParts
<1> QED
  BY <1>1, <1>4, <1>5

LEMMA CopyUnmap ==
    ASSUME TypeOK, CopyParts, Unmap
    PROVE  CopyParts'
<1>1. /\ pc = "unmap" /\ kunmap /\ k' = 1
      /\ IF want < 4 THEN want' = want + 1 /\ pc' = "scan"
         ELSE want' = 2 /\ pc' = "madt"
      /\ UNCHANGED <<fw, copies>>
  BY DEF Unmap, found, Needed
<1>2. pc \in Mapped /\ pc \in Taken
  BY <1>1 DEF Mapped, Taken
<1>3. TlbOK' /\ pte'[Slot] = 0
  BY <1>1, <1>2, UnmapKeeps
<1>4. want \in 1 .. 4 /\ want' \in 1 .. 4 /\ pc' \in {"scan", "madt"}
  BY <1>1 DEF TypeOK
<1>5. WindowOK' /\ LoopOK'
  BY <1>3, <1>4 DEF WindowOK, LoopOK, Mapped, Taken
<1>6. AtOK'
  <2>1. 1 .. k' - 1 = {} /\ k' <= Len(fw.tables) + 1
    BY <1>1, FirmwareFacts DEF TypeOK
  <2> QED
    BY <1>1, <1>4, <2>1 DEF AtOK, Seeking, Mapped, Taken
<1>7. RsdtOK'
  BY <1>1 DEF CopyParts, RsdtOK
<1>8. ASSUME NoneStraddles, want > 1 PROVE CopyGood(Needed[want])
  <2>1. Here = fw.tables[k] /\ Sig = Needed[want]
    BY <1>8 DEF Here, Sig
  <2>2. /\ k \in 1 .. Len(fw.tables) /\ fw.tables[k].sig = Sig
        /\ \A m \in 1 .. k - 1 : fw.tables[m].sig # Sig
    BY <1>2, <1>8, <2>1, FirmwareFacts DEF CopyParts, AtOK, TypeOK, Seeking
  <2>3. copies[Sig] = CopyOf(Here) /\ Here.good
    BY <1>1, <1>8 DEF CopyParts, LoopOK
  <2> QED
    BY <2>1, <2>2, <2>3 DEF CopyGood, IsFirst
<1>9. GoodOK'
  <2> SUFFICES ASSUME NoneStraddles, NEW w \in 2 .. 4,
                      w < want' \/ pc' = "madt"
               PROVE  CopyGood(Needed[w])'
    BY <1>1, <1>4, SameTables DEF GoodOK, Through
  <2>1. w < want \/ w = want
    BY <1>1, <1>4
  <2>2. CopyGood(Needed[w])
    BY <2>1, <1>8, <1>4 DEF CopyParts, GoodOK
  <2> QED
    BY <2>2, <1>1 DEF CopyGood, IsFirst, CopyOf
<1> QED
  BY <1>3, <1>5, <1>6, <1>7, <1>9 DEF CopyParts

(* parse_madt leaves the copies and the mappings alone.                    *)
LEMMA CopyParsed ==
    ASSUME TypeOK, CopyParts, pc \in Parsing \cup {"madt"}, pc' \in Parsing,
           pc' \in Through => pc \in Through,
           UNCHANGED <<fw, want, copies, window>>
    PROVE  CopyParts'
<1>1. TlbOK'
  BY SameTables DEF CopyParts, TlbOK, window
<1>2. AtOK' /\ WindowOK' /\ LoopOK'
  BY DEF AtOK, WindowOK, LoopOK, Seeking, Mapped, Taken, Parsing
<1>3. RsdtOK'
  BY DEF CopyParts, RsdtOK, Parsing
<1>4. GoodOK'
  BY GoodSame DEF CopyParts, TypeOK
<1> QED
  BY <1>1, <1>2, <1>3, <1>4 DEF CopyParts

LEMMA CopyStutter ==
    ASSUME TypeOK, CopyParts, TlbOK',
           UNCHANGED <<fw, pc, want, k, loop, found, pte, held>>
    PROVE  CopyParts'
<1>1. Here' = Here /\ Sig' = Sig /\ (NoneStraddles' <=> NoneStraddles)
  BY SameHere, SameTables
<1>2. AtOK' /\ WindowOK' /\ RsdtOK'
  BY <1>1 DEF CopyParts, AtOK, WindowOK, RsdtOK, found
<1>3. Span(Here, b)' = Span(Here, b) /\ CopyOf(Here)' = CopyOf(Here)
  BY <1>1 DEF loop
<1>4. LoopOK'
  BY <1>1, <1>3 DEF CopyParts, LoopOK, loop, found
<1>5. GoodOK'
  BY GoodSame DEF CopyParts, TypeOK, found
<1> QED
  BY <1>2, <1>4, <1>5 DEF CopyParts

LEMMA NextCopy ==
    ASSUME ParseInv, CopyInv, [Next]_vars
    PROVE  CopyInv'
<1>1. fw' = fw
  BY DEF Next, Kernel, Candidate, find_rsdp, Map, NotFound, find_table, Skip,
         Allocate, StartCopy, CopyByte, Copied, SumByte, acpi_sdt_checksum,
         Unmap, Fault, Lapic, Ioapic, IoapicIso, PrintOnly, Unknown,
         parse_madt, RecordsEnd, Evict, Over, vars
<1> SUFFICES ASSUME OneWindowFrame PROVE CopyParts'
  BY <1>1, SameTables DEF CopyInv
<1>2. TypeOK /\ CopyParts
  BY DEF ParseInv, CopyInv
<1>3. UNCHANGED window => TlbOK'
  BY <1>1, <1>2, SameTables DEF CopyParts, TlbOK, window
<1>4. CASE Kernel
  <2>1. CASE Candidate
    BY <2>1, <1>2, CopyRsdp DEF Candidate
  <2>2. CASE find_rsdp
    BY <2>2, <1>2, CopyRsdp DEF find_rsdp, found
  <2>3. CASE Map
    BY <2>3, <1>2, CopyMap
  <2>4. CASE NotFound
    BY <2>4, <1>2, <1>3, CopyHalts DEF NotFound, found
  <2>5. CASE find_table
    BY <2>5, <1>2, CopyMatch
  <2>6. CASE Skip
    BY <2>6, <1>2, CopySkip
  <2>7. CASE Allocate
    BY <2>7, <1>2, CopyAllocate
  <2>8. CASE StartCopy
    BY <2>8, <1>2, CopyStart
  <2>9. CASE CopyByte
    BY <2>9, <1>2, CopyOne
  <2>10. CASE Copied
    BY <2>10, <1>2, CopyEnd
  <2>11. CASE SumByte
    BY <2>11, <1>2, CopySum
  <2>12. CASE acpi_sdt_checksum
    BY <2>12, <1>2, CopyChecked
  <2>13. CASE Unmap
    BY <2>13, <1>2, CopyUnmap
  <2>14. CASE Fault
    BY <2>14, <1>2, <1>3, CopyHalts DEF Fault, found
  <2>15. CASE Lapic
    BY <2>15, <1>2, CopyParsed DEF Lapic, At, found, Parsing
  <2>16. CASE Ioapic
    BY <2>16, <1>2, CopyParsed DEF Ioapic, At, found, Parsing
  <2>17. CASE IoapicIso
    BY <2>17, <1>2, CopyParsed DEF IoapicIso, At, found, Parsing
  <2>18. CASE PrintOnly
    BY <2>18, <1>2, CopyParsed DEF PrintOnly, At, found, Parsing
  <2>19. CASE Unknown
    BY <2>19, <1>2, CopyParsed DEF Unknown, At, found, Parsing, vars
  <2>20. CASE parse_madt
    BY <2>20, <1>2, CopyParsed DEF parse_madt, found, Parsing, Through
  <2>21. CASE RecordsEnd
    BY <2>21, <1>2, CopyParsed DEF RecordsEnd, found, Parsing, Through
  <2> QED
    BY <1>4, <2>1, <2>2, <2>3, <2>4, <2>5, <2>6, <2>7, <2>8, <2>9, <2>10,
       <2>11, <2>12, <2>13, <2>14, <2>15, <2>16, <2>17, <2>18, <2>19, <2>20, <2>21
       DEF Kernel
<1>5. CASE Evict
  <2>1. TlbOK' /\ UNCHANGED <<pte, held>>
    BY <1>1, <1>2, <1>5, EvictKeeps DEF Evict, CopyParts
  <2> QED
    BY <1>2, <1>5, <2>1, CopyStutter DEF Evict
<1>6. CASE Over \/ UNCHANGED vars
  <2>1. UNCHANGED vars
    BY <1>6 DEF Over
  <2>2. TlbOK'
    BY <1>3, <2>1 DEF vars
  <2> QED
    BY <1>2, <2>1, <2>2, CopyStutter DEF vars, window
<1> QED
  BY <1>4, <1>5, <1>6 DEF Next

(* Along with what parse_madt relies on, the search keeps its invariant.   *)
LEMMA Invariant == Spec => []Inv
<1>1. Init => Inv
  BY InitParse, InitCopy DEF Inv
<1>2. Inv /\ [Next]_vars => Inv'
  BY NextParse, NextCopy DEF Inv
<1> QED
  BY <1>1, <1>2, PTL DEF Spec

(* The first table of a signature is the one that was found.               *)
LEMMA FirstIs ==
    ASSUME fw \in Firmwares, NEW sig, NEW j \in 1 .. Len(fw.tables), IsFirst(j, sig)
    PROVE  FirstWith(sig) = fw.tables[j]
<1> DEFINE First(l) == /\ fw.tables[l].sig = sig
                       /\ \A m \in 1 .. l - 1 : fw.tables[m].sig # sig
           c == CHOOSE l \in 1 .. Len(fw.tables) : First(l)
<1>1. First(j)
  BY DEF IsFirst
<1>2. c \in 1 .. Len(fw.tables) /\ First(c)
  BY <1>1
<1>3. Len(fw.tables) \in Nat
  BY FirmwareFacts
<1> HIDE DEF c
<1>4. ~ (c < j) /\ ~ (j < c)
  <2>1. c < j => c \in 1 .. j - 1
    BY <1>2, <1>3
  <2>2. j < c => j \in 1 .. c - 1
    BY <1>2, <1>3
  <2> QED
    BY <1>1, <1>2, <2>1, <2>2
<1>5. c = j
  BY <1>2, <1>3, <1>4
<1> QED
  BY <1>5 DEF FirstWith, c

(* Whichever translations the processor drops, and although kunmap leaves  *)
(* the TLB alone: when init_acpi is through, each of its three copies is   *)
(* the first table of its signature, whole and with a sum that is right.   *)
THEOREM CopiesAlwaysRight == Spec => []CopiesRight
<1>1. Inv => CopiesRight
  <2> SUFFICES ASSUME Inv, pc \in Through, OneWindowFrame, NoneStraddles,
                      NEW sig \in {"APIC", "HPET", "FACP"}
               PROVE  /\ copies[sig] = [from |-> Frames(FirstWith(sig)),
                                        off |-> FirstWith(sig).off,
                                        len |-> FirstWith(sig).len]
                      /\ FirstWith(sig).good
    BY DEF CopiesRight, Through
  <2>1. \A w \in 2 .. 4 : CopyGood(Needed[w])
    BY DEF Inv, CopyInv, CopyParts, GoodOK
  <2>2. Needed[2] = "APIC" /\ Needed[3] = "HPET" /\ Needed[4] = "FACP"
    BY DEF Needed
  <2>3. 2 \in 2 .. 4 /\ 3 \in 2 .. 4 /\ 4 \in 2 .. 4
    OBVIOUS
  <2>4. CopyGood(sig)
    BY <2>1, <2>2, <2>3
  <2>5. PICK j \in 1 .. Len(fw.tables) :
          IsFirst(j, sig) /\ copies[sig] = CopyOf(fw.tables[j]) /\ fw.tables[j].good
    BY <2>4 DEF CopyGood
  <2>6. FirstWith(sig) = fw.tables[j]
    BY <2>5, FirstIs DEF Inv, ParseInv, TypeOK
  <2> QED
    BY <2>5, <2>6 DEF CopyOf
<1> QED
  BY <1>1, Invariant, PTL

(* memcpy stays in what kmalloc gave, unless the FADT is longer than the   *)
(* structure that find_fadt allocates room for.                            *)
THEOREM CopyAlwaysFits == Spec => []CopyFits
<1>1. Inv => CopyFits
  <2> SUFFICES ASSUME Inv, pc = "copy", OneWindowFrame
               PROVE  b <= room \/ (Sig = "FACP" /\ FirstWith("FACP").len > FadtSize)
    BY DEF CopyFits
  <2>1. TypeOK /\ CopyParts /\ pc \in Mapped /\ pc \in Taken
    BY DEF Inv, ParseInv, CopyInv, Mapped, Taken
  <2>2. /\ room = IF Sig = "FACP" THEN FadtSize ELSE Here.len
        /\ b <= Here.len
    BY <2>1 DEF CopyParts, LoopOK
  <2>3. IsTable(Here) /\ Here.len \in Nat /\ b \in Nat /\ FadtSize \in Nat
    BY <2>1, PlaceIsHere, TableFacts, AcpiAssumption DEF CopyParts, TypeOK
  <2>4. CASE Sig # "FACP"
    BY <2>2, <2>4
  <2>5. CASE Sig = "FACP"
    <3>1. want > 1
      <4>1. want \in 1 .. 4 /\ (want = 1 => Sig = "RSDT")
        BY <2>1 DEF TypeOK, Sig, Needed
      <4> QED
        BY <4>1, <2>5
    <3>2. Here = fw.tables[k]
      BY <3>1 DEF Here
    <3>3. k \in 1 .. Len(fw.tables) /\ IsFirst(k, "FACP")
      BY <2>1, <2>5, <3>1, <3>2, FirmwareFacts
         DEF CopyParts, AtOK, TypeOK, Seeking, IsFirst
    <3>4. FirstWith("FACP") = Here
      BY <2>1, <3>2, <3>3, FirstIs DEF TypeOK
    <3> QED
      BY <2>2, <2>3, <2>5, <3>4
  <2> QED
    BY <2>4, <2>5
<1> QED
  BY <1>1, Invariant, PTL
=============================================================================
