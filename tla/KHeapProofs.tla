---------------------------- MODULE KHeapProofs -----------------------------
(***************************************************************************)
(* Proofs about the kernel heap, for every heap, request and handle.       *)
(***************************************************************************)
EXTENDS KHeap, NumberFacts, TLAPS
-----------------------------------------------------------------------------
(* b is a with val put in at place i.                                      *)
PutIn(a, b, i, val) ==
    /\ b.size = a.size + 1
    /\ b.array[i] = val
    /\ \A k \in 0 .. i - 1 : b.array[k] = a.array[k]
    /\ \A k \in i + 1 .. a.size : b.array[k] = a.array[k - 1]

(* b is a without its entry i.                                             *)
TakenOut(a, b, i) ==
    /\ b.size = a.size - 1
    /\ \A k \in 0 .. i - 1 : b.array[k] = a.array[k]
    /\ \A k \in i .. a.size - 2 : b.array[k] = a.array[k + 1]

(* insert_ordered_array puts val at the only place the order allows.       *)
LEMMA InsertAt ==
    ASSUME NEW max \in Nat, NEW V, V \subseteq Int,
           NEW a \in OrderedArrays(max, V), NEW val \in V,
           a.size < max,
           NEW i \in 0 .. a.size,
           \A k \in 0 .. i - 1 : ~ (val < a.array[k]),
           \A k \in i .. a.size - 1 : val < a.array[k]
    PROVE  LET b == insert_ordered_array(a, val)
           IN  b \in OrderedArrays(max, V) /\ PutIn(a, b, i, val)
<1> DEFINE P(p) == /\ \A k \in p .. a.size - 1 : val < a.array[k]
                   /\ p > 0 => ~ (val < a.array[p - 1])
           j == InsertIndex(a, val)
<1>1. a.array \in [0 .. max - 1 -> V] /\ a.size \in 0 .. max /\ a.max_size = max
  BY DEF OrderedArrays
<1>2. P(i)
  BY <1>1
<1>3. j \in 0 .. a.size /\ P(j)
  <2>1. \E p \in 0 .. a.size : P(p)
    BY <1>2
  <2>2. j = CHOOSE p \in 0 .. a.size : P(p)
    BY DEF InsertIndex
  <2> QED
    BY <2>1, <2>2
<1>4. j = i
  <2>1. ~ (j < i)
    <3> SUFFICES ASSUME j < i PROVE FALSE
      OBVIOUS
    <3>1. i - 1 \in j .. a.size - 1 /\ i - 1 \in 0 .. i - 1
      BY <1>1, <1>3
    <3> QED
      BY <3>1, <1>3
  <2>2. ~ (i < j)
    <3> SUFFICES ASSUME i < j PROVE FALSE
      OBVIOUS
    <3>1. j - 1 \in i .. a.size - 1
      BY <1>1, <1>3
    <3> QED
      BY <3>1, <1>1, <1>3
  <2> QED
    BY <1>1, <1>3, <2>1, <2>2
<1>5. insert_ordered_array(a, val) =
        [array |-> [k \in 0 .. max - 1 |->
                      IF k < i \/ k > a.size THEN a.array[k]
                      ELSE IF k = i THEN val ELSE a.array[k - 1]],
         size |-> a.size + 1, max_size |-> max]
  BY <1>1, <1>4 DEF insert_ordered_array
<1> HIDE DEF j, P
<1> QED
  BY <1>1, <1>5 DEF OrderedArrays, PutIn

(* remove_ordered_array drops entry i and shifts down what is above it.    *)
LEMMA RemoveAt ==
    ASSUME NEW max \in Nat, NEW V, 0 \in V,
           NEW a \in OrderedArrays(max, V),
           NEW i \in 0 .. a.size - 1
    PROVE  LET b == remove_ordered_array(a, i)
           IN  b \in OrderedArrays(max, V) /\ TakenOut(a, b, i)
<1>1. a.array \in [0 .. max - 1 -> V] /\ a.size \in 0 .. max /\ a.max_size = max
  BY DEF OrderedArrays
<1> QED
  BY <1>1 DEF OrderedArrays, remove_ordered_array, TakenOut

(* find_ordered_array finds the one entry that holds val.                  *)
LEMMA FindAt ==
    ASSUME NEW max \in Nat, NEW V, NEW a \in OrderedArrays(max, V),
           NEW i \in 0 .. a.size - 1,
           \A k \in 0 .. a.size - 1 : a.array[k] = a.array[i] => k = i
    PROVE  find_ordered_array(a, a.array[i]) = i
<1>1. a.size \in 0 .. max
  BY DEF OrderedArrays
<1> DEFINE P(p) == /\ a.array[p] = a.array[i]
                   /\ \A k \in 0 .. p - 1 : a.array[k] # a.array[i]
           j == CHOOSE p \in 0 .. a.size - 1 : P(p)
<1>2. P(i)
  BY <1>1
<1>3. j \in 0 .. a.size - 1 /\ P(j)
  BY <1>2
<1> QED
  BY <1>3 DEF find_ordered_array
-----------------------------------------------------------------------------
(* What a heap of the right type gives access to.                          *)
LEMMA HeapParts ==
    ASSUME NEW hp \in Heap
    PROVE  /\ hp.mem \in [Cells -> Cell]
           /\ hp.header_array \in OrderedArrays(MaxBlocks, Words)
           /\ hp.footer_array \in OrderedArrays(MaxBlocks, Words)
           /\ hp.header_array.size \in 0 .. MaxBlocks
           /\ hp.footer_array.size \in 0 .. MaxBlocks
           /\ hp.header_array.max_size = MaxBlocks
           /\ \A i \in Blocks(hp) : /\ HeaderOf(hp, i) \in Words
                                    /\ FooterOf(hp, i) \in Words
<1>1. /\ hp.mem \in [Cells -> Cell]
      /\ hp.header_array \in OrderedArrays(MaxBlocks, Words)
      /\ hp.footer_array \in OrderedArrays(MaxBlocks, Words)
  BY DEF Heap
<1>2. /\ hp.header_array.array \in [0 .. MaxBlocks - 1 -> Words]
      /\ hp.header_array.size \in 0 .. MaxBlocks
      /\ hp.header_array.max_size = MaxBlocks
      /\ hp.footer_array.array \in [0 .. MaxBlocks - 1 -> Words]
      /\ hp.footer_array.size \in 0 .. MaxBlocks
  BY <1>1 DEF OrderedArrays
<1>3. Blocks(hp) \subseteq 0 .. MaxBlocks - 1
  BY <1>2, HeapAssumption DEF Blocks
<1>4. \A i \in Blocks(hp) : /\ HeaderOf(hp, i) \in Words
                            /\ FooterOf(hp, i) \in Words
  BY <1>2, <1>3 DEF HeaderOf, FooterOf
<1> QED
  BY <1>1, <1>2, <1>4

(* In a tiled heap the tags are cells of the heap and all different.       *)
LEMMA TagsApart ==
    ASSUME NEW hp \in Heap, Tiled(hp), NEW i \in Blocks(hp)
    PROVE  /\ HeaderOf(hp, i) \in Cells
           /\ FooterOf(hp, i) \in Cells
           /\ \A j \in Blocks(hp) :
                /\ HeaderOf(hp, i) # FooterOf(hp, j)
                /\ i # j => /\ HeaderOf(hp, i) # HeaderOf(hp, j)
                            /\ FooterOf(hp, i) # FooterOf(hp, j)
<1>1. \A k \in Blocks(hp) : /\ HeaderOf(hp, k) \in Int
                            /\ FooterOf(hp, k) \in Int
                            /\ HeaderOf(hp, k) < FooterOf(hp, k)
                            /\ HeapStart <= HeaderOf(hp, k)
                            /\ FooterOf(hp, k) < HeapEnd
  BY HeapParts, HeapAssumption DEF Tiled, SizesAgree, Tagged, Words
<1>2. Blocks(hp) \subseteq Int
  BY DEF Blocks
<1>3. \A j, k \in Blocks(hp) : j < k => FooterOf(hp, j) < HeaderOf(hp, k)
  BY DEF Tiled, Ascending
<1>4. HeaderOf(hp, i) \in Cells /\ FooterOf(hp, i) \in Cells
  BY <1>1, HeapAssumption DEF Cells, HeapEnd
<1>5. ASSUME NEW j \in Blocks(hp)
      PROVE  /\ HeaderOf(hp, i) # FooterOf(hp, j)
             /\ i # j => /\ HeaderOf(hp, i) # HeaderOf(hp, j)
                         /\ FooterOf(hp, i) # FooterOf(hp, j)
  <2>1. CASE i < j
    BY <2>1, <1>1, <1>2, <1>3
  <2>2. CASE i = j
    BY <2>2, <1>1, <1>2
  <2>3. CASE j < i
    BY <2>3, <1>1, <1>2, <1>3
  <2> QED
    BY <2>1, <2>2, <2>3, <1>2
<1> QED
  BY <1>4, <1>5

(* The tags of block i, spelled out.                                       *)
LEMMA TagsOf ==
    ASSUME NEW hp \in Heap, Tiled(hp), NEW i \in Blocks(hp)
    PROVE  /\ HeaderOf(hp, i) < FooterOf(hp, i)
           /\ hp.mem[HeaderOf(hp, i)].w0 =
                 FooterOf(hp, i) - HeaderOf(hp, i) - 1
           /\ hp.mem[HeaderOf(hp, i)].w1 = FooterOf(hp, i)
           /\ hp.mem[HeaderOf(hp, i)].w2 \in {0, 1}
           /\ hp.mem[HeaderOf(hp, i)].w3 = Magic
           /\ hp.mem[FooterOf(hp, i)] = Footer(HeaderOf(hp, i))
           /\ hp.mem[HeaderOf(hp, i)] =
                Header(FooterOf(hp, i) - HeaderOf(hp, i) - 1,
                       FooterOf(hp, i), hp.mem[HeaderOf(hp, i)].w2)
<1> DEFINE h == HeaderOf(hp, i)
           f == FooterOf(hp, i)
<1>1. PICK u \in {0, 1} : hp.mem[h] = Header(f - h - 1, f, u)
  BY DEF Tiled, Tagged
<1>2. h < f /\ hp.mem[f] = Footer(h)
  BY DEF Tiled, Tagged
<1>3. /\ hp.mem[h].w0 = f - h - 1 /\ hp.mem[h].w1 = f
      /\ hp.mem[h].w2 = u /\ hp.mem[h].w3 = Magic
  BY <1>1 DEF Header
<1> QED
  BY <1>1, <1>2, <1>3

(* Words are integers, and cells are words.                                *)
LEMMA CellsAreWords ==
    /\ Words \subseteq Nat
    /\ Cells \subseteq Words
    /\ 0 \in Words
BY HeapAssumption DEF Words, Cells, HeapEnd

(* A split of a block with more than the slack to spare: block i is cut    *)
(* in two, every other block moves by at most one place and keeps its tags *)
(* and the two parts are tagged as they should be.                         *)
LEMMA SplitMemory ==
    ASSUME NEW hp \in Heap, Tiled(hp), NEW i \in Blocks(hp),
           NEW size \in Nat,
           size + 2 + SplitSlack < hp.mem[HeaderOf(hp, i)].w0
    PROVE  LET header == HeaderOf(hp, i)
               footer == FooterOf(hp, i)
               new_footer == header + size + 1
               new_header == header + size + 2
               new == Split(hp, header, footer, size)
           IN  /\ new_header < footer
               /\ new_footer \in Cells /\ new_header \in Cells
               /\ new.header_array =
                    insert_ordered_array(hp.header_array, new_header)
               /\ new.footer_array =
                    insert_ordered_array(hp.footer_array, new_footer)
               /\ new = [mem |-> new.mem, header_array |-> new.header_array,
                         footer_array |-> new.footer_array]
               /\ new.mem \in [Cells -> Cell]
               /\ new.mem[header] = Header(size, new_footer, 1)
               /\ new.mem[new_footer] = Footer(header)
               /\ new.mem[new_header] =
                    Header(footer - new_header - 1, footer, 0)
               /\ new.mem[footer] = Footer(new_header)
               /\ \A c \in Cells \ {header, new_footer, new_header, footer} :
                    new.mem[c] = hp.mem[c]
<1> DEFINE h == HeaderOf(hp, i)
           f == FooterOf(hp, i)
           nf == h + size + 1
           nh == h + size + 2
           m1 == [hp.mem EXCEPT ![nf] = Footer(h)]
           m2 == [m1 EXCEPT ![nh] = Header(f - nh - 1, f, 0)]
           m3 == [m2 EXCEPT ![f].w0 = nh]
           m4 == [m3 EXCEPT ![h] = Rewritten(@, size, nf, 1)]
<1>1. h \in Cells /\ f \in Cells /\ h \in Nat /\ f \in Nat /\ h < f
  BY TagsApart, TagsOf, CellsAreWords
<1>2. /\ hp.mem[h].w0 = f - h - 1 /\ hp.mem[h].w3 = Magic
      /\ hp.mem[f] = Footer(h)
      /\ hp.mem[h] = Header(f - h - 1, f, hp.mem[h].w2)
  BY TagsOf
<1>3. nh < f /\ nf \in Cells /\ nh \in Cells
  BY <1>1, <1>2, HeapAssumption DEF Cells, HeapEnd, SplitSlack
<1>4. /\ WAdd(WAdd(h, size), 1) = nf
      /\ WAdd(nf, 1) = nh
      /\ WAdd(size, 2) = size + 2
  BY <1>1, <1>2, <1>3, HeapAssumption
  DEF WAdd, Cells, HeapEnd, SplitSlack
<1>5. m1[h] = hp.mem[h]
  BY <1>1, <1>3
<1>6. WSub(m1[h].w0, WAdd(size, 2)) = f - nh - 1
  BY <1>1, <1>2, <1>3, <1>4, <1>5 DEF WSub, SplitSlack
<1>7. Split(hp, h, f, size) =
        [mem |-> m4,
         header_array |-> insert_ordered_array(hp.header_array, nh),
         footer_array |-> insert_ordered_array(hp.footer_array, nf)]
  BY <1>4, <1>6 DEF Split
<1>8. hp.mem \in [Cells -> Cell]
  BY HeapParts
<1>9. f - nh - 1 \in Words /\ f \in Words /\ h \in Words /\ nf \in Words
      /\ nh \in Words /\ size \in Words /\ 0 \in Words
  BY <1>1, <1>3, CellsAreWords, HeapAssumption DEF Words, Cells, HeapEnd
<1>10. /\ Footer(h) \in Cell /\ Footer(nh) \in Cell
       /\ Header(f - nh - 1, f, 0) \in Cell
       /\ Header(size, nf, 1) \in Cell
  BY <1>9 DEF Footer, Header, Cell
<1>11. m1 \in [Cells -> Cell]
  BY <1>8, <1>10
<1>12. m2 \in [Cells -> Cell] /\ m2[f] = Footer(h) /\ m2[h] = hp.mem[h]
  BY <1>1, <1>2, <1>3, <1>5, <1>10, <1>11
<1>13. [m2[f] EXCEPT !.w0 = nh] = Footer(nh)
  BY <1>12 DEF Footer
<1>14. m3 = [m2 EXCEPT ![f] = Footer(nh)]
  BY <1>13
<1>15. m3 \in [Cells -> Cell] /\ m3[h] = hp.mem[h]
  BY <1>1, <1>10, <1>12, <1>14
<1>16. Rewritten(m3[h], size, nf, 1) = Header(size, nf, 1)
  BY <1>2, <1>15 DEF Header, Rewritten
<1>17. m4 = [m3 EXCEPT ![h] = Header(size, nf, 1)]
  BY <1>16
<1>18. /\ m4 \in [Cells -> Cell]
       /\ m4[h] = Header(size, nf, 1)
       /\ m4[nf] = Footer(h)
       /\ m4[nh] = Header(f - nh - 1, f, 0)
       /\ m4[f] = Footer(nh)
       /\ \A c \in Cells \ {h, nf, nh, f} : m4[c] = hp.mem[c]
  <2> HIDE DEF m3
  <2>1. /\ m4 \in [Cells -> Cell] /\ m4[h] = Header(size, nf, 1)
        /\ \A c \in Cells \ {h} : m4[c] = m3[c]
    BY <1>1, <1>10, <1>15, <1>17
  <2> HIDE DEF m4, m2
  <2>2. m3[f] = Footer(nh) /\ \A c \in Cells \ {f} : m3[c] = m2[c]
    BY <1>1, <1>12, <1>14
  <2> HIDE DEF m1
  <2>3. /\ m2[nh] = Header(f - nh - 1, f, 0)
        /\ \A c \in Cells \ {nh} : m2[c] = m1[c]
    BY <1>3, <1>11 DEF m2
  <2>4. m1[nf] = Footer(h) /\ \A c \in Cells \ {nf} : m1[c] = hp.mem[c]
    BY <1>3, <1>8 DEF m1
  <2>5. nf # nh /\ nf # h /\ nf # f /\ nh # h /\ nh # f /\ h # f
    BY <1>1, <1>3
  <2> HIDE DEF nf, nh, h, f
  <2> QED
    BY <1>1, <1>3, <2>1, <2>2, <2>3, <2>4, <2>5
<1> HIDE DEF m1, m2, m3, m4
<1> QED
  BY <1>3, <1>7, <1>18

(* new is hp with block i cut in two at nh: the lower part is used, the    *)
(* upper one, whose header is nh, is free.                                 *)
CutAt(hp, new, i, nh) ==
    LET n == hp.header_array.size
        h == HeaderOf(hp, i)
        f == FooterOf(hp, i)
    IN  /\ new \in Heap
        /\ new.header_array.size = n + 1
        /\ new.footer_array.size = n + 1
        /\ HeaderOf(new, i + 1) = nh
        /\ FooterOf(new, i) = nh - 1
        /\ \A k \in 0 .. i : HeaderOf(new, k) = HeaderOf(hp, k)
        /\ \A k \in i + 2 .. n : HeaderOf(new, k) = HeaderOf(hp, k - 1)
        /\ \A k \in 0 .. i - 1 : FooterOf(new, k) = FooterOf(hp, k)
        /\ \A k \in i + 1 .. n : FooterOf(new, k) = FooterOf(hp, k - 1)
        /\ new.mem[h] = Header(nh - h - 2, nh - 1, 1)
        /\ new.mem[nh - 1] = Footer(h)
        /\ new.mem[nh] = Header(f - nh - 1, f, 0)
        /\ new.mem[f] = Footer(nh)
        /\ \A c \in Cells \ {h, nh - 1, nh, f} : new.mem[c] = hp.mem[c]

LEMMA SplitCuts ==
    ASSUME NEW hp \in Heap, Tiled(hp), NEW i \in Blocks(hp),
           NEW size \in Nat,
           size + 2 + SplitSlack < hp.mem[HeaderOf(hp, i)].w0,
           hp.header_array.size < MaxBlocks
    PROVE  /\ CutAt(hp, Split(hp, HeaderOf(hp, i), FooterOf(hp, i), size),
                    i, HeaderOf(hp, i) + size + 2)
           /\ HeaderOf(hp, i) + size + 2 < FooterOf(hp, i)
<1> DEFINE h == HeaderOf(hp, i)
           f == FooterOf(hp, i)
           nf == h + size + 1
           nh == h + size + 2
           n == hp.header_array.size
           new == Split(hp, h, f, size)
<1>1. n \in Nat /\ hp.footer_array.size = n /\ i \in 0 .. n - 1
  BY HeapParts DEF Tiled, SizesAgree, Blocks
<1>2. \A k \in 0 .. n - 1 : /\ HeaderOf(hp, k) \in Nat
                            /\ FooterOf(hp, k) \in Nat
                            /\ HeaderOf(hp, k) < FooterOf(hp, k)
  BY HeapParts, TagsOf, CellsAreWords DEF Blocks
<1>3. \A k \in 0 .. i - 1 : FooterOf(hp, k) < h
  BY <1>1 DEF Tiled, Ascending, Blocks
<1>4. \A k \in i + 1 .. n - 1 : f < HeaderOf(hp, k)
  BY <1>1 DEF Tiled, Ascending, Blocks
<1>5. /\ nh < f
      /\ nf \in Cells /\ nh \in Cells
      /\ new.header_array = insert_ordered_array(hp.header_array, nh)
      /\ new.footer_array = insert_ordered_array(hp.footer_array, nf)
      /\ new = [mem |-> new.mem, header_array |-> new.header_array,
                footer_array |-> new.footer_array]
      /\ new.mem \in [Cells -> Cell]
      /\ new.mem[h] = Header(size, nf, 1)
      /\ new.mem[nf] = Footer(h)
      /\ new.mem[nh] = Header(f - nh - 1, f, 0)
      /\ new.mem[f] = Footer(nh)
      /\ \A c \in Cells \ {h, nf, nh, f} : new.mem[c] = hp.mem[c]
  BY SplitMemory, Zenon
<1> HIDE DEF new
<1>6. nf \in Words /\ nh \in Words /\ Words \subseteq Int
  BY <1>5, CellsAreWords
<1>7. /\ new.header_array \in OrderedArrays(MaxBlocks, Words)
      /\ new.header_array.size = n + 1
      /\ HeaderOf(new, i + 1) = nh
      /\ \A k \in 0 .. i : HeaderOf(new, k) = HeaderOf(hp, k)
      /\ \A k \in i + 2 .. n : HeaderOf(new, k) = HeaderOf(hp, k - 1)
  <2>1. \A k \in 0 .. i : ~ (nh < hp.header_array.array[k])
    BY <1>1, <1>2, <1>3 DEF HeaderOf
  <2>2. \A k \in i + 1 .. n - 1 : nh < hp.header_array.array[k]
    BY <1>1, <1>2, <1>4, <1>5 DEF HeaderOf
  <2>3. hp.header_array \in OrderedArrays(MaxBlocks, Words)
    BY HeapParts
  <2> DEFINE p == i + 1
  <2>4. p \in 0 .. n /\ MaxBlocks \in Nat
    BY <1>1, HeapAssumption
  <2>5. \A k \in 0 .. p - 1 : ~ (nh < hp.header_array.array[k])
    BY <1>1, <2>1
  <2>6. \A k \in p .. n - 1 : nh < hp.header_array.array[k]
    BY <2>2
  <2> HIDE DEF p, nh
  <2>7. /\ new.header_array \in OrderedArrays(MaxBlocks, Words)
        /\ PutIn(hp.header_array, new.header_array, p, nh)
    BY <1>1, <1>5, <1>6, <2>3, <2>4, <2>5, <2>6, InsertAt
  <2>8. p = i + 1 /\ p - 1 = i /\ p + 1 = i + 2
    BY <1>1 DEF p
  <2> QED
    BY <2>7, <2>8 DEF HeaderOf, PutIn
<1>8. /\ new.footer_array \in OrderedArrays(MaxBlocks, Words)
      /\ new.footer_array.size = n + 1
      /\ FooterOf(new, i) = nf
      /\ \A k \in 0 .. i - 1 : FooterOf(new, k) = FooterOf(hp, k)
      /\ \A k \in i + 1 .. n : FooterOf(new, k) = FooterOf(hp, k - 1)
  <2>1. \A k \in 0 .. i - 1 : ~ (nf < hp.footer_array.array[k])
    BY <1>1, <1>2, <1>3 DEF FooterOf
  <2>2. \A k \in i .. n - 1 : nf < hp.footer_array.array[k]
    <3> SUFFICES ASSUME NEW k \in i .. n - 1 PROVE nf < FooterOf(hp, k)
      BY DEF FooterOf
    <3>1. CASE k = i
      BY <3>1, <1>1, <1>2, <1>5
    <3>2. CASE k # i
      BY <3>2, <1>1, <1>2, <1>4, <1>5
    <3> QED
      BY <3>1, <3>2
  <2>3. hp.footer_array \in OrderedArrays(MaxBlocks, Words)
    BY HeapParts
  <2>4. i \in 0 .. n /\ MaxBlocks \in Nat
    BY <1>1, HeapAssumption
  <2> HIDE DEF nf
  <2>5. /\ new.footer_array \in OrderedArrays(MaxBlocks, Words)
        /\ PutIn(hp.footer_array, new.footer_array, i, nf)
    BY <1>1, <1>5, <1>6, <2>1, <2>2, <2>3, <2>4, InsertAt
  <2> QED
    BY <1>1, <2>5 DEF FooterOf, PutIn
<1>9. new \in Heap
  BY <1>5, <1>7, <1>8 DEF Heap
<1>10. nh - 1 = nf /\ nh - h - 2 = size
  BY <1>1, <1>2
<1> HIDE DEF nh, nf
<1> QED
  BY <1>5, <1>7, <1>8, <1>9, <1>10 DEF CutAt, new, nh

(* Cutting a block keeps the heap tiled.                                   *)
LEMMA CutTiles ==
    ASSUME NEW hp \in Heap, Tiled(hp), NEW i \in Blocks(hp), NEW new,
           NEW nh \in Nat, HeaderOf(hp, i) + 2 <= nh, nh < FooterOf(hp, i),
           CutAt(hp, new, i, nh)
    PROVE  /\ Tiled(new)
           /\ \A k \in Blocks(hp) \ {i} :
                new.mem[HeaderOf(hp, k)] = hp.mem[HeaderOf(hp, k)]
<1> DEFINE h == HeaderOf(hp, i)
           f == FooterOf(hp, i)
           n == hp.header_array.size
<1>1. /\ n \in Nat /\ i \in 0 .. n - 1 /\ i + 1 \in 0 .. n
      /\ Blocks(hp) = 0 .. n - 1
  BY HeapParts DEF Blocks
<1>2. \A k \in 0 .. n - 1 :
        /\ HeaderOf(hp, k) \in Cells /\ FooterOf(hp, k) \in Cells
        /\ HeaderOf(hp, k) \in Nat /\ FooterOf(hp, k) \in Nat
        /\ HeaderOf(hp, k) < FooterOf(hp, k)
        /\ hp.mem[FooterOf(hp, k)] = Footer(HeaderOf(hp, k))
        /\ hp.mem[HeaderOf(hp, k)].w2 \in {0, 1}
        /\ hp.mem[HeaderOf(hp, k)] =
             Header(FooterOf(hp, k) - HeaderOf(hp, k) - 1,
                    FooterOf(hp, k), hp.mem[HeaderOf(hp, k)].w2)
  BY <1>1, TagsApart, TagsOf, CellsAreWords
<1>3. \A j, k \in 0 .. n - 1 : j < k => FooterOf(hp, j) < HeaderOf(hp, k)
  BY <1>1 DEF Tiled, Ascending
<1>4. /\ new.header_array.size = n + 1
      /\ new.footer_array.size = n + 1
      /\ Blocks(new) = 0 .. n
      /\ HeaderOf(new, i + 1) = nh
      /\ FooterOf(new, i) = nh - 1
      /\ \A k \in 0 .. i : HeaderOf(new, k) = HeaderOf(hp, k)
      /\ \A k \in i + 2 .. n : HeaderOf(new, k) = HeaderOf(hp, k - 1)
      /\ \A k \in 0 .. i - 1 : FooterOf(new, k) = FooterOf(hp, k)
      /\ \A k \in i + 1 .. n : FooterOf(new, k) = FooterOf(hp, k - 1)
  <2>1. new.header_array.size = n + 1
    BY DEF CutAt
  <2>2. Blocks(new) = 0 .. n
    BY <1>1, <2>1 DEF Blocks
  <2> QED
    BY <2>2, Zenon DEF CutAt
<1>5. /\ new.mem[h] = Header(nh - h - 2, nh - 1, 1)
      /\ new.mem[nh - 1] = Footer(h)
      /\ new.mem[nh] = Header(f - nh - 1, f, 0)
      /\ new.mem[f] = Footer(nh)
      /\ \A c \in Cells \ {h, nh - 1, nh, f} : new.mem[c] = hp.mem[c]
  BY DEF CutAt
<1>6. ASSUME NEW k \in 0 .. n - 1, k # i
      PROVE  /\ new.mem[HeaderOf(hp, k)] = hp.mem[HeaderOf(hp, k)]
             /\ new.mem[FooterOf(hp, k)] = hp.mem[FooterOf(hp, k)]
  <2>1. k < i \/ i < k
    BY <1>1, <1>6
  <2>2. FooterOf(hp, k) < h \/ f < HeaderOf(hp, k)
    BY <1>1, <1>3, <2>1
  <2>3. HeaderOf(hp, k) \notin {h, nh - 1, nh, f}
        /\ FooterOf(hp, k) \notin {h, nh - 1, nh, f}
    <3>1. h \in Nat /\ f \in Nat /\ h < nh - 1 /\ nh < f
      BY <1>1, <1>2
    <3>2. /\ HeaderOf(hp, k) \in Nat /\ FooterOf(hp, k) \in Nat
          /\ HeaderOf(hp, k) < FooterOf(hp, k)
      BY <1>2
    <3> QED
      BY <2>2, <3>1, <3>2
  <2>4. HeaderOf(hp, k) \in Cells /\ FooterOf(hp, k) \in Cells
    BY <1>2
  <2> QED
    BY <1>5, <2>3, <2>4
<1>7. h \in Nat /\ f \in Nat /\ h < f
  BY <1>1, <1>2
(* Every block of new is one of four kinds.                                *)
<1>8. ASSUME NEW k \in 0 .. n
      PROVE  \/ /\ k < i
                /\ HeaderOf(new, k) = HeaderOf(hp, k)
                /\ FooterOf(new, k) = FooterOf(hp, k)
             \/ k = i /\ HeaderOf(new, k) = h /\ FooterOf(new, k) = nh - 1
             \/ k = i + 1 /\ HeaderOf(new, k) = nh /\ FooterOf(new, k) = f
             \/ /\ k > i + 1 /\ k - 1 \in 0 .. n - 1
                /\ HeaderOf(new, k) = HeaderOf(hp, k - 1)
                /\ FooterOf(new, k) = FooterOf(hp, k - 1)
  <2>1. CASE k < i
    BY <1>1, <1>4, <2>1
  <2>2. CASE k = i
    BY <1>1, <1>4, <2>2
  <2>3. CASE k = i + 1
    <3>1. k \in i + 1 .. n /\ k - 1 = i
      BY <1>1, <2>3
    <3> QED
      BY <1>4, <2>3, <3>1
  <2>4. CASE k > i + 1
    BY <1>1, <1>4, <2>4
  <2> QED
    BY <1>1, <2>1, <2>2, <2>3, <2>4
<1>9. SizesAgree(new)
  BY <1>1, <1>4 DEF SizesAgree
<1>10. Spans(new)
  <2>1. HeaderOf(hp, 0) = HeapStart /\ FooterOf(hp, n - 1) = HeapEnd - 1
    BY DEF Tiled, Spans
  <2>2. HeaderOf(new, 0) = HeapStart
    BY <1>1, <1>4, <2>1
  <2>3. FooterOf(new, n) = HeapEnd - 1
    BY <1>1, <1>4, <2>1
  <2> QED
    BY <1>1, <1>4, <2>2, <2>3 DEF Spans
<1>11. Adjacent(new)
  <2>1. SUFFICES ASSUME NEW k \in 0 .. n, k + 1 \in 0 .. n
                 PROVE  HeaderOf(new, k + 1) = FooterOf(new, k) + 1
    BY <1>4 DEF Adjacent
  <2>2. \A j \in 0 .. n - 1 :
            j + 1 \in 0 .. n - 1 => HeaderOf(hp, j + 1) = FooterOf(hp, j) + 1
    BY <1>1 DEF Tiled, Adjacent
  <2>3. CASE k < i
    BY <1>1, <1>4, <2>1, <2>2, <2>3
  <2>4. CASE k = i
    BY <1>1, <1>4, <2>1, <2>4
  <2>5. CASE k > i
    <3>1. /\ k \in i + 1 .. n /\ k + 1 \in i + 2 .. n
          /\ k - 1 \in 0 .. n - 1 /\ k - 1 + 1 \in 0 .. n - 1
          /\ k - 1 + 1 = k /\ k + 1 - 1 = k
      BY <1>1, <2>1, <2>5, SMTT(30)
    <3>2. /\ FooterOf(new, k) = FooterOf(hp, k - 1)
          /\ HeaderOf(new, k + 1) = HeaderOf(hp, k + 1 - 1)
      BY <1>4, <3>1
    <3>3. HeaderOf(hp, k - 1 + 1) = FooterOf(hp, k - 1) + 1
      BY <2>2, <3>1
    <3> QED
      BY <3>1, <3>2, <3>3
  <2> QED
    BY <1>1, <2>3, <2>4, <2>5
<1>12. Ascending(new)
  <2>1. SUFFICES ASSUME NEW j \in 0 .. n, NEW k \in 0 .. n, j < k
                 PROVE  FooterOf(new, j) < HeaderOf(new, k)
    BY <1>4 DEF Ascending
  <2>2. CASE j < i
    <3>0. j \in 0 .. n - 1 /\ j \in 0 .. i - 1
      BY <1>1, <2>2
    <3>1. /\ FooterOf(new, j) = FooterOf(hp, j)
          /\ FooterOf(hp, j) < h /\ FooterOf(hp, j) \in Nat
      BY <1>1, <1>2, <1>3, <1>4, <2>2, <3>0
    <3>2. CASE k <= i
      <4>1. k \in 0 .. i /\ k \in 0 .. n - 1
        BY <1>1, <3>2
      <4>2. HeaderOf(new, k) = HeaderOf(hp, k)
        BY <1>4, <4>1
      <4>3. FooterOf(hp, j) < HeaderOf(hp, k)
        BY <1>3, <2>1, <3>0, <4>1
      <4> QED
        BY <3>1, <4>2, <4>3
    <3>3. CASE k = i + 1
      BY <1>4, <1>7, <3>1, <3>3
    <3>4. CASE k > i + 1
      <4>1. k - 1 \in 0 .. n - 1 /\ j < k - 1 /\ k \in i + 2 .. n
        BY <1>1, <2>2, <3>4
      <4>2. HeaderOf(new, k) = HeaderOf(hp, k - 1)
        BY <1>4, <4>1
      <4> QED
        BY <1>3, <3>0, <3>1, <4>1, <4>2
    <3> QED
      BY <1>1, <3>2, <3>3, <3>4
  <2>3. CASE j = i
    <3>1. FooterOf(new, j) = nh - 1 /\ nh < f
      BY <1>4, <2>3
    <3>2. CASE k = i + 1
      BY <1>4, <3>1, <3>2
    <3>3. CASE k > i + 1
      <4>1. k - 1 \in 0 .. n - 1 /\ i < k - 1 /\ k \in i + 2 .. n
        BY <1>1, <3>3
      <4>2. HeaderOf(new, k) = HeaderOf(hp, k - 1)
        BY <1>4, <4>1
      <4>3. f < HeaderOf(hp, k - 1) /\ HeaderOf(hp, k - 1) \in Nat
        BY <1>1, <1>2, <1>3, <4>1
      <4> QED
        BY <1>7, <3>1, <4>2, <4>3
    <3> QED
      BY <1>1, <2>1, <2>3, <3>2, <3>3
  <2>4. CASE j > i
    <3>1. /\ j - 1 \in 0 .. n - 1 /\ k - 1 \in 0 .. n - 1 /\ j - 1 < k - 1
          /\ j \in i + 1 .. n /\ k \in i + 2 .. n
      BY <1>1, <2>1, <2>4
    <3>2. /\ FooterOf(new, j) = FooterOf(hp, j - 1)
          /\ HeaderOf(new, k) = HeaderOf(hp, k - 1)
      BY <1>4, <3>1
    <3>3. FooterOf(hp, j - 1) < HeaderOf(hp, k - 1)
      BY <1>3, <3>1
    <3> QED
      BY <3>2, <3>3
  <2> QED
    BY <1>1, <2>2, <2>3, <2>4
<1>13. Tagged(new)
  <2> DEFINE Good(h0, f0) ==
        /\ HeapStart <= h0 /\ h0 < f0 /\ f0 < HeapEnd
        /\ new.mem[f0] = Footer(h0)
        /\ \E u \in {0, 1} : new.mem[h0] = Header(f0 - h0 - 1, f0, u)
  <2>1. SUFFICES ASSUME NEW k \in 0 .. n
                 PROVE  Good(HeaderOf(new, k), FooterOf(new, k))
    BY <1>4 DEF Tagged
  <2>2. \A j \in 0 .. n - 1 : HeapStart <= HeaderOf(hp, j)
                              /\ FooterOf(hp, j) < HeapEnd
    BY <1>1 DEF Tiled, Tagged
  <2>3. \A j \in 0 .. n - 1 : j # i => Good(HeaderOf(hp, j), FooterOf(hp, j))
    BY <1>2, <1>6, <2>2
  <2>4. Good(h, nh - 1)
    <3>1. nh - 1 - h - 1 = nh - h - 2 /\ h < nh - 1 /\ nh - 1 < f
      BY <1>7
    <3>2. HeapStart <= h /\ f < HeapEnd
      BY <1>1, <2>2
    <3>3. nh - 1 < HeapEnd
      BY <1>7, <3>1, <3>2, HeapAssumption DEF HeapEnd
    <3> QED
      BY <1>5, <3>1, <3>2, <3>3
  <2>5. Good(nh, f)
    <3>1. HeapStart <= h /\ f < HeapEnd
      BY <1>1, <2>2
    <3>2. HeapStart <= nh
      BY <1>7, <3>1, HeapAssumption
    <3> QED
      BY <1>5, <3>1, <3>2
  <2> HIDE DEF Good
  <2> QED
    BY <1>1, <1>8, <2>3, <2>4, <2>5
<1> QED
  BY <1>1, <1>6, <1>9, <1>10, <1>11, <1>12, <1>13 DEF Tiled
-----------------------------------------------------------------------------
(* m is the memory of hp with blocks k and k + 1 made one                  *)
MergedMemory(hp, m, k) ==
    LET h == HeaderOf(hp, k)
        f == FooterOf(hp, k + 1)
    IN  /\ m \in [Cells -> Cell]
        /\ m[h] = Header(f - h - 1, f, hp.mem[h].w2)
        /\ m[f] = Footer(h)
        /\ \A c \in Cells \ {h, FooterOf(hp, k), HeaderOf(hp, k + 1), f} :
              m[c] = hp.mem[c]

(* new is hp with blocks k and k + 1 made one; it keeps the used mark of   *)
(* block k.                                                                *)
MergedAt(hp, new, k) ==
    LET n == hp.header_array.size
    IN  /\ new \in Heap
        /\ new.header_array.size = n - 1
        /\ new.footer_array.size = n - 1
        /\ \A j \in 0 .. k : HeaderOf(new, j) = HeaderOf(hp, j)
        /\ \A j \in k + 1 .. n - 2 : HeaderOf(new, j) = HeaderOf(hp, j + 1)
        /\ \A j \in 0 .. k - 1 : FooterOf(new, j) = FooterOf(hp, j)
        /\ \A j \in k .. n - 2 : FooterOf(new, j) = FooterOf(hp, j + 1)
        /\ MergedMemory(hp, new.mem, k)

(* Merging two neighbours keeps the heap tiled.                            *)
LEMMA MergeTiles ==
    ASSUME NEW hp \in Heap, Tiled(hp), NEW k \in Blocks(hp),
           k + 1 \in Blocks(hp), NEW new, MergedAt(hp, new, k)
    PROVE  /\ Tiled(new)
           /\ \A j \in Blocks(hp) \ {k, k + 1} :
                new.mem[HeaderOf(hp, j)] = hp.mem[HeaderOf(hp, j)]
<1> DEFINE n == hp.header_array.size
           h == HeaderOf(hp, k)
           f == FooterOf(hp, k + 1)
<1>1. /\ n \in Nat /\ k \in 0 .. n - 2 /\ k + 1 \in 0 .. n - 1
      /\ Blocks(hp) = 0 .. n - 1 /\ k \in 0 .. n - 1
  BY HeapParts DEF Blocks
<1>2. \A j \in 0 .. n - 1 :
        /\ HeaderOf(hp, j) \in Cells /\ FooterOf(hp, j) \in Cells
        /\ HeaderOf(hp, j) \in Nat /\ FooterOf(hp, j) \in Nat
        /\ HeaderOf(hp, j) < FooterOf(hp, j)
        /\ hp.mem[FooterOf(hp, j)] = Footer(HeaderOf(hp, j))
        /\ hp.mem[HeaderOf(hp, j)].w2 \in {0, 1}
        /\ hp.mem[HeaderOf(hp, j)] =
             Header(FooterOf(hp, j) - HeaderOf(hp, j) - 1,
                    FooterOf(hp, j), hp.mem[HeaderOf(hp, j)].w2)
  BY <1>1, TagsApart, TagsOf, CellsAreWords
<1>3. \A i, j \in 0 .. n - 1 : i < j => FooterOf(hp, i) < HeaderOf(hp, j)
  BY <1>1 DEF Tiled, Ascending
<1>4. /\ new.header_array.size = n - 1
      /\ new.footer_array.size = n - 1
      /\ Blocks(new) = 0 .. n - 2
      /\ \A j \in 0 .. k : HeaderOf(new, j) = HeaderOf(hp, j)
      /\ \A j \in k + 1 .. n - 2 : HeaderOf(new, j) = HeaderOf(hp, j + 1)
      /\ \A j \in 0 .. k - 1 : FooterOf(new, j) = FooterOf(hp, j)
      /\ \A j \in k .. n - 2 : FooterOf(new, j) = FooterOf(hp, j + 1)
  <2>1. new.header_array.size = n - 1
    BY DEF MergedAt
  <2>2. Blocks(new) = 0 .. n - 2
    BY <1>1, <2>1 DEF Blocks
  <2> QED
    BY <2>2, Zenon DEF MergedAt
<1>5. /\ new.mem[h] = Header(f - h - 1, f, hp.mem[h].w2)
      /\ new.mem[f] = Footer(h)
      /\ \A c \in Cells \ {h, FooterOf(hp, k), HeaderOf(hp, k + 1), f} :
            new.mem[c] = hp.mem[c]
  BY DEF MergedAt, MergedMemory
<1>6. ASSUME NEW j \in 0 .. n - 1, j # k, j # k + 1
      PROVE  /\ new.mem[HeaderOf(hp, j)] = hp.mem[HeaderOf(hp, j)]
             /\ new.mem[FooterOf(hp, j)] = hp.mem[FooterOf(hp, j)]
  <2>1. /\ \A i \in Blocks(hp) :
             /\ HeaderOf(hp, j) # FooterOf(hp, i)
             /\ HeaderOf(hp, i) # FooterOf(hp, j)
             /\ j # i => /\ HeaderOf(hp, j) # HeaderOf(hp, i)
                         /\ FooterOf(hp, j) # FooterOf(hp, i)
    BY <1>1, TagsApart
  <2>2. /\ HeaderOf(hp, j) \notin {h, FooterOf(hp, k), HeaderOf(hp, k + 1), f}
        /\ FooterOf(hp, j) \notin {h, FooterOf(hp, k), HeaderOf(hp, k + 1), f}
    BY <1>1, <1>6, <2>1
  <2>3. HeaderOf(hp, j) \in Cells /\ FooterOf(hp, j) \in Cells
    BY <1>2
  <2> QED
    BY <1>5, <2>2, <2>3
<1>7. h \in Nat /\ f \in Nat /\ h < f
  <2>1. /\ HeaderOf(hp, k) < FooterOf(hp, k)
        /\ FooterOf(hp, k) < HeaderOf(hp, k + 1)
        /\ HeaderOf(hp, k + 1) < FooterOf(hp, k + 1)
        /\ HeaderOf(hp, k) \in Nat /\ FooterOf(hp, k) \in Nat
        /\ HeaderOf(hp, k + 1) \in Nat /\ FooterOf(hp, k + 1) \in Nat
    BY <1>1, <1>2, <1>3
  <2> QED
    BY <2>1
(* Every block of new is one of three kinds.                               *)
<1>8. ASSUME NEW j \in 0 .. n - 2
      PROVE  \/ /\ j < k
                /\ HeaderOf(new, j) = HeaderOf(hp, j)
                /\ FooterOf(new, j) = FooterOf(hp, j)
             \/ j = k /\ HeaderOf(new, j) = h /\ FooterOf(new, j) = f
             \/ /\ j > k /\ j + 1 \in 0 .. n - 1
                /\ HeaderOf(new, j) = HeaderOf(hp, j + 1)
                /\ FooterOf(new, j) = FooterOf(hp, j + 1)
  <2>1. CASE j < k
    BY <1>1, <1>4, <2>1
  <2>2. CASE j = k
    BY <1>1, <1>4, <2>2
  <2>3. CASE j > k
    BY <1>1, <1>4, <2>3
  <2> QED
    BY <1>1, <2>1, <2>2, <2>3
<1>9. SizesAgree(new)
  BY <1>1, <1>4 DEF SizesAgree
<1>10. Spans(new)
  <2>1. HeaderOf(hp, 0) = HeapStart /\ FooterOf(hp, n - 1) = HeapEnd - 1
    BY DEF Tiled, Spans
  <2>2. HeaderOf(new, 0) = HeapStart
    BY <1>1, <1>4, <2>1
  <2>3. FooterOf(new, n - 2) = HeapEnd - 1
    <3>1. n - 2 \in k .. n - 2 /\ n - 2 + 1 = n - 1
      BY <1>1
    <3> QED
      BY <1>4, <2>1, <3>1
  <2>4. n - 1 - 1 = n - 2
    BY <1>1
  <2> QED
    BY <1>4, <2>2, <2>3, <2>4 DEF Spans
<1>11. Adjacent(new)
  <2>1. SUFFICES ASSUME NEW j \in 0 .. n - 2, j + 1 \in 0 .. n - 2
                 PROVE  HeaderOf(new, j + 1) = FooterOf(new, j) + 1
    BY <1>4 DEF Adjacent
  <2>2. \A i \in 0 .. n - 1 :
            i + 1 \in 0 .. n - 1 => HeaderOf(hp, i + 1) = FooterOf(hp, i) + 1
    BY <1>1 DEF Tiled, Adjacent
  <2>3. CASE j < k
    BY <1>1, <1>4, <2>1, <2>2, <2>3
  <2>4. CASE j >= k
    <3>1. /\ j \in k .. n - 2 /\ j + 1 \in k + 1 .. n - 2
          /\ j + 1 \in 0 .. n - 1 /\ j + 1 + 1 \in 0 .. n - 1
      BY <1>1, <2>1, <2>4
    <3>2. /\ FooterOf(new, j) = FooterOf(hp, j + 1)
          /\ HeaderOf(new, j + 1) = HeaderOf(hp, j + 1 + 1)
      BY <1>4, <3>1
    <3> QED
      BY <2>2, <3>1, <3>2
  <2> QED
    BY <1>1, <2>3, <2>4
<1>12. Ascending(new)
  <2>1. SUFFICES ASSUME NEW i \in 0 .. n - 2, NEW j \in 0 .. n - 2, i < j
                 PROVE  FooterOf(new, i) < HeaderOf(new, j)
    BY <1>4 DEF Ascending
  <2>2. \E i0 \in 0 .. n - 1 : /\ FooterOf(new, i) = FooterOf(hp, i0)
                               /\ i0 <= i + 1 /\ (i < k => i0 = i)
    BY <1>1, <1>8
  <2>3. \E j0 \in 0 .. n - 1 : /\ HeaderOf(new, j) = HeaderOf(hp, j0)
                               /\ j0 >= j /\ (j > k => j0 = j + 1)
    BY <1>1, <1>8
  <2>4. PICK i0 \in 0 .. n - 1 : /\ FooterOf(new, i) = FooterOf(hp, i0)
                                 /\ i0 <= i + 1 /\ (i < k => i0 = i)
    BY <2>2
  <2>5. PICK j0 \in 0 .. n - 1 : /\ HeaderOf(new, j) = HeaderOf(hp, j0)
                                 /\ j0 >= j /\ (j > k => j0 = j + 1)
    BY <2>3
  <2>6. i0 < j0
    BY <1>1, <2>1, <2>4, <2>5
  <2> QED
    BY <1>3, <2>4, <2>5, <2>6
<1>13. Tagged(new)
  <2> DEFINE Good(h0, f0) ==
        /\ HeapStart <= h0 /\ h0 < f0 /\ f0 < HeapEnd
        /\ new.mem[f0] = Footer(h0)
        /\ \E u \in {0, 1} : new.mem[h0] = Header(f0 - h0 - 1, f0, u)
  <2>1. SUFFICES ASSUME NEW j \in 0 .. n - 2
                 PROVE  Good(HeaderOf(new, j), FooterOf(new, j))
    BY <1>4 DEF Tagged
  <2>2. \A i \in 0 .. n - 1 : HeapStart <= HeaderOf(hp, i)
                              /\ FooterOf(hp, i) < HeapEnd
    BY <1>1 DEF Tiled, Tagged
  <2>3. \A i \in 0 .. n - 1 : i # k /\ i # k + 1 =>
            Good(HeaderOf(hp, i), FooterOf(hp, i))
    BY <1>2, <1>6, <2>2
  <2>4. Good(h, f)
    <3>1. HeapStart <= h /\ f < HeapEnd /\ hp.mem[h].w2 \in {0, 1}
      BY <1>1, <1>2, <2>2
    <3> QED
      BY <1>5, <1>7, <3>1
  <2> HIDE DEF Good
  <2> QED
    BY <1>1, <1>8, <2>3, <2>4
<1> QED
  BY <1>1, <1>6, <1>9, <1>10, <1>11, <1>12, <1>13 DEF Tiled

(* The writes of unify_left and unify_right: the two inner tags a and b    *)
(* are cleared in one order or the other.                                  *)
MergeWrites(hp, k, a, b) ==
    LET h == HeaderOf(hp, k)
        f == FooterOf(hp, k + 1)
        size == WAdd(WAdd(hp.mem[h].w0, hp.mem[HeaderOf(hp, k + 1)].w0), 2)
        m1 == [hp.mem EXCEPT ![h] = Rewritten(@, size, f, @.w2)]
        m2 == [m1 EXCEPT ![f].w0 = h]
        m3 == [m2 EXCEPT ![a] = Blank]
    IN  [m3 EXCEPT ![b] = Blank]

LEMMA MergeMemory ==
    ASSUME NEW hp \in Heap, Tiled(hp), NEW k \in Blocks(hp),
           k + 1 \in Blocks(hp), NEW a, NEW b,
           \/ a = FooterOf(hp, k) /\ b = HeaderOf(hp, k + 1)
           \/ b = FooterOf(hp, k) /\ a = HeaderOf(hp, k + 1)
    PROVE  MergedMemory(hp, MergeWrites(hp, k, a, b), k)
<1> DEFINE h == HeaderOf(hp, k)
           f == FooterOf(hp, k + 1)
           u == hp.mem[h].w2
           size == f - h - 1
           m1 == [hp.mem EXCEPT ![h] = Header(size, f, u)]
           m2 == [m1 EXCEPT ![f] = Footer(h)]
           m3 == [m2 EXCEPT ![a] = Blank]
           m4 == [m3 EXCEPT ![b] = Blank]
<1>1. /\ h \in Cells /\ f \in Cells /\ h \in Nat /\ f \in Nat
      /\ FooterOf(hp, k) \in Cells /\ HeaderOf(hp, k + 1) \in Cells
      /\ FooterOf(hp, k) \in Nat
  BY TagsApart, CellsAreWords
<1>2. /\ h # f /\ a # b /\ a # h /\ a # f /\ b # h /\ b # f
      /\ a \in Cells /\ b \in Cells
      /\ {h, a, b, f} = {h, FooterOf(hp, k), HeaderOf(hp, k + 1), f}
  <2>1. k # k + 1
    BY DEF Blocks
  <2> QED
    BY <1>1, <2>1, TagsApart
<1>3. /\ hp.mem[h].w0 = FooterOf(hp, k) - h - 1
      /\ hp.mem[h].w3 = Magic /\ u \in {0, 1}
      /\ hp.mem[HeaderOf(hp, k + 1)].w0 = f - HeaderOf(hp, k + 1) - 1
      /\ hp.mem[f] = Footer(HeaderOf(hp, k + 1))
      /\ h < FooterOf(hp, k) /\ HeaderOf(hp, k + 1) < f
  BY TagsOf
<1>4. HeaderOf(hp, k + 1) = FooterOf(hp, k) + 1
  BY DEF Tiled, Adjacent
<1>5. size \in Words /\ f < Word /\ h < f
  BY <1>1, <1>3, <1>4, HeapAssumption DEF Words, Cells, HeapEnd
<1>6. WAdd(WAdd(hp.mem[h].w0, hp.mem[HeaderOf(hp, k + 1)].w0), 2) = size
  BY <1>1, <1>3, <1>4, <1>5, HeapAssumption DEF WAdd, Words
<1>7. Rewritten(hp.mem[h], size, f, u) = Header(size, f, u)
  BY <1>3 DEF Rewritten, Header
<1>8. hp.mem \in [Cells -> Cell]
  BY HeapParts
<1>9. Header(size, f, u) \in Cell /\ Footer(h) \in Cell /\ Blank \in Cell
  BY <1>1, <1>3, <1>5, CellsAreWords DEF Header, Footer, Blank, Cell
<1>10. m1 \in [Cells -> Cell] /\ m1[f] = Footer(HeaderOf(hp, k + 1))
  BY <1>1, <1>2, <1>3, <1>8, <1>9
<1>11. [m1[f] EXCEPT !.w0 = h] = Footer(h)
  <2> HIDE DEF m1, h, f
  <2> QED
    BY <1>10 DEF Footer
<1>12. MergeWrites(hp, k, a, b) = m4
  <2> DEFINE w == WAdd(WAdd(hp.mem[h].w0, hp.mem[HeaderOf(hp, k + 1)].w0), 2)
             x1 == [hp.mem EXCEPT ![h] = Rewritten(hp.mem[h], w, f, u)]
             x2 == [x1 EXCEPT ![f] = [x1[f] EXCEPT !.w0 = h]]
             x3 == [x2 EXCEPT ![a] = Blank]
  <2>1. MergeWrites(hp, k, a, b) = [x3 EXCEPT ![b] = Blank]
    BY DEF MergeWrites
  <2>2. w = size
    BY <1>6
  <2> HIDE DEF w, size
  <2>3. x1 = m1
    BY <1>7, <2>2
  <2> HIDE DEF x1, m1
  <2>4. x2 = m2
    BY <1>11, <2>3
  <2> HIDE DEF x2, m2
  <2> QED
    BY <2>1, <2>4
<1>13. /\ m1[h] = Header(size, f, u)
       /\ \A c \in Cells \ {h} : m1[c] = hp.mem[c]
  BY <1>1, <1>8
<1> HIDE DEF m1
<1>14. /\ m2 \in [Cells -> Cell] /\ m2[f] = Footer(h)
       /\ \A c \in Cells \ {f} : m2[c] = m1[c]
  BY <1>1, <1>9, <1>10
<1> HIDE DEF m2
<1>15. /\ m3 \in [Cells -> Cell]
       /\ \A c \in Cells \ {a} : m3[c] = m2[c]
  BY <1>2, <1>9, <1>14
<1> HIDE DEF m3
<1>16. /\ m4 \in [Cells -> Cell]
       /\ \A c \in Cells \ {b} : m4[c] = m3[c]
  BY <1>2, <1>9, <1>15
<1> HIDE DEF m4, size, h, f, u
<1>17. m4[h] = Header(size, f, u) /\ m4[f] = Footer(h)
  BY <1>1, <1>2, <1>13, <1>14, <1>15, <1>16
<1>18. \A c \in Cells \ {h, a, b, f} : m4[c] = hp.mem[c]
  BY <1>13, <1>14, <1>15, <1>16
<1> QED
  BY <1>2, <1>12, <1>16, <1>17, <1>18 DEF h, f, size, u, MergedMemory

(* A heap made by those writes and the two removals is merged.             *)
LEMMA WritesMerge ==
    ASSUME NEW hp \in Heap, Tiled(hp), NEW k \in Blocks(hp),
           k + 1 \in Blocks(hp), NEW a, NEW b,
           \/ a = FooterOf(hp, k) /\ b = HeaderOf(hp, k + 1)
           \/ b = FooterOf(hp, k) /\ a = HeaderOf(hp, k + 1)
    PROVE  MergedAt(hp,
             [mem |-> MergeWrites(hp, k, a, b),
              header_array |-> remove_ordered_array(hp.header_array, k + 1),
              footer_array |-> remove_ordered_array(hp.footer_array, k)],
             k)
<1> DEFINE m == MergeWrites(hp, k, a, b)
           ha == remove_ordered_array(hp.header_array, k + 1)
           fa == remove_ordered_array(hp.footer_array, k)
           new == [mem |-> m, header_array |-> ha, footer_array |-> fa]
           n == hp.header_array.size
<1>1. MergedMemory(hp, m, k) /\ m \in [Cells -> Cell]
  BY MergeMemory DEF MergedMemory
<1> HIDE DEF m
<1>2. /\ n \in Nat /\ hp.footer_array.size = n
      /\ k \in 0 .. n - 1 /\ k + 1 \in 0 .. n - 1 /\ MaxBlocks \in Nat
  BY HeapParts, HeapAssumption DEF Tiled, SizesAgree, Blocks
<1>3. /\ hp.header_array \in OrderedArrays(MaxBlocks, Words)
      /\ hp.footer_array \in OrderedArrays(MaxBlocks, Words)
      /\ 0 \in Words
  BY HeapParts, CellsAreWords
<1>4. /\ ha \in OrderedArrays(MaxBlocks, Words)
      /\ TakenOut(hp.header_array, ha, k + 1)
  BY <1>2, <1>3, RemoveAt
<1>5. /\ fa \in OrderedArrays(MaxBlocks, Words)
      /\ TakenOut(hp.footer_array, fa, k)
  BY <1>2, <1>3, RemoveAt
<1> HIDE DEF ha, fa
<1>6. new \in Heap
  BY <1>1, <1>4, <1>5 DEF Heap
<1>7. /\ new.header_array.size = n - 1 /\ new.footer_array.size = n - 1
      /\ \A j \in 0 .. k : HeaderOf(new, j) = HeaderOf(hp, j)
      /\ \A j \in k + 1 .. n - 2 : HeaderOf(new, j) = HeaderOf(hp, j + 1)
      /\ \A j \in 0 .. k - 1 : FooterOf(new, j) = FooterOf(hp, j)
      /\ \A j \in k .. n - 2 : FooterOf(new, j) = FooterOf(hp, j + 1)
  <2>1. k + 1 - 1 = k
    BY <1>2
  <2> QED
    BY <1>2, <1>4, <1>5, <2>1 DEF HeaderOf, FooterOf, TakenOut
<1>8. new.mem = m
  OBVIOUS
<1> HIDE DEF new
<1>9. MergedAt(hp, new, k)
  BY <1>1, <1>6, <1>7, <1>8 DEF MergedAt
<1> QED
  BY <1>9 DEF new, m, ha, fa

(* Which blocks of a merged heap are used.                                 *)
LEMMA MergeIndex ==
    ASSUME NEW hp \in Heap, Tiled(hp), NEW k \in Blocks(hp),
           k + 1 \in Blocks(hp), NEW new, MergedAt(hp, new, k)
    PROVE  /\ Blocks(new) = 0 .. hp.header_array.size - 2
           /\ k \in Blocks(new)
           /\ HeaderOf(new, k) = HeaderOf(hp, k)
           /\ FooterOf(new, k) = FooterOf(hp, k + 1)
           /\ \A j \in 0 .. k : /\ HeaderOf(new, j) = HeaderOf(hp, j)
                                /\ IsUsed(new, j) <=> IsUsed(hp, j)
           /\ \A j \in k + 1 .. hp.header_array.size - 2 :
                /\ HeaderOf(new, j) = HeaderOf(hp, j + 1)
                /\ IsUsed(new, j) <=> IsUsed(hp, j + 1)
<1> DEFINE n == hp.header_array.size
<1>1. /\ n \in Nat /\ k \in 0 .. n - 2 /\ k + 1 \in 0 .. n - 1
      /\ Blocks(hp) = 0 .. n - 1 /\ k \in 0 .. n - 1
  BY HeapParts DEF Blocks
<1>2. /\ new.header_array.size = n - 1
      /\ \A j \in 0 .. k : HeaderOf(new, j) = HeaderOf(hp, j)
      /\ \A j \in k + 1 .. n - 2 : HeaderOf(new, j) = HeaderOf(hp, j + 1)
      /\ \A j \in k .. n - 2 : FooterOf(new, j) = FooterOf(hp, j + 1)
  BY DEF MergedAt
<1>3. Blocks(new) = 0 .. n - 2
  BY <1>1, <1>2 DEF Blocks
<1>4. \A j \in Blocks(hp) \ {k, k + 1} :
            new.mem[HeaderOf(hp, j)] = hp.mem[HeaderOf(hp, j)]
  BY MergeTiles
<1>5. new.mem[HeaderOf(hp, k)].w2 = hp.mem[HeaderOf(hp, k)].w2
  BY DEF MergedAt, MergedMemory, Header
<1>6. ASSUME NEW j \in 0 .. k
      PROVE  HeaderOf(new, j) = HeaderOf(hp, j)
             /\ (IsUsed(new, j) <=> IsUsed(hp, j))
  <2>1. CASE j = k
    BY <1>2, <1>5, <2>1 DEF IsUsed
  <2>2. CASE j # k
    <3>1. j \in Blocks(hp) \ {k, k + 1}
      BY <1>1, <2>2
    <3> QED
      BY <1>2, <1>4, <3>1 DEF IsUsed
  <2> QED
    BY <2>1, <2>2
<1>7. ASSUME NEW j \in k + 1 .. n - 2
      PROVE  HeaderOf(new, j) = HeaderOf(hp, j + 1)
             /\ (IsUsed(new, j) <=> IsUsed(hp, j + 1))
  <2>1. j + 1 \in Blocks(hp) \ {k, k + 1}
    BY <1>1
  <2> QED
    BY <1>2, <1>4, <2>1 DEF IsUsed
<1> QED
  BY <1>1, <1>2, <1>3, <1>6, <1>7

(* Some used block has its header at x.                                    *)
UsedAt(hp, x) == \E i \in Blocks(hp) : HeaderOf(hp, i) = x /\ IsUsed(hp, i)

(* From hp to new only the block at x, which is at y afterwards, changes.  *)
OthersKept(hp, x, new, y) ==
    \A z : /\ UsedAt(new, z) /\ z # y <=> UsedAt(hp, z) /\ z # x
           /\ UsedAt(hp, z) /\ z # x => new.mem[z] = hp.mem[z]

(* Every block but the one at k has been coalesced with its neighbours.    *)
CoalescedBut(hp, k) ==
    \A j \in Blocks(hp) : j + 1 \in Blocks(hp) /\ j # k /\ j + 1 # k =>
        IsUsed(hp, j) \/ IsUsed(hp, j + 1)

(* Merging block k with a free neighbour leaves the other used blocks.     *)
LEMMA MergeKeepsOthers ==
    ASSUME NEW hp \in Heap, Tiled(hp), NEW k \in Blocks(hp),
           k + 1 \in Blocks(hp), NEW new, MergedAt(hp, new, k)
    PROVE  /\ ~ IsUsed(hp, k) =>
                OthersKept(hp, HeaderOf(hp, k + 1), new, HeaderOf(hp, k))
           /\ ~ IsUsed(hp, k + 1) =>
                OthersKept(hp, HeaderOf(hp, k), new, HeaderOf(hp, k))
<1> DEFINE n == hp.header_array.size
           h == HeaderOf(hp, k)
           g == HeaderOf(hp, k + 1)
<1>1. /\ n \in Nat /\ k \in 0 .. n - 2 /\ k + 1 \in 0 .. n - 1
      /\ Blocks(hp) = 0 .. n - 1 /\ k \in 0 .. n - 1
  BY HeapParts DEF Blocks
<1>2. Blocks(new) = 0 .. n - 2
  BY MergeIndex
<1>3. \A j \in 0 .. k : /\ HeaderOf(new, j) = HeaderOf(hp, j)
                        /\ IsUsed(new, j) <=> IsUsed(hp, j)
  BY MergeIndex
<1>4. \A j \in k + 1 .. n - 2 : /\ HeaderOf(new, j) = HeaderOf(hp, j + 1)
                                /\ IsUsed(new, j) <=> IsUsed(hp, j + 1)
  BY MergeIndex
<1>5. \A j \in 0 .. n - 1 : /\ j # k => HeaderOf(hp, j) # h
                            /\ j # k + 1 => HeaderOf(hp, j) # g
  BY <1>1, TagsApart
<1>6. ASSUME NEW z, UsedAt(new, z), z # h
      PROVE  UsedAt(hp, z) /\ z # g
  <2>1. PICK j \in 0 .. n - 2 : HeaderOf(new, j) = z /\ IsUsed(new, j)
    BY <1>2, <1>6 DEF UsedAt
  <2>2. CASE j <= k
    <3>1. j \in 0 .. k /\ j # k + 1 /\ j \in 0 .. n - 1
      BY <1>1, <2>2
    <3> QED
      BY <1>1, <1>3, <1>5, <2>1, <3>1 DEF UsedAt
  <2>3. CASE j > k
    <3>1. j \in k + 1 .. n - 2 /\ j + 1 # k + 1 /\ j + 1 \in 0 .. n - 1
      BY <1>1, <2>3
    <3> QED
      BY <1>1, <1>4, <1>5, <2>1, <3>1 DEF UsedAt
  <2> QED
    BY <1>1, <2>2, <2>3
<1>7. ASSUME NEW z, UsedAt(hp, z), z # h, z # g
      PROVE  UsedAt(new, z) /\ new.mem[z] = hp.mem[z]
  <2>1. PICK j \in 0 .. n - 1 : HeaderOf(hp, j) = z /\ IsUsed(hp, j)
    BY <1>1, <1>7 DEF UsedAt
  <2>2. j # k /\ j # k + 1
    BY <1>7, <2>1
  <2>3. new.mem[z] = hp.mem[z]
    BY <1>1, <2>1, <2>2, MergeTiles
  <2>4. CASE j < k
    <3>1. j \in 0 .. k /\ j \in 0 .. n - 2
      BY <1>1, <2>4
    <3> QED
      BY <1>2, <1>3, <2>1, <2>3, <3>1 DEF UsedAt
  <2>5. CASE j > k
    <3>1. j - 1 \in k + 1 .. n - 2 /\ j - 1 + 1 = j /\ j - 1 \in 0 .. n - 2
      BY <1>1, <2>2, <2>5
    <3> QED
      BY <1>2, <1>4, <2>1, <2>3, <3>1 DEF UsedAt
  <2> QED
    BY <1>1, <2>2, <2>4, <2>5
<1>8. ~ IsUsed(hp, k) => ~ UsedAt(hp, h)
  BY <1>1, <1>5 DEF UsedAt
<1>9. ~ IsUsed(hp, k + 1) => ~ UsedAt(hp, g)
  BY <1>1, <1>5 DEF UsedAt
<1> HIDE DEF h, g
<1>10. ~ IsUsed(hp, k) => OthersKept(hp, g, new, h)
  BY <1>6, <1>7, <1>8 DEF OthersKept
<1>11. ~ IsUsed(hp, k + 1) => OthersKept(hp, h, new, h)
  BY <1>6, <1>7, <1>9 DEF OthersKept
<1> QED
  BY <1>10, <1>11 DEF h, g

(* The block at index k of hp, with header h and footer f, is the one that *)
(* is being freed: all others are coalesced already.                       *)
Freeing(hp, k, h, f) ==
    /\ hp \in Heap
    /\ Tiled(hp)
    /\ k \in Blocks(hp)
    /\ HeaderOf(hp, k) = h
    /\ FooterOf(hp, k) = f
    /\ CoalescedBut(hp, k)

LEMMA FindHeader ==
    ASSUME NEW hp \in Heap, Tiled(hp), NEW i \in Blocks(hp)
    PROVE  find_ordered_array(hp.header_array, HeaderOf(hp, i)) = i
<1>1. hp.header_array \in OrderedArrays(MaxBlocks, Words)
  BY HeapParts
<1>2. \A k \in 0 .. hp.header_array.size - 1 :
        hp.header_array.array[k] = hp.header_array.array[i] => k = i
  BY TagsApart DEF Blocks, HeaderOf
<1>3. i \in 0 .. hp.header_array.size - 1 /\ MaxBlocks \in Nat
  BY HeapAssumption DEF Blocks
<1>4. find_ordered_array(hp.header_array, hp.header_array.array[i]) = i
  BY <1>1, <1>2, <1>3, FindAt
<1> QED
  BY <1>4 DEF HeaderOf

(* unify_left leaves a block whose left neighbour, if any, is used.        *)
LEMMA UnifyLeft ==
    ASSUME NEW hp, NEW i, NEW h, NEW f, Freeing(hp, i, h, f)
    PROVE  LET left == unify_left(hp, h, f)
           IN  \E k : /\ Freeing(left.heap, k, left.ret, f)
                      /\ k - 1 \in Blocks(left.heap) =>
                            IsUsed(left.heap, k - 1)
                      /\ OthersKept(hp, h, left.heap, left.ret)
<1>1. /\ hp \in Heap /\ Tiled(hp) /\ i \in Blocks(hp)
      /\ h = HeaderOf(hp, i) /\ f = FooterOf(hp, i) /\ CoalescedBut(hp, i)
  BY DEF Freeing
<1>2. find_ordered_array(hp.header_array, h) = i
  BY <1>1, FindHeader
<1>3. hp.header_array.size \in Nat /\ i \in 0 .. hp.header_array.size - 1
  BY <1>1, HeapParts DEF Blocks
<1> DEFINE left == unify_left(hp, h, f)
           k == i - 1
           g == hp.header_array.array[k]
<1>4. CASE ~ (i > 0 /\ hp.mem[g].w2 = 0)
  <2>1. left = [heap |-> hp, ret |-> h]
    BY <1>2, <1>4, Zenon DEF unify_left
  <2>2. left.heap = hp /\ left.ret = h
    BY <2>1
  <2>3. k \in Blocks(hp) => IsUsed(hp, k)
    <3> SUFFICES ASSUME k \in Blocks(hp) PROVE IsUsed(hp, k)
      OBVIOUS
    <3>1. i > 0
      BY <1>3 DEF Blocks
    <3>2. hp.mem[HeaderOf(hp, k)].w2 # 0
      BY <1>4, <3>1 DEF HeaderOf
    <3> QED
      BY <1>1, <3>2, TagsOf DEF IsUsed
  <2>4. OthersKept(hp, h, hp, h)
    BY DEF OthersKept
  <2> HIDE DEF left
  <2> QED
    BY <2>2, <2>3, <2>4 DEF left
<1>5. CASE i > 0 /\ hp.mem[g].w2 = 0
  <2>1. /\ k \in Blocks(hp) /\ k + 1 = i /\ k \in Int
        /\ k + 1 \in Blocks(hp) /\ g = HeaderOf(hp, k)
    BY <1>3, <1>5 DEF Blocks, HeaderOf
  <2>2. hp.mem[g].w1 = FooterOf(hp, k)
    BY <1>1, <2>1, TagsOf
  <2> DEFINE new == [mem |-> MergeWrites(hp, k, h, FooterOf(hp, k)),
                     header_array |->
                        remove_ordered_array(hp.header_array, k + 1),
                     footer_array |->
                        remove_ordered_array(hp.footer_array, k)]
  <2>3. left = [heap |-> new, ret |-> g]
    BY <1>1, <1>2, <1>5, <2>1, <2>2 DEF unify_left, MergeWrites
  <2>4. MergedAt(hp, new, k)
    BY <1>1, <2>1, WritesMerge
  <2>5. left.heap = new /\ left.ret = g
    BY <2>3
  <2> HIDE DEF new, left
  <2>6. new \in Heap /\ Tiled(new)
    BY <1>1, <2>1, <2>4, MergeTiles DEF MergedAt
  <2>7. ~ IsUsed(hp, k)
    BY <1>5, <2>1 DEF IsUsed
  <2>8. OthersKept(hp, h, new, g)
    BY <1>1, <2>1, <2>4, <2>7, MergeKeepsOthers
  <2> DEFINE n == hp.header_array.size
  <2>9. /\ Blocks(new) = 0 .. n - 2
        /\ k \in Blocks(new)
        /\ HeaderOf(new, k) = HeaderOf(hp, k)
        /\ FooterOf(new, k) = FooterOf(hp, k + 1)
    BY <1>1, <2>1, <2>4, MergeIndex
  <2>10. \A j \in 0 .. k : IsUsed(new, j) <=> IsUsed(hp, j)
    BY <1>1, <2>1, <2>4, MergeIndex
  <2>11. \A j \in k + 1 .. n - 2 : IsUsed(new, j) <=> IsUsed(hp, j + 1)
    BY <1>1, <2>1, <2>4, MergeIndex
  <2>12. ASSUME NEW j \in Blocks(hp), j + 1 \in Blocks(hp), j # i, j + 1 # i
         PROVE  IsUsed(hp, j) \/ IsUsed(hp, j + 1)
    BY <1>1, <2>12 DEF CoalescedBut
  <2>13. CoalescedBut(new, k)
    <3> SUFFICES ASSUME NEW j \in 0 .. n - 2, j + 1 \in 0 .. n - 2,
                        j # k, j + 1 # k
                 PROVE  IsUsed(new, j) \/ IsUsed(new, j + 1)
      BY <2>9 DEF CoalescedBut
    <3>1. CASE j < k
      <4>1. /\ j \in 0 .. k /\ j + 1 \in 0 .. k
            /\ j \in Blocks(hp) /\ j + 1 \in Blocks(hp)
            /\ j # i /\ j + 1 # i
        BY <1>3, <2>1, <3>1 DEF Blocks
      <4> QED
        BY <2>10, <2>12, <4>1
    <3>2. CASE j > k
      <4>1. /\ j \in k + 1 .. n - 2 /\ j + 1 \in k + 1 .. n - 2
            /\ j + 1 \in Blocks(hp) /\ j + 1 + 1 \in Blocks(hp)
            /\ j + 1 # i /\ j + 1 + 1 # i
        BY <1>3, <2>1, <3>2 DEF Blocks
      <4> QED
        BY <2>11, <2>12, <4>1
    <3> QED
      BY <1>3, <2>1, <3>1, <3>2
  <2>14. k - 1 \in Blocks(new) => IsUsed(new, k - 1)
    <3> SUFFICES ASSUME k - 1 \in Blocks(new) PROVE IsUsed(new, k - 1)
      OBVIOUS
    <3>1. /\ k - 1 \in 0 .. k /\ k - 1 \in Blocks(hp)
          /\ k - 1 + 1 = k /\ k - 1 # i /\ k # i
      BY <1>3, <2>1, <2>9 DEF Blocks
    <3>2. IsUsed(hp, k - 1) \/ IsUsed(hp, k)
      BY <2>1, <2>12, <3>1
    <3> QED
      BY <2>7, <2>10, <3>1, <3>2
  <2>15. Freeing(new, k, g, f)
    BY <1>1, <2>1, <2>6, <2>9, <2>13 DEF Freeing
  <2> QED
    BY <2>5, <2>8, <2>14, <2>15 DEF left
<1> QED
  BY <1>4, <1>5

(* unify_right leaves a block whose right neighbour, if any, is used.      *)
LEMMA UnifyRight ==
    ASSUME NEW hp, NEW k, NEW h, NEW f, Freeing(hp, k, h, f),
           k - 1 \in Blocks(hp) => IsUsed(hp, k - 1)
    PROVE  LET new == unify_right(hp, h, f)
           IN  \E e : /\ Freeing(new, k, h, e)
                      /\ k - 1 \in Blocks(new) => IsUsed(new, k - 1)
                      /\ k + 1 \in Blocks(new) => IsUsed(new, k + 1)
                      /\ OthersKept(hp, h, new, h)
<1>1. /\ hp \in Heap /\ Tiled(hp) /\ k \in Blocks(hp)
      /\ h = HeaderOf(hp, k) /\ f = FooterOf(hp, k) /\ CoalescedBut(hp, k)
  BY DEF Freeing
<1>2. find_ordered_array(hp.header_array, h) = k
  BY <1>1, FindHeader
<1> DEFINE n == hp.header_array.size
           right == unify_right(hp, h, f)
           g == hp.header_array.array[k + 1]
<1>3. n \in Nat /\ k \in 0 .. n - 1 /\ Blocks(hp) = 0 .. n - 1
  BY <1>1, HeapParts DEF Blocks
<1>4. CASE ~ (k < n - 1 /\ hp.mem[g].w2 = 0)
  <2>1. right = hp
    BY <1>2, <1>4, Zenon DEF unify_right
  <2>2. k + 1 \in Blocks(hp) => IsUsed(hp, k + 1)
    <3> SUFFICES ASSUME k + 1 \in Blocks(hp) PROVE IsUsed(hp, k + 1)
      OBVIOUS
    <3>1. k < n - 1
      BY <1>3
    <3>2. hp.mem[HeaderOf(hp, k + 1)].w2 # 0
      BY <1>4, <3>1 DEF HeaderOf
    <3> QED
      BY <1>1, <3>2, TagsOf DEF IsUsed
  <2>3. OthersKept(hp, h, hp, h)
    BY DEF OthersKept
  <2> HIDE DEF right
  <2> QED
    BY <2>1, <2>2, <2>3 DEF right
<1>5. CASE k < n - 1 /\ hp.mem[g].w2 = 0
  <2>1. k + 1 \in Blocks(hp) /\ g = HeaderOf(hp, k + 1) /\ k \in Int
    BY <1>3, <1>5 DEF HeaderOf
  <2>2. hp.mem[g].w1 = FooterOf(hp, k + 1)
    BY <1>1, <2>1, TagsOf
  <2> DEFINE new == [mem |-> MergeWrites(hp, k, f, g),
                     header_array |->
                        remove_ordered_array(hp.header_array, k + 1),
                     footer_array |->
                        remove_ordered_array(hp.footer_array, k)]
  <2>3. right = new
    BY <1>1, <1>2, <1>5, <2>1, <2>2 DEF unify_right, MergeWrites
  <2>4. MergedAt(hp, new, k)
    BY <1>1, <2>1, WritesMerge
  <2> HIDE DEF new, right
  <2>5. new \in Heap /\ Tiled(new)
    BY <1>1, <2>1, <2>4, MergeTiles DEF MergedAt
  <2>6. ~ IsUsed(hp, k + 1)
    BY <1>5, <2>1 DEF IsUsed
  <2>7. OthersKept(hp, h, new, h)
    BY <1>1, <2>1, <2>4, <2>6, MergeKeepsOthers
  <2>8. /\ Blocks(new) = 0 .. n - 2
        /\ k \in Blocks(new)
        /\ HeaderOf(new, k) = HeaderOf(hp, k)
        /\ FooterOf(new, k) = FooterOf(hp, k + 1)
    BY <1>1, <2>1, <2>4, MergeIndex
  <2>9. \A j \in 0 .. k : IsUsed(new, j) <=> IsUsed(hp, j)
    BY <1>1, <2>1, <2>4, MergeIndex
  <2>10. \A j \in k + 1 .. n - 2 : IsUsed(new, j) <=> IsUsed(hp, j + 1)
    BY <1>1, <2>1, <2>4, MergeIndex
  <2>11. ASSUME NEW j \in Blocks(hp), j + 1 \in Blocks(hp), j # k, j + 1 # k
         PROVE  IsUsed(hp, j) \/ IsUsed(hp, j + 1)
    BY <1>1, <2>11 DEF CoalescedBut
  <2>12. CoalescedBut(new, k)
    <3> SUFFICES ASSUME NEW j \in 0 .. n - 2, j + 1 \in 0 .. n - 2,
                        j # k, j + 1 # k
                 PROVE  IsUsed(new, j) \/ IsUsed(new, j + 1)
      BY <2>8 DEF CoalescedBut
    <3>1. CASE j < k
      <4>1. /\ j \in 0 .. k /\ j + 1 \in 0 .. k
            /\ j \in Blocks(hp) /\ j + 1 \in Blocks(hp)
        BY <1>3, <2>1, <3>1
      <4> QED
        BY <2>9, <2>11, <4>1
    <3>2. CASE j > k
      <4>1. /\ j \in k + 1 .. n - 2 /\ j + 1 \in k + 1 .. n - 2
            /\ j + 1 \in Blocks(hp) /\ j + 1 + 1 \in Blocks(hp)
            /\ j + 1 # k /\ j + 1 + 1 # k
        BY <1>3, <2>1, <3>2
      <4> QED
        BY <2>10, <2>11, <4>1
    <3> QED
      BY <1>3, <2>1, <3>1, <3>2
  <2>13. k - 1 \in Blocks(new) => IsUsed(new, k - 1)
    <3> SUFFICES ASSUME k - 1 \in Blocks(new) PROVE IsUsed(new, k - 1)
      OBVIOUS
    <3>1. k - 1 \in 0 .. k /\ k - 1 \in Blocks(hp)
      BY <1>3, <2>1, <2>8
    <3> QED
      BY <2>9, <3>1
  <2>14. k + 1 \in Blocks(new) => IsUsed(new, k + 1)
    <3> SUFFICES ASSUME k + 1 \in Blocks(new) PROVE IsUsed(new, k + 1)
      OBVIOUS
    <3>1. /\ k + 1 \in k + 1 .. n - 2 /\ k + 1 + 1 \in Blocks(hp)
          /\ k + 1 # k /\ k + 1 + 1 # k
      BY <1>3, <2>1, <2>8
    <3>2. IsUsed(hp, k + 1) \/ IsUsed(hp, k + 1 + 1)
      BY <2>1, <2>11, <3>1
    <3> QED
      BY <2>6, <2>10, <3>1, <3>2
  <2>15. Freeing(new, k, h, FooterOf(hp, k + 1))
    BY <1>1, <2>1, <2>5, <2>8, <2>12 DEF Freeing
  <2> QED
    BY <2>3, <2>7, <2>13, <2>14, <2>15 DEF right
<1> QED
  BY <1>4, <1>5

(* new is hp with u in the used word of block i, and tiled.                *)
Marked(hp, new, i, u) ==
    LET h == HeaderOf(hp, i)
    IN  /\ new \in Heap
        /\ Tiled(new)
        /\ new.header_array = hp.header_array
        /\ new.footer_array = hp.footer_array
        /\ new.mem[h].w2 = u
        /\ new.mem[h].w0 = hp.mem[h].w0
        /\ \A c \in Cells \ {h} : new.mem[c] = hp.mem[c]

(* Marking block i used or free changes nothing else.                      *)
LEMMA MarkBlock ==
    ASSUME NEW hp \in Heap, Tiled(hp), NEW i \in Blocks(hp), NEW u \in {0, 1}
    PROVE  Marked(hp, [hp EXCEPT !.mem[HeaderOf(hp, i)].w2 = u], i, u)
<1> DEFINE h == HeaderOf(hp, i)
           f == FooterOf(hp, i)
           cell == Header(f - h - 1, f, u)
           m == [hp.mem EXCEPT ![h] = cell]
           new == [mem |-> m, header_array |-> hp.header_array,
                   footer_array |-> hp.footer_array]
<1>1. h \in Cells /\ f \in Cells /\ h \in Nat /\ f \in Nat /\ h < f
  BY TagsApart, TagsOf, CellsAreWords
<1>2. hp.mem \in [Cells -> Cell]
  BY HeapParts
<1>3. hp.mem[h] = Header(f - h - 1, f, hp.mem[h].w2)
  BY TagsOf
<1>4. [hp.mem[h] EXCEPT !.w2 = u] = cell
  <2>1. PICK v : hp.mem[h] = Header(f - h - 1, f, v)
    BY <1>3
  <2> HIDE DEF h, f
  <2> QED
    BY <2>1 DEF Header
<1>5. [hp EXCEPT !.mem[h].w2 = u] = new
  BY <1>4 DEF Heap
<1>6. cell \in Cell
  <2>1. f - h - 1 \in Words /\ f \in Words
    BY <1>1, CellsAreWords, HeapAssumption DEF Words, Cells, HeapEnd
  <2> QED
    BY <2>1 DEF Cell, Header
<1>7. m \in [Cells -> Cell] /\ m[h] = cell
      /\ \A c \in Cells \ {h} : m[c] = hp.mem[c]
  BY <1>1, <1>2, <1>6
<1> HIDE DEF m
<1>8. /\ new.mem = m /\ new.header_array = hp.header_array
      /\ new.footer_array = hp.footer_array
  OBVIOUS
<1>9. new \in Heap
  BY <1>7, HeapParts DEF Heap
<1> HIDE DEF new
<1>10. /\ Blocks(new) = Blocks(hp)
       /\ \A j : HeaderOf(new, j) = HeaderOf(hp, j)
                 /\ FooterOf(new, j) = FooterOf(hp, j)
  BY <1>8 DEF Blocks, HeaderOf, FooterOf
<1>11. Tagged(new)
  <2> SUFFICES ASSUME NEW j \in Blocks(hp)
               PROVE  /\ HeapStart <= HeaderOf(hp, j)
                      /\ HeaderOf(hp, j) < FooterOf(hp, j)
                      /\ FooterOf(hp, j) < HeapEnd
                      /\ m[FooterOf(hp, j)] = Footer(HeaderOf(hp, j))
                      /\ \E v \in {0, 1} : m[HeaderOf(hp, j)] =
                           Header(FooterOf(hp, j) - HeaderOf(hp, j) - 1,
                                  FooterOf(hp, j), v)
    BY <1>8, <1>10 DEF Tagged
  <2>1. /\ HeapStart <= HeaderOf(hp, j)
        /\ HeaderOf(hp, j) < FooterOf(hp, j)
        /\ FooterOf(hp, j) < HeapEnd
        /\ hp.mem[FooterOf(hp, j)] = Footer(HeaderOf(hp, j))
        /\ \E v \in {0, 1} : hp.mem[HeaderOf(hp, j)] =
             Header(FooterOf(hp, j) - HeaderOf(hp, j) - 1, FooterOf(hp, j), v)
    BY DEF Tiled, Tagged
  <2>2. /\ HeaderOf(hp, j) \in Cells /\ FooterOf(hp, j) \in Cells
        /\ FooterOf(hp, j) # h /\ (j # i => HeaderOf(hp, j) # h)
    BY TagsApart
  <2>3. CASE j = i
    BY <1>7, <2>1, <2>2, <2>3
  <2>4. CASE j # i
    BY <1>7, <2>1, <2>2, <2>4
  <2> QED
    BY <2>3, <2>4
<1>12. Tiled(new)
  <2>1. SizesAgree(new) /\ Spans(new)
    BY <1>8, <1>10 DEF Tiled, SizesAgree, Spans
  <2>2. Adjacent(new) /\ Ascending(new)
    BY <1>10 DEF Tiled, Adjacent, Ascending
  <2> QED
    BY <1>11, <2>1, <2>2 DEF Tiled
<1>13. cell.w2 = u /\ cell.w0 = hp.mem[h].w0
  BY <1>3 DEF Header
<1> QED
  BY <1>5, <1>7, <1>8, <1>9, <1>12, <1>13 DEF Marked

(* Which blocks of a marked heap are used.                                 *)
LEMMA MarkIndex ==
    ASSUME NEW hp \in Heap, Tiled(hp), NEW i \in Blocks(hp), NEW u \in {0, 1},
           NEW new, Marked(hp, new, i, u)
    PROVE  /\ Blocks(new) = Blocks(hp)
           /\ \A j \in Blocks(hp) : HeaderOf(new, j) = HeaderOf(hp, j)
           /\ \A j \in Blocks(hp) \ {i} : IsUsed(new, j) <=> IsUsed(hp, j)
           /\ IsUsed(new, i) <=> u = 1
           /\ OthersKept(hp, HeaderOf(hp, i), new, HeaderOf(hp, i))
           /\ UsedAt(new, HeaderOf(hp, i)) <=> u = 1
<1>1. /\ Blocks(new) = Blocks(hp)
      /\ \A j \in Blocks(hp) : HeaderOf(new, j) = HeaderOf(hp, j)
  BY DEF Marked, Blocks, HeaderOf
<1>2. \A j \in Blocks(hp) : /\ HeaderOf(hp, j) \in Cells
                            /\ j # i => HeaderOf(hp, j) # HeaderOf(hp, i)
  BY TagsApart
<1>3. \A j \in Blocks(hp) \ {i} :
        new.mem[HeaderOf(hp, j)] = hp.mem[HeaderOf(hp, j)]
  BY <1>2 DEF Marked
<1>4. \A j \in Blocks(hp) \ {i} : IsUsed(new, j) <=> IsUsed(hp, j)
  BY <1>1, <1>3 DEF IsUsed
<1>5. IsUsed(new, i) <=> u = 1
  BY <1>1 DEF IsUsed, Marked
<1> DEFINE h == HeaderOf(hp, i)
<1>6. \A z : UsedAt(new, z) /\ z # h <=> UsedAt(hp, z) /\ z # h
  BY <1>1, <1>2, <1>4 DEF UsedAt
<1>7. \A z : UsedAt(hp, z) /\ z # h => new.mem[z] = hp.mem[z]
  BY <1>3 DEF UsedAt
<1>8. UsedAt(new, h) <=> u = 1
  BY <1>1, <1>2, <1>5 DEF UsedAt
<1> QED
  BY <1>1, <1>4, <1>5, <1>6, <1>7, <1>8 DEF OthersKept

(* free: the heap stays tiled and coalesced, and exactly the block freed   *)
(* is no longer used.                                                      *)
LEMMA UnifyFrees ==
    ASSUME NEW hp \in Heap, Tiled(hp), Coalesced(hp), NEW i \in Blocks(hp)
    PROVE  LET new == unify(hp, HeaderOf(hp, i), FooterOf(hp, i))
           IN  /\ new \in Heap /\ Tiled(new) /\ Coalesced(new)
               /\ \A z : UsedAt(new, z) =>
                    /\ UsedAt(hp, z) /\ z # HeaderOf(hp, i)
                    /\ new.mem[z] = hp.mem[z]
               /\ \A z : UsedAt(hp, z) /\ z # HeaderOf(hp, i) =>
                    UsedAt(new, z)
<1> DEFINE h == HeaderOf(hp, i)
           f == FooterOf(hp, i)
           left == unify_left(hp, h, f)
           both == unify_right(left.heap, left.ret, f)
           new == [both EXCEPT !.mem[left.ret].w2 = 0]
<1>1. Freeing(hp, i, h, f)
  BY DEF Freeing, Coalesced, CoalescedBut
<1>2. PICK k : /\ Freeing(left.heap, k, left.ret, f)
               /\ k - 1 \in Blocks(left.heap) => IsUsed(left.heap, k - 1)
               /\ OthersKept(hp, h, left.heap, left.ret)
  BY <1>1, UnifyLeft
<1> HIDE DEF left
<1>3. PICK e : /\ Freeing(both, k, left.ret, e)
               /\ k - 1 \in Blocks(both) => IsUsed(both, k - 1)
               /\ k + 1 \in Blocks(both) => IsUsed(both, k + 1)
               /\ OthersKept(left.heap, left.ret, both, left.ret)
  BY <1>2, UnifyRight
<1> HIDE DEF both
<1>4. /\ both \in Heap /\ Tiled(both) /\ k \in Blocks(both)
      /\ HeaderOf(both, k) = left.ret /\ CoalescedBut(both, k)
  BY <1>3 DEF Freeing
<1>5. Marked(both, new, k, 0)
  BY <1>4, MarkBlock
<1>6. unify(hp, h, f) = new
  BY DEF unify, left, both
<1> HIDE DEF new, h, f
<1>7. /\ Blocks(new) = Blocks(both)
      /\ \A j \in Blocks(both) \ {k} : IsUsed(new, j) <=> IsUsed(both, j)
      /\ OthersKept(both, left.ret, new, left.ret)
      /\ ~ UsedAt(new, left.ret)
  BY <1>4, <1>5, MarkIndex
<1>8. Coalesced(new)
  <2> SUFFICES ASSUME NEW j \in Blocks(both), j + 1 \in Blocks(both)
               PROVE  IsUsed(new, j) \/ IsUsed(new, j + 1)
    BY <1>7 DEF Coalesced
  <2>1. j \in Int /\ k \in Int
    BY <1>4 DEF Blocks
  <2>2. CASE j = k
    BY <1>3, <1>7, <2>1, <2>2
  <2>3. CASE j + 1 = k
    <3>1. j = k - 1 /\ j # k
      BY <2>1, <2>3
    <3> QED
      BY <1>3, <1>7, <3>1
  <2>4. CASE j # k /\ j + 1 # k
    BY <1>4, <1>7, <2>4 DEF CoalescedBut
  <2> QED
    BY <2>2, <2>3, <2>4
<1>9. \A z : UsedAt(new, z) <=> UsedAt(hp, z) /\ z # h
  BY <1>2, <1>3, <1>7 DEF OthersKept
<1>10. \A z : UsedAt(new, z) => new.mem[z] = hp.mem[z]
  <2> SUFFICES ASSUME NEW z, UsedAt(new, z) PROVE new.mem[z] = hp.mem[z]
    OBVIOUS
  <2>1. z # left.ret
    BY <1>7
  <2>2. UsedAt(both, z) /\ new.mem[z] = both.mem[z]
    BY <1>7, <2>1 DEF OthersKept
  <2>3. UsedAt(left.heap, z) /\ both.mem[z] = left.heap.mem[z]
    BY <1>3, <2>1, <2>2 DEF OthersKept
  <2>4. left.heap.mem[z] = hp.mem[z]
    BY <1>2, <2>1, <2>3 DEF OthersKept
  <2> QED
    BY <2>2, <2>3, <2>4
<1> QED
  BY <1>5, <1>6, <1>8, <1>9, <1>10 DEF Marked, h, f

(* kmm_checks accepts every block of a tiled heap.                         *)
LEMMA ChecksPass ==
    ASSUME NEW hp \in Heap, Tiled(hp), NEW i \in Blocks(hp)
    PROVE  kmm_checks(hp, HeaderOf(hp, i), FooterOf(hp, i))
<1> DEFINE h == HeaderOf(hp, i)
           f == FooterOf(hp, i)
<1>1. h \in Cells /\ f \in Cells
  BY TagsApart
<1>2. hp.mem[h].w3 = Magic /\ hp.mem[h].w1 = f /\ hp.mem[f] = Footer(h)
  BY TagsOf
<1>3. hp.mem[f].w0 = h /\ hp.mem[f].w2 = Magic /\ hp.mem[f].w3 = Magic
  BY <1>2 DEF Footer
<1> QED
  BY <1>1, <1>2, <1>3 DEF kmm_checks

(* alloc_from_block on a free block that passes no limit: the heap stays   *)
(* tiled and coalesced, and exactly that block becomes used.               *)
LEMMA AllocTakes ==
    ASSUME NEW hp \in Heap, Tiled(hp), Coalesced(hp), NEW i \in Blocks(hp),
           hp.mem[HeaderOf(hp, i)].w2 = 0,
           NEW size \in Nat, size <= hp.mem[HeaderOf(hp, i)].w0,
           hp.mem[HeaderOf(hp, i)].w0 >= 2 + SplitSlack,
           Splits(hp, HeaderOf(hp, i), size) =>
                hp.header_array.size < MaxBlocks
    PROVE  LET new == alloc_from_block(hp, HeaderOf(hp, i),
                                       FooterOf(hp, i), size)
           IN  /\ new \in Heap /\ Tiled(new) /\ Coalesced(new)
               /\ UsedAt(new, HeaderOf(hp, i))
               /\ new.mem[HeaderOf(hp, i)].w0 >= size
               /\ OthersKept(hp, HeaderOf(hp, i), new, HeaderOf(hp, i))
<1> DEFINE h == HeaderOf(hp, i)
           f == FooterOf(hp, i)
           new == alloc_from_block(hp, h, f, size)
           n == hp.header_array.size
<1>1. /\ h \in Nat /\ f \in Nat /\ h < f /\ hp.mem[h].w0 = f - h - 1
      /\ h \in Cells /\ hp.mem[h].w0 \in Nat
  <2>1. h \in Nat /\ f \in Nat /\ h \in Cells
    BY TagsApart, CellsAreWords
  <2>2. h < f /\ hp.mem[h].w0 = f - h - 1
    BY TagsOf
  <2> QED
    BY <2>1, <2>2
<1>2. n \in Nat /\ Blocks(hp) = 0 .. n - 1 /\ i \in 0 .. n - 1
  BY HeapParts DEF Blocks
<1>3. ~ IsUsed(hp, i)
  BY DEF IsUsed
<1>4. SplitLimit(hp, h) = hp.mem[h].w0 - 6
  BY <1>1 DEF SplitLimit, WSub, SplitSlack
<1>5. CASE Splits(hp, h, size)
  <2> DEFINE nh == h + size + 2
  <2>1. new = Split(hp, h, f, size)
    BY <1>5 DEF alloc_from_block
  <2>2. size + 2 + SplitSlack < hp.mem[h].w0
    BY <1>1, <1>4, <1>5 DEF Splits, SplitSlack
  <2>3. CutAt(hp, new, i, nh) /\ nh < f
    BY <1>5, <2>1, <2>2, SplitCuts
  <2> HIDE DEF new
  <2>4. nh \in Nat /\ h + 2 <= nh
    BY <1>1
  <2> HIDE DEF nh
  <2>5. /\ Tiled(new)
        /\ \A k \in Blocks(hp) \ {i} :
             new.mem[HeaderOf(hp, k)] = hp.mem[HeaderOf(hp, k)]
    BY <2>3, <2>4, CutTiles
  <2>6. /\ new \in Heap
        /\ new.header_array.size = n + 1
        /\ HeaderOf(new, i + 1) = nh
        /\ new.mem[h] = Header(nh - h - 2, nh - 1, 1)
        /\ new.mem[nh] = Header(f - nh - 1, f, 0)
    BY <2>3 DEF CutAt
  <2>7. /\ \A k \in 0 .. i : HeaderOf(new, k) = HeaderOf(hp, k)
        /\ \A k \in i + 2 .. n : HeaderOf(new, k) = HeaderOf(hp, k - 1)
    BY <2>3 DEF CutAt
  <2>8. Blocks(new) = 0 .. n
    BY <1>2, <2>6 DEF Blocks
  <2>9. /\ IsUsed(new, i) /\ ~ IsUsed(new, i + 1)
        /\ new.mem[h].w0 = nh - h - 2
    BY <1>2, <2>6, <2>7 DEF IsUsed, Header
  <2>10. \A k \in 0 .. i - 1 : IsUsed(new, k) <=> IsUsed(hp, k)
    BY <1>2, <2>5, <2>7 DEF IsUsed
  <2>11. \A k \in i + 2 .. n : IsUsed(new, k) <=> IsUsed(hp, k - 1)
    BY <1>2, <2>5, <2>7 DEF IsUsed
  <2>12. Coalesced(new)
    <3> SUFFICES ASSUME NEW j \in 0 .. n, j + 1 \in 0 .. n
                 PROVE  IsUsed(new, j) \/ IsUsed(new, j + 1)
      BY <2>8 DEF Coalesced
    <3>1. ASSUME NEW k \in 0 .. n - 1, k + 1 \in 0 .. n - 1
          PROVE  IsUsed(hp, k) \/ IsUsed(hp, k + 1)
      BY <1>2, <3>1 DEF Coalesced
    <3>2. CASE j = i \/ j + 1 = i
      BY <2>9, <3>2
    <3>3. CASE j + 1 < i
      <4>1. /\ j \in 0 .. i - 1 /\ j + 1 \in 0 .. i - 1
            /\ j \in 0 .. n - 1 /\ j + 1 \in 0 .. n - 1
        BY <1>2, <3>3
      <4> QED
        BY <2>10, <3>1, <4>1
    <3>4. CASE j = i + 1
      <4>1. /\ j + 1 \in i + 2 .. n /\ j + 1 - 1 = i + 1
            /\ i + 1 \in 0 .. n - 1
        BY <1>2, <3>4
      <4> QED
        BY <1>2, <1>3, <2>11, <3>1, <4>1
    <3>5. CASE j > i + 1
      <4>1. /\ j \in i + 2 .. n /\ j + 1 \in i + 2 .. n
            /\ j - 1 \in 0 .. n - 1 /\ j - 1 + 1 \in 0 .. n - 1
            /\ j + 1 - 1 = j - 1 + 1
        BY <1>2, <3>5
      <4> QED
        BY <2>11, <3>1, <4>1
    <3> QED
      BY <1>2, <3>2, <3>3, <3>4, <3>5
  <2>13. UsedAt(new, h)
    BY <1>2, <2>7, <2>8, <2>9 DEF UsedAt
  <2>14. new.mem[h].w0 >= size
    BY <1>1, <2>9 DEF nh
  <2>15. OthersKept(hp, h, new, h)
    <3>1. ASSUME NEW z, UsedAt(new, z), z # h PROVE UsedAt(hp, z)
      <4>1. PICK j \in 0 .. n : HeaderOf(new, j) = z /\ IsUsed(new, j)
        BY <2>8, <3>1 DEF UsedAt
      <4>2. j # i /\ j # i + 1
        BY <1>2, <2>7, <2>9, <3>1, <4>1
      <4>3. CASE j < i
        <5>1. j \in 0 .. i - 1 /\ j \in 0 .. i /\ j \in 0 .. n - 1
          BY <1>2, <4>3
        <5> QED
          BY <1>2, <2>7, <2>10, <4>1, <5>1 DEF UsedAt
      <4>4. CASE j > i
        <5>1. j \in i + 2 .. n /\ j - 1 \in 0 .. n - 1
          BY <1>2, <4>2, <4>4
        <5> QED
          BY <1>2, <2>7, <2>11, <4>1, <5>1 DEF UsedAt
      <4> QED
        BY <1>2, <4>2, <4>3, <4>4
    <3>2. ASSUME NEW z, UsedAt(hp, z), z # h
          PROVE  UsedAt(new, z) /\ new.mem[z] = hp.mem[z]
      <4>1. PICK j \in 0 .. n - 1 : HeaderOf(hp, j) = z /\ IsUsed(hp, j)
        BY <1>2, <3>2 DEF UsedAt
      <4>2. j # i
        BY <3>2, <4>1
      <4>3. new.mem[z] = hp.mem[z]
        BY <1>2, <2>5, <4>1, <4>2
      <4>4. CASE j < i
        <5>1. j \in 0 .. i - 1 /\ j \in 0 .. i /\ j \in 0 .. n
          BY <1>2, <4>4
        <5> QED
          BY <2>7, <2>8, <2>10, <4>1, <4>3, <5>1 DEF UsedAt
      <4>5. CASE j > i
        <5>1. j + 1 \in i + 2 .. n /\ j + 1 - 1 = j /\ j + 1 \in 0 .. n
          BY <1>2, <4>5
        <5> QED
          BY <2>7, <2>8, <2>11, <4>1, <4>3, <5>1 DEF UsedAt
      <4> QED
        BY <1>2, <4>2, <4>4, <4>5
    <3> HIDE DEF h
    <3> QED
      BY <3>1, <3>2 DEF OthersKept
  <2> QED
    BY <2>5, <2>6, <2>12, <2>13, <2>14, <2>15 DEF new
<1>6. CASE ~ Splits(hp, h, size)
  <2>1. new = [hp EXCEPT !.mem[h].w2 = 1]
    BY <1>6 DEF alloc_from_block, TakeWhole
  <2>2. Marked(hp, new, i, 1)
    <3>1. 1 \in {0, 1}
      OBVIOUS
    <3>2. Marked(hp, [hp EXCEPT !.mem[HeaderOf(hp, i)].w2 = 1], i, 1)
      BY <3>1, MarkBlock, Zenon
    <3> QED
      BY <2>1, <3>2, Zenon
  <2> HIDE DEF new
  <2>3. /\ Blocks(new) = Blocks(hp)
        /\ \A j \in Blocks(hp) \ {i} : IsUsed(new, j) <=> IsUsed(hp, j)
        /\ IsUsed(new, i)
        /\ OthersKept(hp, h, new, h)
        /\ UsedAt(new, h)
    BY <2>2, MarkIndex
  <2>4. Coalesced(new)
    BY <2>3 DEF Coalesced
  <2>5. new \in Heap /\ Tiled(new) /\ new.mem[h].w0 = hp.mem[h].w0
    BY <2>2 DEF Marked
  <2> QED
    BY <1>1, <2>3, <2>4, <2>5 DEF new
<1> QED
  BY <1>5, <1>6
-----------------------------------------------------------------------------
(* Owned, in terms of the addresses of the used blocks                     *)
OwnedAt(hp, hd) ==
    /\ \A h \in Handles : hd[h].ptr # 0 =>
          UsedAt(hp, hd[h].ptr - 1) /\ hd[h].len <= hp.mem[hd[h].ptr - 1].w0
    /\ \A x : UsedAt(hp, x) => \E h \in Handles : hd[h].ptr = x + 1
    /\ \A g, h \in Handles :
          hd[g].ptr # 0 /\ hd[g].ptr = hd[h].ptr => g = h

Holding == [Handles -> [ptr : Nat, len : Nat]]

LEMMA OwnedIsOwnedAt ==
    ASSUME NEW hp \in Heap, Tiled(hp), NEW hd \in Holding
    PROVE  Owned(hp, hd) <=> OwnedAt(hp, hd)
<1>1. \A i \in Blocks(hp) : HeaderOf(hp, i) \in Nat
  BY HeapParts, CellsAreWords
<1>2. \A h \in Handles : hd[h].ptr \in Nat /\ hd[h].len \in Nat
  BY DEF Holding
<1>3. \A i \in Blocks(hp), h \in Handles :
        hd[h].ptr = HeaderOf(hp, i) + 1 <=> HeaderOf(hp, i) = hd[h].ptr - 1
  BY <1>1, <1>2
<1>4. \A h \in Handles :
        (\E i \in Blocks(hp) : /\ hd[h].ptr = HeaderOf(hp, i) + 1
                               /\ IsUsed(hp, i)
                               /\ hd[h].len <= hp.mem[HeaderOf(hp, i)].w0)
        <=> /\ UsedAt(hp, hd[h].ptr - 1)
            /\ hd[h].len <= hp.mem[hd[h].ptr - 1].w0
  BY <1>3 DEF UsedAt
<1>5. (\A i \in Blocks(hp) : IsUsed(hp, i) =>
          \E h \in Handles : hd[h].ptr = HeaderOf(hp, i) + 1)
      <=> \A x : UsedAt(hp, x) => \E h \in Handles : hd[h].ptr = x + 1
  BY DEF UsedAt
<1> QED
  BY <1>4, <1>5 DEF Owned, OwnedAt

(* kheap_init leaves one free block that is the whole heap.                *)
LEMMA InitialHeap ==
    /\ kheap_init \in Heap
    /\ Tiled(kheap_init)
    /\ Coalesced(kheap_init)
    /\ \A x : ~ UsedAt(kheap_init, x)
<1> DEFINE f == HeapEnd - 1
           empty == init_ordered_array_place(MaxBlocks)
           ha == insert_ordered_array(empty, HeapStart)
           fa == insert_ordered_array(empty, f)
           m == [c \in Cells |->
                    IF c = HeapStart THEN Header(HeapLen - 2, f, 0)
                    ELSE IF c = f THEN Footer(HeapStart) ELSE Blank]
           new == [mem |-> m, header_array |-> ha, footer_array |-> fa]
<1>1. /\ HeapStart \in Cells /\ f \in Cells /\ HeapStart \in Nat /\ f \in Nat
      /\ HeapStart < f /\ f - HeapStart - 1 = HeapLen - 2
      /\ HeapStart \in Words /\ f \in Words /\ HeapLen - 2 \in Words
      /\ 0 \in Words /\ MaxBlocks \in Nat /\ 0 < MaxBlocks
      /\ Words \subseteq Int
  BY HeapAssumption DEF Cells, HeapEnd, Words
<1>2. empty \in OrderedArrays(MaxBlocks, Words) /\ empty.size = 0
  BY <1>1 DEF init_ordered_array_place, OrderedArrays
<1> HIDE DEF empty
<1>3. 0 \in 0 .. empty.size /\ empty.size < MaxBlocks
  BY <1>1, <1>2
<1>4. /\ \A v \in Words : \A k \in 0 .. 0 - 1 : ~ (v < empty.array[k])
      /\ \A v \in Words : \A k \in 0 .. empty.size - 1 : v < empty.array[k]
  BY <1>2
<1>5. ha \in OrderedArrays(MaxBlocks, Words) /\ PutIn(empty, ha, 0, HeapStart)
  BY <1>1, <1>2, <1>3, <1>4, InsertAt
<1>6. fa \in OrderedArrays(MaxBlocks, Words) /\ PutIn(empty, fa, 0, f)
  BY <1>1, <1>2, <1>3, <1>4, InsertAt
<1>7. ha.size = 1 /\ fa.size = 1 /\ ha.array[0] = HeapStart /\ fa.array[0] = f
  BY <1>2, <1>5, <1>6 DEF PutIn
<1> HIDE DEF ha, fa, f
<1>8. /\ Header(HeapLen - 2, f, 0) \in Cell /\ Footer(HeapStart) \in Cell
      /\ Blank \in Cell
  BY <1>1 DEF Header, Footer, Blank, Cell
<1>9. /\ m \in [Cells -> Cell]
      /\ m[HeapStart] = Header(HeapLen - 2, f, 0)
      /\ m[f] = Footer(HeapStart)
  BY <1>1, <1>8
<1> HIDE DEF m
<1>10. /\ new \in Heap /\ new.mem = m
       /\ new.header_array = ha /\ new.footer_array = fa
  BY <1>5, <1>6, <1>9 DEF Heap
<1>11. kheap_init = new
  BY DEF kheap_init, m, ha, fa, f, empty
<1> HIDE DEF new
<1>12. /\ Blocks(new) = {0}
       /\ HeaderOf(new, 0) = HeapStart /\ FooterOf(new, 0) = f
  <2>1. 0 .. 1 - 1 = {0}
    OBVIOUS
  <2> QED
    BY <1>7, <1>10, <2>1 DEF Blocks, HeaderOf, FooterOf
<1>13. SizesAgree(new) /\ Spans(new)
  BY <1>7, <1>10, <1>12 DEF SizesAgree, Spans, f
<1>14. Adjacent(new) /\ Ascending(new) /\ Coalesced(new)
  BY <1>12 DEF Adjacent, Ascending, Coalesced
<1>15. f < HeapEnd
  BY <1>1, HeapAssumption DEF f, HeapEnd
<1>16. Tagged(new)
  BY <1>1, <1>9, <1>10, <1>12, <1>15 DEF Tagged
<1>17. ~ IsUsed(new, 0)
  BY <1>9, <1>10, <1>12 DEF IsUsed, Header
<1>18. \A x : ~ UsedAt(new, x)
  BY <1>12, <1>17 DEF UsedAt
<1> QED
  BY <1>10, <1>11, <1>13, <1>14, <1>16, <1>18 DEF Tiled

LEMMA InitHeapInv == Init => HeapInv
<1> SUFFICES ASSUME Init PROVE HeapInv
  OBVIOUS
<1>1. kheap = kheap_init /\ fault = {} /\ held = [h \in Handles |-> Nothing]
  BY DEF Init
<1>2. kheap \in Heap /\ Tiled(kheap) /\ Coalesced(kheap)
      /\ \A x : ~ UsedAt(kheap, x)
  BY <1>1, InitialHeap
<1>3. held \in Holding /\ \A h \in Handles : held[h].ptr = 0
  BY <1>1 DEF Holding, Nothing
<1>4. OwnedAt(kheap, held)
  BY <1>2, <1>3 DEF OwnedAt
<1>5. Owned(kheap, held)
  BY <1>2, <1>3, <1>4, OwnedIsOwnedAt
<1> QED
  BY <1>1, <1>2, <1>3, <1>5 DEF HeapInv, TypeOK, Holding

LEMMA RequestTypes ==
    ASSUME NEW req \in Requests
    PROVE  Align(req) \in Nat /\ Asked(req) \in Nat
<1>1. req.q \in 0 .. Word - 1 /\ Word \in Nat
  BY HeapAssumption
<1> QED
  BY <1>1 DEF Align, Asked, WAdd

(* What the guard of kmalloc and an allocation within the limits give.     *)
LEMMA WithinLimits ==
    ASSUME NEW hp \in Heap, NEW i \in Blocks(hp), NEW req \in Requests,
           Limits(hp, HeaderOf(hp, i), req) = {}
    PROVE  /\ Asked(req) = Align(req)
           /\ ~ (hp.mem[HeaderOf(hp, i)].w0 < 2 + SplitSlack)
           /\ Splits(hp, HeaderOf(hp, i), Align(req)) =>
                hp.header_array.size < MaxBlocks
<1> DEFINE L(f) == \/ f = "align" /\ Asked(req) # Align(req)
                   \/ f = "split" /\ hp.mem[HeaderOf(hp, i)].w0
                                        < 2 + SplitSlack
                   \/ /\ f = "full"
                      /\ Splits(hp, HeaderOf(hp, i), Align(req))
                      /\ hp.header_array.size = hp.header_array.max_size
<1>1. \A f \in {"align", "split", "full"} : ~ L(f)
  BY DEF Limits
<1>2. ~ L("align") /\ ~ L("split") /\ ~ L("full")
  BY <1>1
<1>3. /\ hp.header_array.size \in 0 .. MaxBlocks /\ MaxBlocks \in Nat
      /\ hp.header_array.max_size = MaxBlocks
  BY HeapParts, HeapAssumption
<1>4. Splits(hp, HeaderOf(hp, i), Align(req)) =>
        hp.header_array.size # MaxBlocks
  BY <1>2, <1>3
<1> QED
  BY <1>2, <1>3, <1>4

(* kmalloc keeps the invariant.                                            *)
LEMMA KmallocStep ==
    ASSUME HeapInv, NEW h \in Handles, NEW req \in Requests, Kmalloc(h, req)
    PROVE  HeapInv'
<1>1. PICK i \in Blocks(kheap) :
        /\ FirstFit(kheap, i, Align(req))
        /\ kheap' = alloc_from_block(kheap, HeaderOf(kheap, i),
                                     FooterOf(kheap, i), Align(req))
        /\ held' = [held EXCEPT ![h] = [ptr |-> HeaderOf(kheap, i) + 1,
                                        len |-> Asked(req)]]
        /\ fault' = fault \cup Limits(kheap, HeaderOf(kheap, i), req)
  BY DEF Kmalloc, Blocks, HeaderOf, FooterOf
<1> DEFINE x == HeaderOf(kheap, i)
           size == Align(req)
<1>2. held \in Holding /\ fault \subseteq {"align", "split", "full"}
  BY DEF HeapInv, TypeOK, Holding
<1>3. size \in Nat /\ Asked(req) \in Nat
  BY RequestTypes
<1>4. ASSUME fault = {}
      PROVE  /\ kheap \in Heap /\ Tiled(kheap) /\ Coalesced(kheap)
             /\ Owned(kheap, held)
  BY <1>4 DEF HeapInv, TypeOK
<1>5. /\ x \in Cells /\ kheap.mem[x].w2 = 0 /\ kheap.mem[x].w0 >= size
  BY <1>1 DEF FirstFit, Suitable, HeaderOf
<1>6. x + 1 \in Nat
  <2>1. x \in Nat
    BY <1>5, CellsAreWords
  <2> QED
    BY <2>1
<1>7. held' \in Holding
  BY <1>1, <1>2, <1>3, <1>6 DEF Holding
<1>8. fault' \subseteq {"align", "split", "full"}
  BY <1>1, <1>2 DEF Limits
<1>9. ASSUME fault' = {}
      PROVE  kheap' \in Heap /\ Tiled(kheap') /\ Coalesced(kheap')
             /\ OwnedAt(kheap', held')
  <2>1. fault = {} /\ Limits(kheap, x, req) = {}
    BY <1>1, <1>9
  <2>2. /\ kheap \in Heap /\ Tiled(kheap) /\ Coalesced(kheap)
        /\ OwnedAt(kheap, held)
    BY <1>2, <1>4, <2>1, OwnedIsOwnedAt
  <2>3. /\ Asked(req) = size
        /\ ~ (kheap.mem[x].w0 < 2 + SplitSlack)
        /\ Splits(kheap, x, size) => kheap.header_array.size < MaxBlocks
    BY <2>1, <2>2, WithinLimits
  <2>4. kheap.mem[x].w0 \in Nat /\ x \in Nat
    BY <1>5, <2>2, HeapParts, CellsAreWords DEF Cell
  <2>5. size <= kheap.mem[x].w0 /\ kheap.mem[x].w0 >= 2 + SplitSlack
    BY <1>3, <1>5, <2>3, <2>4 DEF SplitSlack
  <2>6. /\ kheap' \in Heap /\ Tiled(kheap') /\ Coalesced(kheap')
        /\ UsedAt(kheap', x)
        /\ kheap'.mem[x].w0 >= size
        /\ OthersKept(kheap, x, kheap', x)
    BY <1>1, <1>3, <1>5, <2>2, <2>3, <2>5, AllocTakes
  <2>7. ~ UsedAt(kheap, x)
    <3>1. ~ IsUsed(kheap, i)
      BY <1>5 DEF IsUsed
    <3>2. \A j \in Blocks(kheap) : HeaderOf(kheap, j) = x => j = i
      BY <2>2, TagsApart
    <3> QED
      BY <3>1, <3>2 DEF UsedAt
  <2>8. held[h].ptr = 0
    BY DEF Kmalloc, Holds
  <2>9. /\ held'[h] = [ptr |-> x + 1, len |-> Asked(req)]
        /\ \A g \in Handles : g # h => held'[g] = held[g]
    BY <1>1, <1>2 DEF Holding
  <2>10. held'[h].ptr = x + 1 /\ held'[h].len = size
    BY <2>3, <2>9
  <2>11. \A g \in Handles : held[g].ptr \in Nat /\ held[g].len \in Nat
    BY <1>2 DEF Holding
  <2>12. \A g \in Handles : held[g].ptr # 0 => /\ UsedAt(kheap, held[g].ptr - 1)
                                              /\ held[g].ptr - 1 # x
    BY <2>2, <2>7 DEF OwnedAt
  <2>13. ASSUME NEW g \in Handles, held'[g].ptr # 0
         PROVE  /\ UsedAt(kheap', held'[g].ptr - 1)
                /\ held'[g].len <= kheap'.mem[held'[g].ptr - 1].w0
    <3>1. CASE g = h
      <4>1. held'[g].ptr - 1 = x
        BY <2>4, <2>10, <3>1
      <4>2. kheap'.mem[x].w0 \in Nat
        BY <1>5, <2>6, HeapParts, CellsAreWords DEF Cell
      <4> QED
        BY <1>3, <2>6, <2>10, <3>1, <4>1, <4>2
    <3>2. CASE g # h
      <4>1. held'[g] = held[g]
        BY <2>9, <3>2
      <4>2. /\ UsedAt(kheap, held[g].ptr - 1) /\ held[g].ptr - 1 # x
            /\ held[g].len <= kheap.mem[held[g].ptr - 1].w0
        BY <2>2, <2>12, <2>13, <4>1 DEF OwnedAt
      <4>3. /\ UsedAt(kheap', held[g].ptr - 1)
            /\ kheap'.mem[held[g].ptr - 1] = kheap.mem[held[g].ptr - 1]
        BY <2>6, <4>2 DEF OthersKept
      <4> QED
        BY <4>1, <4>2, <4>3
    <3> QED
      BY <3>1, <3>2
  <2>14. ASSUME NEW z, UsedAt(kheap', z)
         PROVE  \E g \in Handles : held'[g].ptr = z + 1
    <3>1. CASE z = x
      BY <2>10, <3>1
    <3>2. CASE z # x
      <4>1. UsedAt(kheap, z)
        BY <2>6, <2>14, <3>2 DEF OthersKept
      <4>2. PICK g \in Handles : held[g].ptr = z + 1
        BY <2>2, <4>1 DEF OwnedAt
      <4>3. z \in Nat
        BY <2>2, <4>1, HeapParts, CellsAreWords DEF UsedAt
      <4>4. g # h
        BY <2>8, <4>2, <4>3
      <4> QED
        BY <2>9, <4>2, <4>4
    <3> QED
      BY <3>1, <3>2
  <2>15. ASSUME NEW a \in Handles, NEW b \in Handles,
                held'[a].ptr # 0, held'[a].ptr = held'[b].ptr
         PROVE  a = b
    <3>1. \A g \in Handles : g # h /\ held[g].ptr # 0 => held[g].ptr # x + 1
      BY <2>4, <2>11, <2>12
    <3>2. CASE a = h \/ b = h
      BY <2>9, <2>10, <2>15, <3>1, <3>2
    <3>3. CASE a # h /\ b # h
      BY <2>2, <2>9, <2>15, <3>3 DEF OwnedAt
    <3> QED
      BY <3>2, <3>3
  <2>16. OwnedAt(kheap', held')
    BY <2>13, <2>14, <2>15 DEF OwnedAt
  <2> QED
    BY <2>6, <2>16
<1>10. fault' = {} => Owned(kheap', held')
  BY <1>7, <1>9, OwnedIsOwnedAt
<1> QED
  BY <1>7, <1>8, <1>9, <1>10 DEF HeapInv, TypeOK, Holding

(* kfree keeps the invariant.                                              *)
LEMMA KfreeStep ==
    ASSUME HeapInv, NEW h \in Handles, Kfree(h)
    PROVE  HeapInv'
<1>1. /\ held[h].ptr # 0
      /\ kheap' = free(kheap, held[h].ptr)
      /\ held' = [held EXCEPT ![h] = Nothing]
      /\ fault' = fault
  BY DEF Kfree, Holds
<1>2. held \in Holding /\ fault \subseteq {"align", "split", "full"}
  BY DEF HeapInv, TypeOK, Holding
<1>3. held' \in Holding
  BY <1>1, <1>2 DEF Holding, Nothing
<1>4. ASSUME fault = {}
      PROVE  kheap' \in Heap /\ Tiled(kheap') /\ Coalesced(kheap')
             /\ OwnedAt(kheap', held')
  <2>1. /\ kheap \in Heap /\ Tiled(kheap) /\ Coalesced(kheap)
        /\ OwnedAt(kheap, held)
    BY <1>2, <1>4, OwnedIsOwnedAt DEF HeapInv, TypeOK
  <2> DEFINE x == held[h].ptr - 1
  <2>2. UsedAt(kheap, x)
    BY <1>1, <2>1 DEF OwnedAt
  <2>3. PICK i \in Blocks(kheap) : HeaderOf(kheap, i) = x
    BY <2>2 DEF UsedAt
  <2>4. kheap.mem[x].w1 = FooterOf(kheap, i)
    BY <2>1, <2>3, TagsOf
  <2>5. kmm_prechecks(kheap) /\ kmm_checks(kheap, x, FooterOf(kheap, i))
    BY <2>1, <2>3, ChecksPass DEF kmm_prechecks, Tiled, SizesAgree
  <2>6. kheap' = unify(kheap, x, FooterOf(kheap, i))
    BY <1>1, <2>4, <2>5 DEF free
  <2>7. /\ kheap' \in Heap /\ Tiled(kheap') /\ Coalesced(kheap')
        /\ \A z : UsedAt(kheap', z) => /\ UsedAt(kheap, z) /\ z # x
                                      /\ kheap'.mem[z] = kheap.mem[z]
        /\ \A z : UsedAt(kheap, z) /\ z # x => UsedAt(kheap', z)
    BY <2>1, <2>3, <2>6, UnifyFrees
  <2>8. /\ held'[h].ptr = 0
        /\ \A g \in Handles : g # h => held'[g] = held[g]
    BY <1>1, <1>2 DEF Holding, Nothing
  <2>9. \A g \in Handles : held[g].ptr \in Nat
    BY <1>2 DEF Holding
  <2>10. ASSUME NEW g \in Handles, held'[g].ptr # 0
         PROVE  /\ UsedAt(kheap', held'[g].ptr - 1)
                /\ held'[g].len <= kheap'.mem[held'[g].ptr - 1].w0
    <3>1. g # h /\ held'[g] = held[g] /\ held[g].ptr # 0
      BY <2>8, <2>10
    <3>2. held[g].ptr # held[h].ptr
      BY <2>1, <3>1 DEF OwnedAt
    <3>3. held[g].ptr - 1 # x
      BY <2>9, <3>2
    <3>4. /\ UsedAt(kheap, held[g].ptr - 1)
          /\ held[g].len <= kheap.mem[held[g].ptr - 1].w0
      BY <2>1, <3>1 DEF OwnedAt
    <3> QED
      BY <2>7, <3>1, <3>3, <3>4
  <2>11. ASSUME NEW z, UsedAt(kheap', z)
         PROVE  \E g \in Handles : held'[g].ptr = z + 1
    <3>1. UsedAt(kheap, z) /\ z # x
      BY <2>7, <2>11
    <3>2. PICK g \in Handles : held[g].ptr = z + 1
      BY <2>1, <3>1 DEF OwnedAt
    <3>3. z \in Nat
      BY <2>1, <3>1, HeapParts, CellsAreWords DEF UsedAt
    <3>4. g # h
      BY <2>9, <3>1, <3>2, <3>3
    <3> QED
      BY <2>8, <3>2, <3>4
  <2>12. ASSUME NEW a \in Handles, NEW b \in Handles,
                held'[a].ptr # 0, held'[a].ptr = held'[b].ptr
         PROVE  a = b
    BY <2>1, <2>8, <2>12 DEF OwnedAt
  <2>13. OwnedAt(kheap', held')
    BY <2>10, <2>11, <2>12 DEF OwnedAt
  <2> QED
    BY <2>7, <2>13
<1>5. fault' = {} => Owned(kheap', held')
  BY <1>1, <1>3, <1>4, OwnedIsOwnedAt
<1> QED
  BY <1>1, <1>2, <1>3, <1>4, <1>5 DEF HeapInv, TypeOK, Holding

(* The invariant of the heap is inductive: whatever sizes the kernel asks  *)
(* for and in whatever order it frees them, as long as no limit has been   *)
(* passed the tags and the arrays describe a tiling of the heap without    *)
(* two free neighbours, in which the used blocks are the ones held.        *)
THEOREM HeapInvariant == Spec => []HeapInv
<1>1. HeapInv /\ [Next]_vars => HeapInv'
  <2> SUFFICES ASSUME HeapInv, [Next]_vars PROVE HeapInv'
    OBVIOUS
  <2>1. ASSUME NEW h \in Handles, NEW req \in Requests, Kmalloc(h, req)
        PROVE  HeapInv'
    BY <2>1, KmallocStep
  <2>2. ASSUME NEW h \in Handles, Kfree(h) PROVE HeapInv'
    BY <2>2, KfreeStep
  <2>3. CASE UNCHANGED vars
    BY <2>3 DEF vars, HeapInv, TypeOK
  <2>4. ASSUME NEW h \in Handles, NEW req \in Requests, KmallocNull(h, req)
        PROVE  HeapInv'
    BY <2>3, <2>4 DEF KmallocNull
  <2> QED
    BY <2>1, <2>2, <2>3, <2>4 DEF Next
<1> QED
  BY <1>1, InitHeapInv, PTL DEF Spec

(* The state of the heap always has its type.                              *)
THEOREM HeapTypeOK == Spec => []TypeOK
<1>1. HeapInv => TypeOK
  BY DEF HeapInv
<1> QED
  BY <1>1, HeapInvariant, PTL

(* The boundary tags and the arrays always describe a tiling of the heap.  *)
THEOREM HeapAlwaysTiled == Spec => []HeapTiled
<1>1. HeapInv => HeapTiled
  BY DEF HeapInv, HeapTiled
<1> QED
  BY <1>1, HeapInvariant, PTL

(* A block is used exactly while a handle holds it.                        *)
THEOREM HeapAlwaysOwned == Spec => []BlocksOwned
<1>1. HeapInv => BlocksOwned
  BY DEF HeapInv, BlocksOwned
<1> QED
  BY <1>1, HeapInvariant, PTL

(* Where the payload of a handle lies.                                     *)
LEMMA PayloadInBlock ==
    ASSUME HeapInv, fault = {}, NEW h \in Handles, Holds(h)
    PROVE  \E i \in Blocks(kheap) :
              /\ held[h].ptr = HeaderOf(kheap, i) + 1
              /\ held[h].ptr + held[h].len <= FooterOf(kheap, i)
              /\ HeapStart <= HeaderOf(kheap, i)
              /\ FooterOf(kheap, i) < HeapEnd
<1>1. /\ kheap \in Heap /\ Tiled(kheap) /\ Owned(kheap, held)
      /\ held \in Holding
  BY DEF HeapInv, TypeOK, Holding
<1>2. PICK i \in Blocks(kheap) :
        /\ held[h].ptr = HeaderOf(kheap, i) + 1
        /\ held[h].len <= kheap.mem[HeaderOf(kheap, i)].w0
  BY <1>1 DEF Owned, Holds
<1>3. kheap.mem[HeaderOf(kheap, i)].w0
        = FooterOf(kheap, i) - HeaderOf(kheap, i) - 1
  BY <1>1, TagsOf
<1>4. /\ HeaderOf(kheap, i) \in Nat /\ FooterOf(kheap, i) \in Nat
      /\ held[h].len \in Nat
  BY <1>1, HeapParts, CellsAreWords DEF Holding
<1>5. /\ HeapStart <= HeaderOf(kheap, i)
      /\ FooterOf(kheap, i) < HeapEnd
  BY <1>1 DEF Tiled, Tagged
<1> QED
  BY <1>2, <1>3, <1>4, <1>5

LEMMA InvPayloadsSafe == HeapInv => PayloadsSafe
<1> SUFFICES ASSUME HeapInv, fault = {} PROVE PayloadsDisjoint
  BY DEF PayloadsSafe
<1>1. /\ kheap \in Heap /\ Tiled(kheap) /\ Owned(kheap, held)
      /\ held \in Holding
  BY DEF HeapInv, TypeOK, Holding
<1>2. /\ \A i \in Blocks(kheap) : /\ HeaderOf(kheap, i) \in Nat
                                  /\ FooterOf(kheap, i) \in Nat
                                  /\ HeaderOf(kheap, i) < FooterOf(kheap, i)
      /\ Blocks(kheap) \subseteq Int
  <2>1. \A i \in Blocks(kheap) : /\ HeaderOf(kheap, i) \in Nat
                                  /\ FooterOf(kheap, i) \in Nat
    BY <1>1, HeapParts, CellsAreWords
  <2>2. \A i \in Blocks(kheap) : HeaderOf(kheap, i) < FooterOf(kheap, i)
    BY <1>1, TagsOf
  <2> QED
    BY <2>1, <2>2 DEF Blocks
<1>3. \A i, j \in Blocks(kheap) :
        i < j => FooterOf(kheap, i) < HeaderOf(kheap, j)
  BY <1>1 DEF Tiled, Ascending
<1>4. \A h \in Handles : held[h].ptr \in Nat /\ held[h].len \in Nat
  BY <1>1 DEF Holding
<1> SUFFICES ASSUME NEW h \in Handles, Holds(h)
             PROVE  /\ held[h].ptr > HeapStart
                    /\ held[h].ptr + held[h].len < HeapEnd
                    /\ \A g \in Handles : g # h /\ Holds(g) =>
                          \/ held[g].ptr + held[g].len <= held[h].ptr
                          \/ held[h].ptr + held[h].len <= held[g].ptr
                    /\ \A i \in Blocks(kheap) :
                          /\ HeaderOf(kheap, i) \notin Payload(h)
                          /\ FooterOf(kheap, i) \notin Payload(h)
  BY DEF PayloadsDisjoint
<1>5. PICK i \in Blocks(kheap) :
        /\ held[h].ptr = HeaderOf(kheap, i) + 1
        /\ held[h].ptr + held[h].len <= FooterOf(kheap, i)
        /\ HeapStart <= HeaderOf(kheap, i)
        /\ FooterOf(kheap, i) < HeapEnd
  BY PayloadInBlock
<1>6. held[h].ptr > HeapStart /\ held[h].ptr + held[h].len < HeapEnd
  BY <1>2, <1>4, <1>5, HeapAssumption DEF HeapEnd
<1>7. ASSUME NEW g \in Handles, g # h, Holds(g)
      PROVE  \/ held[g].ptr + held[g].len <= held[h].ptr
             \/ held[h].ptr + held[h].len <= held[g].ptr
  <2>1. PICK j \in Blocks(kheap) :
          /\ held[g].ptr = HeaderOf(kheap, j) + 1
          /\ held[g].ptr + held[g].len <= FooterOf(kheap, j)
    BY <1>7, PayloadInBlock
  <2>2. held[g].ptr # held[h].ptr
    BY <1>1, <1>7 DEF Owned, Holds
  <2>3. i # j
    BY <1>5, <2>1, <2>2
  <2>4. i < j \/ j < i
    BY <1>2, <2>3
  <2>5. \/ FooterOf(kheap, i) < HeaderOf(kheap, j)
        \/ FooterOf(kheap, j) < HeaderOf(kheap, i)
    BY <1>3, <2>4
  <2>6. /\ HeaderOf(kheap, i) \in Nat /\ FooterOf(kheap, i) \in Nat
        /\ HeaderOf(kheap, j) \in Nat /\ FooterOf(kheap, j) \in Nat
        /\ held[g].len \in Nat /\ held[h].len \in Nat
    BY <1>2, <1>4
  <2> QED
    BY <1>5, <2>1, <2>5, <2>6
<1>8. ASSUME NEW j \in Blocks(kheap)
      PROVE  /\ HeaderOf(kheap, j) \notin Payload(h)
             /\ FooterOf(kheap, j) \notin Payload(h)
  <2>1. /\ HeaderOf(kheap, i) \in Nat /\ FooterOf(kheap, i) \in Nat
        /\ HeaderOf(kheap, j) \in Nat /\ FooterOf(kheap, j) \in Nat
        /\ HeaderOf(kheap, j) < FooterOf(kheap, j)
        /\ held[h].ptr \in Nat /\ held[h].len \in Nat
    BY <1>2, <1>4
  <2>2. \/ i = j
        \/ FooterOf(kheap, i) < HeaderOf(kheap, j)
        \/ FooterOf(kheap, j) < HeaderOf(kheap, i)
    BY <1>2, <1>3
  <2>3. /\ HeaderOf(kheap, j) < held[h].ptr
           \/ held[h].ptr + held[h].len <= HeaderOf(kheap, j)
        /\ FooterOf(kheap, j) < held[h].ptr
           \/ held[h].ptr + held[h].len <= FooterOf(kheap, j)
    BY <1>5, <2>1, <2>2
  <2> QED
    BY <2>1, <2>3 DEF Payload
<1> QED
  BY <1>6, <1>7, <1>8

(* As long as no limit has been passed, no payload overlaps another one or *)
(* a boundary tag: kmalloc never hands out memory that is in use.          *)
THEOREM HeapSafety == Spec => []PayloadsSafe
BY HeapInvariant, InvPayloadsSafe, PTL

(* The first time the subtraction of alloc_from_block wraps, the request   *)
(* is of 80 bytes or less, or was rounded to zero.                         *)
THEOREM LargeRequestsSplitSafely == Spec => SmallSplitsOnly
<1> DEFINE Small(h) == /\ ~ Holds(h) /\ held'[h].ptr # 0
                       /\ held'[h].len < 2 + SplitSlack
           Allowed == fault = {} /\ "split" \in fault' =>
                        "align" \in fault' \/ \E h \in Handles : Small(h)
<1>1. HeapInv /\ [Next]_vars => [Allowed]_vars
  <2> SUFFICES ASSUME HeapInv, Next, fault = {}, "split" \in fault',
                      "align" \notin fault'
               PROVE  \E h \in Handles : Small(h)
    OBVIOUS
  <2>1. PICK h \in Handles, req \in Requests : Kmalloc(h, req)
    BY DEF Next, Kfree, KmallocNull, vars
  <2>2. PICK i \in Blocks(kheap) :
          /\ FirstFit(kheap, i, Align(req))
          /\ fault' = fault \cup Limits(kheap, HeaderOf(kheap, i), req)
          /\ held' = [held EXCEPT ![h] = [ptr |-> HeaderOf(kheap, i) + 1,
                                          len |-> Asked(req)]]
    BY <2>1 DEF Kmalloc, Blocks, HeaderOf
  <2> DEFINE x == HeaderOf(kheap, i)
  <2>3. x \in Cells /\ kheap.mem[x].w0 >= Align(req)
    BY <2>2 DEF FirstFit, Suitable, HeaderOf
  <2>4. kheap.mem[x].w0 \in Nat /\ Align(req) \in Nat
    <3>1. kheap.mem \in [Cells -> Cell]
      BY HeapParts DEF HeapInv, TypeOK
    <3> QED
      BY <2>3, <3>1, RequestTypes, CellsAreWords DEF Cell
  <2>5. kheap.mem[x].w0 < 2 + SplitSlack /\ Asked(req) = Align(req)
    BY <2>2 DEF Limits
  <2>6. held'[h].ptr = x + 1 /\ held'[h].len = Align(req)
    <3>1. held \in [Handles -> [ptr : Nat, len : Nat]]
      BY DEF HeapInv, TypeOK
    <3> QED
      BY <2>2, <2>5, <3>1
  <2>7. x + 1 # 0
    BY <2>3, HeapAssumption DEF Cells
  <2>8. ~ Holds(h)
    BY <2>1 DEF Kmalloc
  <2>9. Align(req) < 2 + SplitSlack
    BY <2>3, <2>4, <2>5 DEF SplitSlack
  <2> QED
    BY <2>6, <2>7, <2>8, <2>9
<1> QED
  BY <1>1, HeapInvariant, PTL DEF Spec, SmallSplitsOnly

(* As long as no limit is passed the allocator implements HeapSpec: every  *)
(* kmalloc gives out an extent of the heap that nobody holds.              *)
THEOREM HeapImplements == Spec /\ [](fault = {}) => ImplementsHeapSpec
<1>1. Init => Abstract!Init
  BY DEF Init, Abstract!Init, Nothing, Abstract!Nothing
<1>2. ASSUME HeapInv, HeapInv', fault = {}, fault' = {}, [Next]_vars
      PROVE  [Abstract!Next]_held
  <2>1. CASE UNCHANGED vars
    BY <2>1 DEF vars
  <2>2. ASSUME NEW h \in Handles, NEW req \in Requests, KmallocNull(h, req)
        PROVE  [Abstract!Next]_held
    BY <2>2 DEF KmallocNull, vars
  <2>3. ASSUME NEW h \in Handles, Kfree(h) PROVE [Abstract!Next]_held
    BY <2>3 DEF Kfree, Holds, Abstract!Next, Abstract!Kfree,
                Nothing, Abstract!Nothing
  <2>4. ASSUME NEW h \in Handles, NEW req \in Requests, Kmalloc(h, req)
        PROVE  [Abstract!Next]_held
    <3>1. PICK i \in Blocks(kheap) :
            /\ FirstFit(kheap, i, Align(req))
            /\ held' = [held EXCEPT ![h] = [ptr |-> HeaderOf(kheap, i) + 1,
                                            len |-> Asked(req)]]
      BY <2>4 DEF Kmalloc, Blocks, HeaderOf
    <3> DEFINE p == HeaderOf(kheap, i) + 1
               n == Asked(req)
    <3>2. held[h].ptr = 0 /\ req # [q |-> 0, r |-> 0]
      BY <2>4 DEF Kmalloc, Holds
    <3>3. n \in Nat /\ n >= 1
      <4>1. /\ req \in [q : 0 .. Word - 1, r : 0 .. 15] /\ Word \in Nat
        BY HeapAssumption
      <4>2. req.q # 0 \/ req.r # 0
        BY <3>2, <4>1
      <4> QED
        BY <4>1, <4>2 DEF Asked
    <3>4. held \in Holding /\ held' \in Holding
      BY <1>2 DEF HeapInv, TypeOK, Holding
    <3>5. /\ held'[h].ptr = p /\ held'[h].len = n
          /\ \A g \in Handles : g # h => held'[g] = held[g]
      BY <3>1, <3>4 DEF Holding
    <3>6. PayloadsDisjoint'
      <4>1. PayloadsSafe'
        BY <1>2, InvPayloadsSafe, PTL
      <4> QED
        BY <1>2, <4>1 DEF PayloadsSafe
    <3>7. p \in Nat
      BY <3>4, <3>5 DEF Holding
    <3>8. p # 0
      <4>1. HeaderOf(kheap, i) \in Cells
        BY <3>1 DEF FirstFit, Suitable, HeaderOf
      <4> QED
        BY <4>1, HeapAssumption DEF Cells
    <3>9. p > HeapStart /\ p + n < HeapEnd
      BY <3>5, <3>6, <3>8 DEF PayloadsDisjoint, Holds
    <3>10. ASSUME NEW g \in Handles, held[g].ptr # 0
           PROVE  p + n <= held[g].ptr \/ held[g].ptr + held[g].len <= p
      <4>1. g # h /\ held'[g] = held[g]
        BY <3>2, <3>5, <3>10
      <4> QED
        BY <3>5, <3>6, <3>8, <3>10, <4>1 DEF PayloadsDisjoint, Holds
    <3> HIDE DEF p, n
    <3>11. /\ p \in HeapStart + 1 .. HeapEnd - 2
           /\ p + n - 1 <= HeapEnd - 2
      BY <3>3, <3>7, <3>9, HeapAssumption DEF HeapEnd
    <3>12. n \in {Asked(r) : r \in Requests}
      BY DEF n
    <3>13. held' = [held EXCEPT ![h] = [ptr |-> p, len |-> n]]
      BY <3>1 DEF p, n
    <3>14. Abstract!Free(p, n)
      BY <3>10 DEF Abstract!Free
    <3>15. Abstract!Kmalloc(h, p, n)
      BY <3>2, <3>11, <3>13, <3>14 DEF Abstract!Kmalloc
    <3> QED
      BY <3>11, <3>12, <3>15 DEF Abstract!Next
  <2> QED
    BY <1>2, <2>1, <2>2, <2>3, <2>4 DEF Next
<1> DEFINE Sound == fault = {}
<1>3. HeapInv /\ HeapInv' /\ Sound /\ Sound' /\ [Next]_vars
        => [Abstract!Next]_held
  BY <1>2
<1> HIDE DEF Sound
<1>4. Spec /\ []Sound => ImplementsHeapSpec
  BY <1>1, <1>3, HeapInvariant, PTL
  DEF Spec, ImplementsHeapSpec, Abstract!Spec
<1> QED
  BY <1>4 DEF Sound

(* The blocks of a tiled heap leave no gap: every granule is in one.       *)
LEMMA BlockAround ==
    ASSUME NEW hp \in Heap, Tiled(hp), NEW lo \in HeapStart .. HeapEnd - 1
    PROVE  \E i \in Blocks(hp) :
              HeaderOf(hp, i) <= lo /\ lo <= FooterOf(hp, i)
<1> DEFINE S == {j \in Blocks(hp) : lo <= FooterOf(hp, j)}
           last == hp.header_array.size - 1
<1>1. /\ \A j \in Blocks(hp) : /\ HeaderOf(hp, j) \in Nat
                               /\ FooterOf(hp, j) \in Nat
      /\ Blocks(hp) \subseteq Nat
  <2>1. \A j \in Blocks(hp) : /\ HeaderOf(hp, j) \in Nat
                              /\ FooterOf(hp, j) \in Nat
    BY HeapParts, CellsAreWords
  <2> QED
    BY <2>1, HeapParts, HeapAssumption DEF Blocks
<1>2. lo \in Nat /\ HeapEnd \in Nat /\ HeapStart \in Nat
  BY HeapAssumption DEF HeapEnd
<1>3. last \in Blocks(hp) /\ FooterOf(hp, last) = HeapEnd - 1
  BY HeapParts, HeapAssumption DEF Tiled, SizesAgree, Spans, Blocks
<1>4. last \in S
  BY <1>2, <1>3
<1>5. PICK i \in S : \A y \in S : i <= y
  <2>1. S \in SUBSET Nat /\ S # {}
    BY <1>1, <1>4
  <2> HIDE DEF S
  <2> QED
    BY <2>1, LeastNumber
<1>6. i \in Blocks(hp) /\ lo <= FooterOf(hp, i) /\ i \in Nat
  BY <1>1, <1>5
<1>7. HeaderOf(hp, i) <= lo
  <2>1. CASE i = 0
    BY <2>1, <1>2 DEF Tiled, Spans
  <2>2. CASE i # 0
    <3>1. i - 1 \in Blocks(hp) /\ (i - 1) + 1 = i
      BY <2>2, <1>6, HeapParts, HeapAssumption DEF Blocks
    <3>2. HeaderOf(hp, i) = FooterOf(hp, i - 1) + 1
      BY <3>1, <1>6 DEF Tiled, Adjacent
    <3>3. i - 1 \notin S
      BY <1>5, <1>6
    <3>4. ~ (lo <= FooterOf(hp, i - 1))
      BY <3>1, <3>3
    <3>5. FooterOf(hp, i - 1) \in Nat
      BY <3>1, <1>1
    <3> QED
      BY <3>2, <3>4, <3>5, <1>2
  <2> QED
    BY <2>1, <2>2
<1> QED
  BY <1>6, <1>7

LEMMA InvRoomIsFound == HeapInv => RoomIsFound
<1> SUFFICES ASSUME HeapInv, fault = {}, NEW req \in Requests,
                    Room(Align(req))
             PROVE  \E i \in Blocks(kheap) : Suitable(kheap, i, Align(req))
  BY DEF RoomIsFound
<1> DEFINE size == Align(req)
<1>1. /\ kheap \in Heap /\ Tiled(kheap) /\ Coalesced(kheap)
      /\ Owned(kheap, held)
  BY DEF HeapInv, TypeOK
<1>2. size \in Nat
  BY RequestTypes
<1> HIDE DEF size
<1>3. PICK lo \in HeapStart .. HeapEnd - (size + 2) :
        \A h \in Handles : Holds(h) =>
            \/ lo + size + 1 < held[h].ptr - 1
            \/ lo > kheap.mem[held[h].ptr - 1].w1
  BY DEF Room, size
<1>4. /\ lo \in Nat /\ lo + size + 1 <= HeapEnd - 1
      /\ lo \in HeapStart .. HeapEnd - 1
      /\ HeapEnd \in Nat
  BY <1>2, HeapAssumption DEF HeapEnd
<1>5. PICK i \in Blocks(kheap) :
        HeaderOf(kheap, i) <= lo /\ lo <= FooterOf(kheap, i)
  BY <1>1, <1>4, BlockAround
(* A used block is held, so the room is wholly below or wholly above it.   *)
<1>6. ASSUME NEW j \in Blocks(kheap), IsUsed(kheap, j)
      PROVE  \/ lo + size + 1 < HeaderOf(kheap, j)
             \/ lo > FooterOf(kheap, j)
  <2>1. PICK h \in Handles : held[h].ptr = HeaderOf(kheap, j) + 1
    BY <1>1, <1>6 DEF Owned
  <2>2. HeaderOf(kheap, j) \in Nat
    BY <1>1, HeapParts, CellsAreWords
  <2>3. Holds(h) /\ held[h].ptr - 1 = HeaderOf(kheap, j)
    BY <2>1, <2>2 DEF Holds
  <2>4. kheap.mem[HeaderOf(kheap, j)].w1 = FooterOf(kheap, j)
    BY <1>1, TagsOf
  <2> QED
    BY <1>3, <2>3, <2>4
<1>7. /\ HeaderOf(kheap, i) \in Nat /\ FooterOf(kheap, i) \in Nat
      /\ HeaderOf(kheap, i) < FooterOf(kheap, i)
      /\ kheap.mem[HeaderOf(kheap, i)].w0 =
           FooterOf(kheap, i) - HeaderOf(kheap, i) - 1
      /\ kheap.mem[HeaderOf(kheap, i)].w2 \in {0, 1}
  <2>1. HeaderOf(kheap, i) \in Nat /\ FooterOf(kheap, i) \in Nat
    BY <1>1, HeapParts, CellsAreWords
  <2> QED
    BY <2>1, <1>1, TagsOf
<1>8. ~ IsUsed(kheap, i)
  BY <1>2, <1>4, <1>5, <1>6, <1>7
<1>9. lo + size + 1 <= FooterOf(kheap, i)
  <2>1. CASE i + 1 \in Blocks(kheap)
    <3>1. IsUsed(kheap, i + 1)
      BY <2>1, <1>1, <1>8 DEF Coalesced
    <3>2. HeaderOf(kheap, i + 1) = FooterOf(kheap, i) + 1
      BY <2>1, <1>1 DEF Tiled, Adjacent
    <3>3. /\ FooterOf(kheap, i + 1) \in Nat
          /\ HeaderOf(kheap, i + 1) < FooterOf(kheap, i + 1)
      BY <2>1, <1>1, HeapParts, CellsAreWords, TagsOf
    <3>4. ~ (lo > FooterOf(kheap, i + 1))
      BY <1>4, <1>5, <1>7, <3>2, <3>3
    <3>5. lo + size + 1 < HeaderOf(kheap, i + 1)
      BY <2>1, <1>6, <3>1, <3>4
    <3> QED
      BY <3>2, <3>5, <1>2, <1>4, <1>7
  <2>2. CASE i + 1 \notin Blocks(kheap)
    <3>1. i = kheap.header_array.size - 1
      BY <2>2, <1>1, HeapParts, HeapAssumption DEF Blocks
    <3>2. FooterOf(kheap, i) = HeapEnd - 1
      BY <3>1, <1>1 DEF Tiled, Spans
    <3> QED
      BY <3>2, <1>4
  <2> QED
    BY <2>1, <2>2
<1>10. kheap.mem[HeaderOf(kheap, i)].w0 >= size
  BY <1>2, <1>4, <1>5, <1>7, <1>9
<1>11. kheap.mem[HeaderOf(kheap, i)].w2 = 0
  BY <1>7, <1>8 DEF IsUsed
<1>12. /\ HeaderOf(kheap, i) \in Cells
       /\ kmm_checks(kheap, HeaderOf(kheap, i), FooterOf(kheap, i))
  BY <1>1, ChecksPass, TagsApart
<1>13. Suitable(kheap, i, size)
  BY <1>10, <1>11, <1>12 DEF Suitable, HeaderOf, FooterOf
<1> QED
  BY <1>13 DEF size

(* As long as no limit has been passed, kmalloc returns NULL only if the   *)
(* memory outside the blocks in use has no room for the block it needs:    *)
(* free leaves no two free neighbours, and the scan of alloc misses none.  *)
THEOREM HeapFindsRoom == Spec => []RoomIsFound
BY HeapInvariant, InvRoomIsFound, PTL
=============================================================================
