----------------------------- MODULE TtyProofs ------------------------------
(***************************************************************************)
(* Proofs about the terminal, for a screen of any size and any number of   *)
(* characters and interrupts: where the cursor can be, how far below the   *)
(* screen a handler can write, and what the screen shows.                  *)
(***************************************************************************)
EXTENDS Tty, NumberFacts, TLAPS

Terminals == [row : Nat, column : Nat, buffer : [Rows -> [Columns -> Nat]], top : Nat]

LEMMA MaxOfTwo ==
    ASSUME NEW a \in Int, NEW b \in Int
    PROVE  Max({a, b}) = IF a >= b THEN a ELSE b
<1> DEFINE L(x) == \A y \in {a, b} : x >= y
<1>1. \E x \in {a, b} : L(x)
  OBVIOUS
<1>2. Max({a, b}) \in {a, b} /\ L(Max({a, b}))
  BY <1>1 DEF Max
<1> QED
  BY <1>2
-----------------------------------------------------------------------------
(* terminal_putchar, field by field                                        *)

LEMMA InitialTerminal == terminal_initialize \in Terminals
<1>1. Blank \in [Columns -> Nat]
  BY DEF Blank
<1> QED
  BY <1>1 DEF terminal_initialize, Terminals

(* The row of the cell behind x and y, and the buffer with it written      *)
RowOf(x, y) == y + x \div VGA_WIDTH
ColumnOf(x) == x % VGA_WIDTH
Written(buffer, stamp, x, yy) ==
    IF yy \in Rows THEN [buffer EXCEPT ![yy] = [@ EXCEPT ![ColumnOf(x)] = stamp]] ELSE buffer

LEMMA PutentryFields ==
    ASSUME NEW t \in Terminals, NEW stamp \in Nat, NEW x \in Nat, NEW y \in Nat
    PROVE  LET u == terminal_putentryat(t, stamp, x, y)
               yy == RowOf(x, y)
           IN  /\ u \in Terminals
               /\ u.row = t.row /\ u.column = t.column
               /\ u.top = IF t.top >= yy THEN t.top ELSE yy
               /\ u.buffer = Written(t.buffer, stamp, x, yy)
<1> DEFINE yy == y + x \div VGA_WIDTH
           xx == x % VGA_WIDTH
           b == Written(t.buffer, stamp, x, yy)
           m == IF t.top >= yy THEN t.top ELSE yy
<1>1. x \div VGA_WIDTH \in Nat /\ xx \in Columns
  BY DivMod, TtyAssumption DEF Columns
<1>2. yy \in Nat /\ t.top \in Nat
  BY <1>1 DEF Terminals
<1>3. Max({t.top, yy}) = m
  BY <1>2, MaxOfTwo
<1>4. b \in [Rows -> [Columns -> Nat]]
  <2>1. t.buffer \in [Rows -> [Columns -> Nat]]
    BY DEF Terminals
  <2> HIDE DEF yy
  <2>2. b = IF yy \in Rows THEN [t.buffer EXCEPT ![yy] = [@ EXCEPT ![xx] = stamp]]
            ELSE t.buffer
    BY DEF Written, ColumnOf
  <2> HIDE DEF xx, b
  <2> QED
    BY <1>1, <2>1, <2>2
<1>5. terminal_putentryat(t, stamp, x, y) = [t EXCEPT !.buffer = b, !.top = m]
  BY <1>3 DEF terminal_putentryat, Written, RowOf, ColumnOf
<1>6. m \in Nat
  BY <1>2
<1> HIDE DEF b, m
<1>7. terminal_putentryat(t, stamp, x, y) =
          [row |-> t.row, column |-> t.column, buffer |-> b, top |-> m]
  BY <1>5 DEF Terminals
<1>8. t.row \in Nat /\ t.column \in Nat
  BY DEF Terminals
<1>9. [row |-> t.row, column |-> t.column, buffer |-> b, top |-> m] \in Terminals
  BY <1>4, <1>6, <1>8 DEF Terminals
<1> QED
  BY <1>7, <1>9 DEF b, m, RowOf

(* ... at the cursor                                                       *)
LEMMA PutentryHere ==
    ASSUME NEW t \in Terminals, NEW stamp \in Nat
    PROVE  LET u == terminal_putentryat(t, stamp, t.column, t.row)
               yy == RowOf(t.column, t.row)
           IN  /\ u \in Terminals
               /\ u.row = t.row /\ u.column = t.column
               /\ u.top = IF t.top >= yy THEN t.top ELSE yy
               /\ u.buffer = Written(t.buffer, stamp, t.column, yy)
<1>1. t.column \in Nat /\ t.row \in Nat
  BY DEF Terminals
<1> QED
  BY <1>1, PutentryFields

Scrolled(buffer) == [y \in Rows |-> IF y + 1 \in Rows THEN buffer[y + 1] ELSE Blank]

LEMMA ScrolledType ==
    ASSUME NEW buffer \in [Rows -> [Columns -> Nat]]
    PROVE  Scrolled(buffer) \in [Rows -> [Columns -> Nat]]
<1>1. Blank \in [Columns -> Nat]
  BY DEF Blank
<1> QED
  BY <1>1 DEF Scrolled

LEMMA NextRowFields ==
    ASSUME NEW t \in Terminals
    PROVE  LET u == NextRow(t)
               last == t.row + 1 = VGA_HEIGHT
           IN  /\ u \in Terminals
               /\ u.row = IF last THEN VGA_HEIGHT - 1 ELSE t.row + 1
               /\ u.column = t.column /\ u.top = t.top
               /\ u.buffer = IF last THEN Scrolled(t.buffer) ELSE t.buffer
<1> DEFINE v == [row |-> VGA_HEIGHT - 1, column |-> t.column,
                 buffer |-> Scrolled(t.buffer), top |-> t.top]
           w == [row |-> t.row + 1, column |-> t.column, buffer |-> t.buffer, top |-> t.top]
<1>1. /\ t.row \in Nat /\ t.column \in Nat /\ t.top \in Nat
      /\ t.buffer \in [Rows -> [Columns -> Nat]]
  BY DEF Terminals
<1>2. v \in Terminals /\ w \in Terminals
  <2>1. VGA_HEIGHT - 1 \in Nat /\ t.row + 1 \in Nat
    BY <1>1, TtyAssumption
  <2> QED
    BY <1>1, <2>1, ScrolledType DEF Terminals
<1>3. NextRow(t) = IF t.row + 1 = VGA_HEIGHT THEN v ELSE w
  <2>1. terminal_scroll(t) = [t EXCEPT !.buffer = Scrolled(t.buffer)]
    BY DEF terminal_scroll, Scrolled
  <2>2. [terminal_scroll(t) EXCEPT !.row = VGA_HEIGHT - 1] = v
    <3>1. terminal_scroll(t) = [row |-> t.row, column |-> t.column,
                                buffer |-> Scrolled(t.buffer), top |-> t.top]
      BY <2>1 DEF Terminals
    <3> QED
      BY <3>1
  <2>3. [t EXCEPT !.row = t.row + 1] = w
    BY DEF Terminals
  <2>4. [t EXCEPT !.row = @ + 1] = [t EXCEPT !.row = t.row + 1]
    OBVIOUS
  <2> HIDE DEF v, w
  <2> QED
    BY <2>2, <2>3, <2>4 DEF NextRow
<1> QED
  BY <1>2, <1>3

LEMMA NewlineFields ==
    ASSUME NEW t \in Terminals, NEW stamp
    PROVE  LET u == terminal_putchar(t, "nl", stamp)
               last == t.row + 1 = VGA_HEIGHT
           IN  /\ u \in Terminals
               /\ u.row = IF last THEN VGA_HEIGHT - 1 ELSE t.row + 1
               /\ u.column = 0 /\ u.top = t.top
               /\ u.buffer = IF last THEN Scrolled(t.buffer) ELSE t.buffer
<1> DEFINE v == NextRow(t)
<1>1. /\ v \in Terminals /\ v.top = t.top
      /\ v.row = IF t.row + 1 = VGA_HEIGHT THEN VGA_HEIGHT - 1 ELSE t.row + 1
      /\ v.buffer = IF t.row + 1 = VGA_HEIGHT THEN Scrolled(t.buffer) ELSE t.buffer
  BY NextRowFields
<1>2. terminal_putchar(t, "nl", stamp) = [v EXCEPT !.column = 0]
  BY DEF terminal_putchar
<1> HIDE DEF v
<1>3. [v EXCEPT !.column = 0] \in Terminals
  BY <1>1 DEF Terminals
<1>4. LET u == [v EXCEPT !.column = 0]
      IN  u.column = 0 /\ u.row = v.row /\ u.top = v.top /\ u.buffer = v.buffer
  BY <1>1 DEF Terminals
<1> QED
  BY <1>1, <1>2, <1>3, <1>4

LEMMA CharacterFields ==
    ASSUME NEW t \in Terminals, NEW stamp \in Nat, NEW ch, ch # "nl"
    PROVE  LET u == terminal_putchar(t, ch, stamp)
               v == terminal_putentryat(t, stamp, t.column, t.row)
               wraps == t.column + 1 = VGA_WIDTH
               last == wraps /\ t.row + 1 = VGA_HEIGHT
           IN  /\ u \in Terminals
               /\ u.row = IF last THEN VGA_HEIGHT - 1
                          ELSE IF wraps THEN t.row + 1 ELSE t.row
               /\ u.column = IF wraps THEN 0 ELSE t.column + 1
               /\ u.top = v.top
               /\ u.buffer = IF last THEN Scrolled(v.buffer) ELSE v.buffer
<1> DEFINE v == terminal_putentryat(t, stamp, t.column, t.row)
           w == [v EXCEPT !.column = 0]
<1>1. t.row \in Nat /\ t.column \in Nat
  BY DEF Terminals
<1>2. v \in Terminals /\ v.row = t.row /\ v.column = t.column
  BY <1>1, PutentryHere
<1>3. terminal_putchar(t, ch, stamp) =
          IF t.column + 1 = VGA_WIDTH THEN NextRow(w) ELSE [v EXCEPT !.column = @ + 1]
  BY DEF terminal_putchar
<1> HIDE DEF v
<1>4. w \in Terminals /\ w.row = v.row /\ w.column = 0 /\ w.top = v.top /\ w.buffer = v.buffer
  BY <1>2 DEF Terminals
<1>5. [v EXCEPT !.column = @ + 1] = [v EXCEPT !.column = t.column + 1]
  BY <1>2
<1>6. LET u == [v EXCEPT !.column = t.column + 1]
      IN  /\ u \in Terminals /\ u.column = t.column + 1
          /\ u.row = v.row /\ u.top = v.top /\ u.buffer = v.buffer
  BY <1>1, <1>2 DEF Terminals
<1> HIDE DEF w
<1>7. LET u == NextRow(w)
      IN  /\ u \in Terminals /\ u.column = 0 /\ u.top = v.top
          /\ u.row = IF t.row + 1 = VGA_HEIGHT THEN VGA_HEIGHT - 1 ELSE t.row + 1
          /\ u.buffer = IF t.row + 1 = VGA_HEIGHT THEN Scrolled(v.buffer) ELSE v.buffer
  BY <1>2, <1>4, NextRowFields
<1>8. CASE t.column + 1 = VGA_WIDTH
  BY <1>3, <1>7, <1>8 DEF v
<1>9. CASE t.column + 1 # VGA_WIDTH
  BY <1>2, <1>3, <1>5, <1>6, <1>9 DEF v
<1> QED
  BY <1>8, <1>9
-----------------------------------------------------------------------------
(* terminal_writestring: the terminal after each character                 *)

Writes(f, n, t, chars, stamp) ==
    f = [k \in 0 .. n |->
            IF k = 0 THEN t ELSE terminal_putchar(f[k - 1], chars[k], stamp + k - 1)]

LEMMA WritesExist ==
    ASSUME NEW t, NEW chars, NEW stamp
    PROVE  \A n \in Nat : \E f : Writes(f, n, t, chars, stamp)
<1> DEFINE W(f, n) == Writes(f, n, t, chars, stamp)
           Next1(f, k) == IF k = 0 THEN t
                          ELSE terminal_putchar(f[k - 1], chars[k], stamp + k - 1)
           Bad == {n \in Nat : ~ \E f : W(f, n)}
<1> SUFFICES ASSUME Bad # {} PROVE FALSE
  OBVIOUS
<1>1. PICK n \in Bad : \A m \in Bad : n <= m
  BY LeastNumber, Bad \subseteq Nat
<1>2. \E g : n # 0 => W(g, n - 1)
  BY <1>1
<1>3. PICK g : n # 0 => W(g, n - 1)
  BY <1>2
<1> DEFINE h == [k \in 0 .. n |-> Next1(g, k)]
<1>4. ASSUME NEW k \in 0 .. n PROVE h[k] = Next1(h, k)
  <2>1. CASE k = 0
    BY <2>1
  <2>2. CASE k # 0
    <3>1. n # 0 /\ k - 1 \in 0 .. n - 1 /\ k - 1 \in 0 .. n
      BY <2>2
    <3>2. g[k - 1] = Next1(g, k - 1)
      BY <1>3, <3>1 DEF Writes
    <3>3. h[k - 1] = g[k - 1]
      BY <3>1, <3>2
    <3> QED
      BY <2>2, <3>3
  <2> QED
    BY <2>1, <2>2
<1>5. W(h, n)
  BY <1>4 DEF Writes
<1> QED
  BY <1>5

LEMMA WritestringIs ==
    ASSUME NEW S, NEW chars \in Seq(S), NEW t, NEW stamp
    PROVE  \E f : /\ terminal_writestring(t, chars, stamp) = f[Len(chars)]
                  /\ f[0] = t
                  /\ \A k \in 1 .. Len(chars) :
                        f[k] = terminal_putchar(f[k - 1], chars[k], stamp + k - 1)
<1> DEFINE n == Len(chars)
           f == CHOOSE f : Writes(f, n, t, chars, stamp)
<1>1. n \in Nat
  OBVIOUS
<1>2. Writes(f, n, t, chars, stamp)
  BY <1>1, WritesExist
<1>3. terminal_writestring(t, chars, stamp) = f[n]
  BY DEF terminal_writestring, Writes
<1> HIDE DEF f
<1>4. f[0] = t
  BY <1>1, <1>2 DEF Writes
<1>5. \A k \in 1 .. n : f[k] = terminal_putchar(f[k - 1], chars[k], stamp + k - 1)
  BY <1>1, <1>2 DEF Writes
<1> QED
  BY <1>3, <1>4, <1>5

(* What irq_handler prints                                                 *)
Message(n) == [k \in 1 .. n + 1 |-> IF k <= n THEN "irq" ELSE "nl"]

LEMMA MessageIs ==
    ASSUME NEW n \in Nat
    PROVE  /\ Message(n) \in Seq({"irq", "nl"}) /\ Len(Message(n)) = n + 1
           /\ \A k \in 1 .. n : Message(n)[k] = "irq"
           /\ Message(n)[n + 1] = "nl"
BY DEF Message

(* The cursor after k characters of a message, and a bound of the rows     *)
(* written, if the message begins at t                                     *)
Along(t, u, k) ==
    /\ u \in Terminals
    /\ t.row \in Rows /\ t.column \in Columns => u.row \in Rows /\ u.column \in Columns
    /\ t.row \notin Rows /\ t.column \in Columns =>
            \/ t.column + k < VGA_WIDTH /\ u.row = t.row /\ u.column = t.column + k
            \/ /\ t.column + k >= VGA_WIDTH
               /\ u.row = t.row + 1 /\ u.column = t.column + k - VGA_WIDTH
    /\ t.column = VGA_WIDTH => u.row = t.row /\ u.column = t.column + k
    /\ \/ u.top = t.top \/ u.top <= t.row + 1 \/ u.top <= VGA_HEIGHT

LEMMA AlongNext ==
    ASSUME NEW t \in Terminals, t.column \in 0 .. VGA_WIDTH, NEW k \in 0 .. VGA_WIDTH - 1,
           NEW u, Along(t, u, k), NEW stamp \in Nat
    PROVE  Along(t, terminal_putchar(u, "irq", stamp), k + 1)
<1> DEFINE w == VGA_WIDTH
           h == VGA_HEIGHT
           v == terminal_putchar(u, "irq", stamp)
           q == u.column \div w
           yy == RowOf(u.column, u.row)
           last == u.column + 1 = w /\ u.row + 1 = h
<1>1. /\ u \in Terminals /\ u.row \in Nat /\ u.column \in Nat /\ u.top \in Nat
      /\ t.row \in Nat /\ t.column \in Nat /\ t.top \in Nat
      /\ w \in Nat \ {0} /\ h \in Nat \ {0}
  BY TtyAssumption DEF Along, Terminals
<1> DEFINE e == terminal_putentryat(u, stamp, u.column, u.row)
<1>2. /\ v \in Terminals
      /\ v.row = IF last THEN h - 1 ELSE IF u.column + 1 = w THEN u.row + 1 ELSE u.row
      /\ v.column = IF u.column + 1 = w THEN 0 ELSE u.column + 1
      /\ v.top = IF u.top >= yy THEN u.top ELSE yy
  <2>1. e.top = IF u.top >= yy THEN u.top ELSE yy
    BY <1>1, PutentryHere
  <2>2. /\ v \in Terminals /\ v.top = e.top
        /\ v.row = IF last THEN h - 1 ELSE IF u.column + 1 = w THEN u.row + 1 ELSE u.row
        /\ v.column = IF u.column + 1 = w THEN 0 ELSE u.column + 1
    BY <1>1, CharacterFields
  <2> QED
    BY <2>1, <2>2
<1>3. q \in Nat /\ (u.column < w => q = 0) /\ (u.column < 2 * w => q <= 1)
  <2>1. u.column < w => u.column \div w < 1
    BY <1>1, DivBelow
  <2>2. u.column < 2 * w => u.column \div w < 2
    BY <1>1, DivBelow
  <2>3. u.column \div w \in Nat
    BY <1>1, DivMod
  <2> QED
    BY <2>1, <2>2, <2>3
<1> SUFFICES Along(t, v, k + 1)
  OBVIOUS
<1> HIDE DEF v, q, e
<1>4. yy = u.row + q /\ yy \in Nat
  BY <1>1, <1>3 DEF RowOf, q
<1> HIDE DEF yy
<1>5. CASE t.row \in Rows /\ t.column \in Columns
  <2>1. u.row < h /\ u.column < w /\ yy = u.row
    BY <1>1, <1>3, <1>4, <1>5 DEF Along, Rows, Columns
  <2>2. v.row \in Rows /\ v.column \in Columns /\ (v.top = u.top \/ v.top <= h)
    BY <1>1, <1>2, <2>1 DEF Rows, Columns
  <2>3. t.column # w
    BY <1>1, <1>5 DEF Columns
  <2> QED
    BY <1>2, <1>5, <2>2, <2>3 DEF Along
<1>6. CASE t.row \notin Rows /\ t.column \in Columns
  <2>1. t.row >= h /\ t.column < w
    BY <1>1, <1>6 DEF Rows, Columns
  <2>2. \/ t.column + k < w /\ u.row = t.row /\ u.column = t.column + k
        \/ t.column + k >= w /\ u.row = t.row + 1 /\ u.column = t.column + k - w
    BY <1>6 DEF Along
  <2>3. u.column < w /\ yy = u.row
    BY <1>1, <1>3, <1>4, <2>1, <2>2
  <2>4. \/ t.column + (k + 1) < w /\ v.row = t.row /\ v.column = t.column + (k + 1)
        \/ t.column + (k + 1) >= w /\ v.row = t.row + 1 /\ v.column = t.column + (k + 1) - w
    BY <1>1, <1>2, <2>1, <2>2
  <2>5. v.top = u.top \/ v.top <= t.row + 1
    BY <1>1, <1>2, <2>2, <2>3
  <2> QED
    BY <1>2, <1>6, <2>1, <2>4, <2>5 DEF Along
<1>7. CASE t.column = w
  <2>1. u.row = t.row /\ u.column = w + k /\ u.column < 2 * w
    BY <1>1, <1>7 DEF Along
  <2>2. yy <= t.row + 1
    BY <1>1, <1>3, <1>4, <2>1
  <2>3. v.row = t.row /\ v.column = t.column + (k + 1) /\ (v.top = u.top \/ v.top <= t.row + 1)
    BY <1>1, <1>2, <1>4, <1>7, <2>1, <2>2
  <2>4. t.column \notin Columns
    BY <1>1, <1>7 DEF Columns
  <2> QED
    BY <1>2, <1>7, <2>3, <2>4 DEF Along
<1>8. t.column \in Columns \/ t.column = w
  BY <1>1 DEF Columns
<1> QED
  BY <1>5, <1>6, <1>7, <1>8

(* A message takes a cursor on the screen to the beginning of a row on the *)
(* screen, and one below the screen one or two rows further; it writes no  *)
(* row below the one after the cursor's, or after the last one.            *)
LEMMA MessagePrinted ==
    ASSUME NEW t \in Terminals, t.column \in 0 .. VGA_WIDTH,
           NEW n \in 0 .. VGA_WIDTH, NEW stamp \in Nat
    PROVE  LET u == terminal_writestring(t, Message(n), stamp)
           IN  /\ u \in Terminals /\ u.column = 0
               /\ t.row \in Rows => u.row \in Rows
               /\ t.row \notin Rows => u.row \in t.row + 1 .. t.row + 2
               /\ u.top = t.top \/ u.top <= t.row + 1 \/ u.top <= VGA_HEIGHT
<1> DEFINE u == terminal_writestring(t, Message(n), stamp)
<1>1. /\ Message(n) \in Seq({"irq", "nl"}) /\ Len(Message(n)) = n + 1
      /\ \A k \in 1 .. n : Message(n)[k] = "irq"
      /\ Message(n)[n + 1] = "nl"
  BY MessageIs
<1>2. PICK f : /\ u = f[n + 1] /\ f[0] = t
               /\ \A k \in 1 .. n + 1 :
                     f[k] = terminal_putchar(f[k - 1], Message(n)[k], stamp + k - 1)
  BY <1>1, WritestringIs
<1> HIDE DEF u
<1>3. /\ t.row \in Nat /\ t.column \in Nat /\ t.top \in Nat
      /\ VGA_WIDTH \in Nat \ {0} /\ VGA_HEIGHT \in Nat \ {0}
  BY TtyAssumption DEF Terminals
<1>4. \A k \in 0 .. n : Along(t, f[k], k)
  <2> DEFINE Bad == {k \in 0 .. n : ~ Along(t, f[k], k)}
  <2> SUFFICES ASSUME Bad # {} PROVE FALSE
    OBVIOUS
  <2>1. PICK k \in Bad : \A j \in Bad : k <= j
    BY LeastNumber, Bad \subseteq Nat
  <2>2. CASE k = 0
    <3>1. Along(t, t, 0)
      BY <1>3 DEF Along, Columns
    <3> QED
      BY <1>2, <2>2, <3>1
  <2>3. CASE k # 0
    <3>1. k - 1 \in 0 .. VGA_WIDTH - 1 /\ k - 1 \in 0 .. n /\ k \in 1 .. n /\ k \in 1 .. n + 1
      BY <2>3, <1>3
    <3>2. Along(t, f[k - 1], k - 1)
      BY <2>1, <3>1
    <3>3. f[k] = terminal_putchar(f[k - 1], "irq", stamp + k - 1)
      BY <1>1, <1>2, <3>1
    <3>4. stamp + k - 1 \in Nat
      BY <3>1
    <3>5. Along(t, f[k], (k - 1) + 1)
      BY <3>1, <3>2, <3>3, <3>4, AlongNext
    <3> QED
      BY <3>1, <3>5
  <2> QED
    BY <2>2, <2>3
<1>5. Along(t, f[n], n)
  BY <1>4
<1>6. u = terminal_putchar(f[n], "nl", stamp + (n + 1) - 1)
  <2>1. n + 1 \in 1 .. n + 1 /\ (n + 1) - 1 = n
    OBVIOUS
  <2> QED
    BY <1>1, <1>2, <2>1
<1>7. /\ f[n] \in Terminals /\ f[n].row \in Nat /\ f[n].column \in Nat
  BY <1>5 DEF Along, Terminals
<1>8. /\ u \in Terminals /\ u.column = 0 /\ u.top = f[n].top
      /\ u.row = IF f[n].row + 1 = VGA_HEIGHT THEN VGA_HEIGHT - 1 ELSE f[n].row + 1
  BY <1>6, <1>7, NewlineFields
<1>9. t.row \in Rows => f[n].row \in Rows
  BY <1>3, <1>5 DEF Along, Columns
<1>10. t.row \notin Rows => f[n].row \in {t.row, t.row + 1}
  BY <1>3, <1>5 DEF Along, Columns
<1>11. t.row \in Rows => u.row \in Rows
  BY <1>3, <1>7, <1>8, <1>9 DEF Rows
<1>12. t.row \notin Rows => u.row \in t.row + 1 .. t.row + 2
  BY <1>3, <1>7, <1>8, <1>10 DEF Rows
<1>13. u.top = t.top \/ u.top <= t.row + 1 \/ u.top <= VGA_HEIGHT
  BY <1>5, <1>8 DEF Along
<1> QED
  BY <1>8, <1>11, <1>12, <1>13 DEF u
-----------------------------------------------------------------------------
(* One cell of a scroll                                                    *)

LEMMA CellRange ==
    ASSUME NEW index \in FirstCell .. LastCell
    PROVE  /\ index \in Nat /\ index \div VGA_WIDTH \in 1 .. VGA_HEIGHT
           /\ index % VGA_WIDTH \in Columns
<1>1. /\ VGA_WIDTH \in Nat \ {0} /\ VGA_HEIGHT + 1 \in Nat /\ VGA_HEIGHT \in Nat
      /\ (VGA_HEIGHT + 1) * VGA_WIDTH \in Nat
  BY TtyAssumption
<1>2. index \in Nat /\ index >= 1 * VGA_WIDTH /\ index < (VGA_HEIGHT + 1) * VGA_WIDTH
  BY <1>1 DEF FirstCell, LastCell
<1>3. index \div VGA_WIDTH < VGA_HEIGHT + 1 /\ ~ (index \div VGA_WIDTH < 1)
  <2>1. index \div VGA_WIDTH < VGA_HEIGHT + 1
    BY <1>1, <1>2, DivBelow
  <2>2. index \div VGA_WIDTH < 1 <=> index < 1 * VGA_WIDTH
    BY <1>1, <1>2, DivBelow
  <2> QED
    BY <1>1, <1>2, <2>1, <2>2
<1>4. index \div VGA_WIDTH \in Nat /\ index % VGA_WIDTH \in Columns
  BY <1>1, <1>2, DivMod DEF Columns
<1> QED
  BY <1>1, <1>2, <1>3, <1>4

LEMMA ScrollCellFields ==
    ASSUME NEW t \in Terminals, NEW index \in FirstCell .. LastCell
    PROVE  LET u == ScrollCell(t, index)
               y == index \div VGA_WIDTH
               x == index % VGA_WIDTH
           IN  /\ u \in Terminals
               /\ u.row = t.row /\ u.column = t.column /\ u.top = t.top
               /\ \A r \in Rows, c \in Columns :
                     u.buffer[r][c] = IF r = y - 1 /\ c = x
                                      THEN IF y < VGA_HEIGHT THEN t.buffer[y][x] ELSE 0
                                      ELSE t.buffer[r][c]
<1> DEFINE y == index \div VGA_WIDTH
           x == index % VGA_WIDTH
           cell == IF y < VGA_HEIGHT THEN t.buffer[y][x] ELSE 0
           b == [t.buffer EXCEPT ![y - 1] = [@ EXCEPT ![x] = cell]]
<1>1. /\ y \in 1 .. VGA_HEIGHT /\ x \in Columns
  BY CellRange
<1>2. t.buffer \in [Rows -> [Columns -> Nat]]
  BY DEF Terminals
<1>3. ScrollCell(t, index) = [t EXCEPT !.buffer = b]
  BY DEF ScrollCell
<1> HIDE DEF y, x
<1>4. y - 1 \in Rows /\ (y < VGA_HEIGHT => y \in Rows)
  BY <1>1, TtyAssumption DEF Rows
<1>5. cell \in Nat
  BY <1>1, <1>2, <1>4
<1> HIDE DEF cell
<1>6. b \in [Rows -> [Columns -> Nat]]
  BY <1>1, <1>2, <1>4, <1>5
<1>7. \A r \in Rows, c \in Columns :
         b[r][c] = IF r = y - 1 /\ c = x THEN cell ELSE t.buffer[r][c]
  BY <1>1, <1>2, <1>4
<1> HIDE DEF b
<1>8. [t EXCEPT !.buffer = b] = [row |-> t.row, column |-> t.column, buffer |-> b, top |-> t.top]
  BY DEF Terminals
<1>9. [row |-> t.row, column |-> t.column, buffer |-> b, top |-> t.top] \in Terminals
  BY <1>6 DEF Terminals
<1> QED
  BY <1>3, <1>7, <1>8, <1>9 DEF cell, x, y
-----------------------------------------------------------------------------
(* Where the cursor can be                                                 *)

Pcs == {"idle", "index", "cell", "load_column", "store_column", "compare_column", "wrap",
        "load_row", "store_row", "compare_row", "scroll", "reset_row", "reset_column"}

TypeInv ==
    /\ tty \in Terminals /\ pc \in Pcs /\ reg \in Nat /\ irqs \in Nat
    /\ hit \in {"never", "healed", "lost"}
    /\ text \in Seq({"own", "nl", "irq"})
    /\ mine \in 0 .. Len(text) /\ (pc # "idle" => mine # 0)

(* The column is VGA_WIDTH only until it is compared again.                *)
ColumnInv ==
    /\ tty.column \in 0 .. VGA_WIDTH
    /\ tty.column = VGA_WIDTH => pc \in {"compare_column", "wrap"}
    /\ pc = "store_column" => reg \in 1 .. VGA_WIDTH

(* Before the cursor is lost, the row is below the screen only until it is *)
(* compared, and while the scroll is going on, two rows for each handler.  *)
RowInv ==
    hit # "lost" =>
        /\ \/ tty.row \in Rows
           \/ pc = "compare_row" /\ tty.row = VGA_HEIGHT
           \/ /\ pc \in {"scroll", "reset_row"}
              /\ tty.row \in VGA_HEIGHT .. VGA_HEIGHT + 2 * irqs
        /\ pc = "store_row" => reg \in 1 .. VGA_HEIGHT
        /\ pc = "index" => reg \in Rows
        /\ pc = "cell" => reg < VGA_HEIGHT * VGA_WIDTH

(* After that it stays beyond the comparison.                              *)
LostInv ==
    hit = "lost" =>
        /\ tty.row > VGA_HEIGHT
        /\ pc \notin {"scroll", "reset_row"}
        /\ pc = "store_row" => reg > VGA_HEIGHT + 1

ScrollInv == pc = "scroll" => reg \in FirstCell .. LastCell

CursorInv == TypeInv /\ ColumnInv /\ RowInv /\ LostInv /\ ScrollInv /\ OvershootBounded

LEMMA CursorInit == Init => CursorInv
<1> SUFFICES ASSUME Init PROVE CursorInv
  OBVIOUS
<1>1. /\ tty \in Terminals /\ tty.row = 0 /\ tty.column = 0 /\ tty.top = 0
  BY InitialTerminal DEF Init, terminal_initialize
<1>2. VGA_WIDTH \in Nat \ {0} /\ VGA_HEIGHT \in Nat \ {0} /\ 0 \in Rows
  BY TtyAssumption DEF Rows
<1>3. TypeInv
  BY <1>1 DEF Init, TypeInv, Pcs
<1>4. ColumnInv /\ ScrollInv
  BY <1>1, <1>2 DEF Init, ColumnInv, ScrollInv
<1>5. RowInv /\ LostInv
  BY <1>1, <1>2 DEF Init, RowInv, LostInv
<1>6. OvershootBounded
  BY <1>1, <1>2 DEF Init, OvershootBounded
<1> QED
  BY <1>3, <1>4, <1>5, <1>6 DEF CursorInv

LEMMA RowUpdate ==
    ASSUME NEW t \in Terminals, NEW r \in Nat
    PROVE  LET u == [t EXCEPT !.row = r]
           IN  /\ u \in Terminals /\ u.row = r
               /\ u.column = t.column /\ u.buffer = t.buffer /\ u.top = t.top
BY DEF Terminals

LEMMA ColumnUpdate ==
    ASSUME NEW t \in Terminals, NEW c \in Nat
    PROVE  LET u == [t EXCEPT !.column = c]
           IN  /\ u \in Terminals /\ u.column = c
               /\ u.row = t.row /\ u.buffer = t.buffer /\ u.top = t.top
BY DEF Terminals

LEMMA CursorIrq ==
    ASSUME CursorInv, NEW n \in Messages, irq_handler(n)
    PROVE  CursorInv'
<1>1. /\ VGA_WIDTH \in Nat \ {0} /\ VGA_HEIGHT \in Nat \ {0} /\ n \in 0 .. VGA_WIDTH
      /\ n \in Nat
  BY TtyAssumption
<1>2. /\ tty' = terminal_writestring(tty, Message(n), Len(text) + 1)
      /\ text' = text \o Message(n)
  BY DEF irq_handler, Message
<1>3. irqs' = irqs + 1 /\ pc' = pc /\ reg' = reg /\ mine' = mine
  BY DEF irq_handler
<1>a. ColumnInv /\ RowInv /\ LostInv /\ ScrollInv /\ OvershootBounded /\ TypeInv
  BY DEF CursorInv
<1>b. tty \in Terminals /\ tty.row \in Nat /\ tty.column \in Nat /\ tty.top \in Nat
  BY <1>a DEF TypeInv, Terminals
<1>c. pc \in Pcs /\ reg \in Nat /\ irqs \in Nat /\ hit \in {"never", "healed", "lost"}
  BY <1>a DEF TypeInv
<1>d. text \in Seq({"own", "nl", "irq"}) /\ mine \in 0 .. Len(text) /\ (pc # "idle" => mine # 0)
  BY <1>a DEF TypeInv
<1>4. /\ tty' \in Terminals /\ tty'.column = 0
      /\ tty.row \in Rows => tty'.row \in Rows
      /\ tty.row \notin Rows => tty'.row \in tty.row + 1 .. tty.row + 2
      /\ tty'.top = tty.top \/ tty'.top <= tty.row + 1 \/ tty'.top <= VGA_HEIGHT
  <2>1. tty.column \in 0 .. VGA_WIDTH
    BY <1>a DEF ColumnInv
  <2>2. Len(text) + 1 \in Nat
    BY <1>d
  <2> QED
    BY <1>1, <1>2, <1>b, <2>1, <2>2, MessagePrinted
<1>5. /\ hit' \in {"never", "healed", "lost"}
      /\ hit' = "lost" <=> hit = "lost" \/ (pc = "compare_row" /\ tty.row = VGA_HEIGHT)
  <2>1. hit' = IF pc = "compare_row" /\ tty.row = VGA_HEIGHT THEN "lost"
               ELSE IF pc # "idle" /\ hit = "never" THEN "healed" ELSE hit
    BY DEF irq_handler
  <2> QED
    BY <1>c, <2>1
<1>6. /\ hit' = "lost" => hit = "lost" \/ (pc = "compare_row" /\ tty.row = VGA_HEIGHT)
      /\ hit' # "lost" => hit # "lost" /\ ~ (pc = "compare_row" /\ tty.row = VGA_HEIGHT)
  BY <1>5
<1>7. TypeInv'
  <2>1. text' \in Seq({"own", "nl", "irq"}) /\ Len(text') = Len(text) + (n + 1)
    <3>1. Message(n) \in Seq({"own", "nl", "irq"}) /\ Len(Message(n)) = n + 1
      BY <1>1 DEF Message
    <3>2. text' = text \o Message(n)
      BY <1>2
    <3> DEFINE m == Message(n)
    <3> HIDE DEF m
    <3>3. m \in Seq({"own", "nl", "irq"}) /\ Len(m) = n + 1 /\ text' = text \o m
      BY <3>1, <3>2 DEF m
    <3>4. text \in Seq({"own", "nl", "irq"})
      BY <1>d
    <3> QED
      BY <1>1, <3>3, <3>4
  <2>2. mine' \in 0 .. Len(text')
    BY <1>1, <1>3, <1>d, <2>1
  <2>3. irqs' \in Nat
    BY <1>3, <1>c
  <2> QED
    BY <1>3, <1>c, <1>d, <1>4, <1>5, <2>1, <2>2, <2>3 DEF TypeInv
<1>8. ColumnInv' /\ ScrollInv'
  <2>1. ScrollInv'
    BY <1>3, <1>a DEF ScrollInv
  <2>2. tty'.column \in 0 .. VGA_WIDTH /\ tty'.column # VGA_WIDTH
    BY <1>1, <1>4
  <2>3. (pc = "store_column" => reg \in 1 .. VGA_WIDTH)'
    BY <1>3, <1>a DEF ColumnInv
  <2> QED
    BY <2>1, <2>2, <2>3 DEF ColumnInv
<1>9. RowInv'
  <2> SUFFICES ASSUME hit' # "lost" PROVE RowInv'
    BY DEF RowInv
  <2>1. hit # "lost" /\ ~ (pc = "compare_row" /\ tty.row = VGA_HEIGHT)
    BY <1>6
  <2>2. /\ \/ tty.row \in Rows
           \/ /\ pc \in {"scroll", "reset_row"}
              /\ tty.row \in VGA_HEIGHT .. VGA_HEIGHT + 2 * irqs
        /\ pc = "store_row" => reg \in 1 .. VGA_HEIGHT
        /\ pc = "index" => reg \in Rows
        /\ pc = "cell" => reg < VGA_HEIGHT * VGA_WIDTH
    BY <1>a, <2>1 DEF RowInv
  <2>3. \/ tty'.row \in Rows
        \/ /\ pc \in {"scroll", "reset_row"}
           /\ tty'.row \in VGA_HEIGHT .. VGA_HEIGHT + 2 * (irqs + 1)
    <3> DEFINE r == tty.row
               rr == tty'.row
    <3>1. /\ r \in Nat /\ rr \in Nat
          /\ r \in Rows => rr \in Rows
          /\ r \notin Rows => rr \in r + 1 .. r + 2
      BY <1>b, <1>4 DEF Terminals
    <3>2. r \in Rows \/ (pc \in {"scroll", "reset_row"} /\ r \in VGA_HEIGHT .. VGA_HEIGHT + 2 * irqs)
      BY <2>2
    <3> HIDE DEF r, rr
    <3>3. rr \in Rows \/ (pc \in {"scroll", "reset_row"} /\ rr \in VGA_HEIGHT .. VGA_HEIGHT + 2 * (irqs + 1))
      <4>1. r \notin Rows /\ r \in VGA_HEIGHT .. VGA_HEIGHT + 2 * irqs =>
                rr \in VGA_HEIGHT .. VGA_HEIGHT + 2 * (irqs + 1)
        BY <1>1, <1>c, <3>1
      <4> QED
        BY <3>1, <3>2, <4>1
    <3> QED
      BY <3>3 DEF rr
  <2> QED
    BY <1>3, <2>2, <2>3 DEF RowInv
<1>10. LostInv'
  <2> SUFFICES ASSUME hit' = "lost" PROVE LostInv'
    BY DEF LostInv
  <2>1. \/ /\ hit = "lost" /\ tty.row > VGA_HEIGHT
           /\ pc \notin {"scroll", "reset_row"}
           /\ pc = "store_row" => reg > VGA_HEIGHT + 1
        \/ pc = "compare_row" /\ tty.row = VGA_HEIGHT
    BY <1>6, <1>a DEF LostInv
  <2> DEFINE r == tty.row
  <2>a. r \in Nat /\ (r > VGA_HEIGHT \/ r = VGA_HEIGHT)
    BY <1>b, <2>1
  <2>2. r >= VGA_HEIGHT /\ r \notin Rows
    <3> HIDE DEF r
    <3> QED
      BY <1>1, <2>a DEF Rows
  <2>3. tty'.row > VGA_HEIGHT
    BY <1>1, <1>b, <1>4, <2>2
  <2> QED
    BY <1>3, <2>1, <2>3 DEF LostInv
<1>11. OvershootBounded'
  <2> SUFFICES ASSUME hit' # "lost" PROVE tty'.top < VGA_HEIGHT + 2 * irqs'
    BY DEF OvershootBounded
  <2>1. tty.top < VGA_HEIGHT + 2 * irqs
    BY <1>6, <1>a DEF OvershootBounded
  <2>2. tty.row <= VGA_HEIGHT + 2 * irqs
    <3> DEFINE r == tty.row
    <3>1. r \in Nat /\ (r \in Rows \/ r = VGA_HEIGHT \/ r \in VGA_HEIGHT .. VGA_HEIGHT + 2 * irqs)
      BY <1>a, <1>b, <1>6 DEF RowInv
    <3> SUFFICES r <= VGA_HEIGHT + 2 * irqs
      OBVIOUS
    <3> HIDE DEF r
    <3> QED
      BY <1>1, <1>c, <3>1 DEF Rows
  <2>3. tty'.top \in Nat /\ VGA_HEIGHT + 2 * irqs \in Nat
    BY <1>1, <1>c, <1>4 DEF Terminals
  <2> QED
    BY <1>1, <1>3, <1>b, <1>c, <1>4, <2>1, <2>2, <2>3
<1> QED
  BY <1>7, <1>8, <1>9, <1>10, <1>11 DEF CursorInv

(* The invariant as a condition on numbers                                 *)
CursorAt(p, row, column, top, r, i, h) ==
    /\ column \in 0 .. VGA_WIDTH
    /\ column = VGA_WIDTH => p \in {"compare_column", "wrap"}
    /\ p = "store_column" => r \in 1 .. VGA_WIDTH
    /\ p = "scroll" => r \in FirstCell .. LastCell
    /\ h # "lost" =>
        /\ \/ row \in Rows
           \/ p = "compare_row" /\ row = VGA_HEIGHT
           \/ p \in {"scroll", "reset_row"} /\ row \in VGA_HEIGHT .. VGA_HEIGHT + 2 * i
        /\ p = "store_row" => r \in 1 .. VGA_HEIGHT
        /\ p = "index" => r \in Rows
        /\ p = "cell" => r < VGA_HEIGHT * VGA_WIDTH
        /\ top < VGA_HEIGHT + 2 * i
    /\ h = "lost" =>
        /\ row > VGA_HEIGHT /\ p \notin {"scroll", "reset_row"}
        /\ p = "store_row" => r > VGA_HEIGHT + 1

LEMMA CursorInvIs ==
    CursorInv <=> TypeInv /\ CursorAt(pc, tty.row, tty.column, tty.top, reg, irqs, hit)
BY DEF CursorInv, ColumnInv, RowInv, LostInv, ScrollInv, OvershootBounded, CursorAt

LEMMA CursorColumns ==
    ASSUME NEW row \in Nat, NEW column \in Nat, NEW top \in Nat, NEW r \in Nat, NEW i \in Nat,
           NEW h
    PROVE  /\ CursorAt("idle", row, column, top, r, i, h) =>
                /\ CursorAt("index", row, column, top, row, i, h)
                /\ CursorAt("load_row", row, column, top, 0, i, h)
           /\ CursorAt("load_column", row, column, top, r, i, h) =>
                CursorAt("store_column", row, column, top, column + 1, i, h)
           /\ CursorAt("store_column", row, column, top, r, i, h) =>
                CursorAt("compare_column", row, r, top, r, i, h)
           /\ CursorAt("compare_column", row, column, top, r, i, h) =>
                CursorAt(IF column = VGA_WIDTH THEN "wrap" ELSE "idle", row, column, top, r, i, h)
           /\ CursorAt("wrap", row, column, top, r, i, h) =>
                CursorAt("load_row", row, 0, top, r, i, h)
           /\ CursorAt("reset_column", row, column, top, r, i, h) =>
                CursorAt("idle", row, 0, top, r, i, h)
<1>1. VGA_WIDTH \in Nat \ {0} /\ VGA_HEIGHT \in Nat \ {0}
  BY TtyAssumption
<1>2. CursorAt("idle", row, column, top, r, i, h) =>
                /\ CursorAt("index", row, column, top, row, i, h)
                /\ CursorAt("load_row", row, column, top, 0, i, h)
  BY <1>1 DEF CursorAt
<1>3. CursorAt("load_column", row, column, top, r, i, h) =>
                CursorAt("store_column", row, column, top, column + 1, i, h)
  BY <1>1 DEF CursorAt
<1>4. CursorAt("store_column", row, column, top, r, i, h) =>
                CursorAt("compare_column", row, r, top, r, i, h)
  BY <1>1 DEF CursorAt
<1>5. CursorAt("compare_column", row, column, top, r, i, h) =>
                CursorAt(IF column = VGA_WIDTH THEN "wrap" ELSE "idle", row, column, top, r, i, h)
  BY <1>1 DEF CursorAt
<1>6. CursorAt("wrap", row, column, top, r, i, h) =>
                CursorAt("load_row", row, 0, top, r, i, h)
  BY <1>1 DEF CursorAt
<1>7. CursorAt("reset_column", row, column, top, r, i, h) =>
                CursorAt("idle", row, 0, top, r, i, h)
  BY <1>1 DEF CursorAt
<1> QED
  BY <1>2, <1>3, <1>4, <1>5, <1>6, <1>7

LEMMA CursorRows ==
    ASSUME NEW row \in Nat, NEW column \in Nat, NEW top \in Nat, NEW r \in Nat, NEW i \in Nat,
           NEW h, NEW q \in {"reset_column", "idle"}
    PROVE  /\ CursorAt("load_row", row, column, top, r, i, h) =>
                CursorAt("store_row", row, column, top, row + 1, i, h)
           /\ CursorAt("store_row", row, column, top, r, i, h) =>
                CursorAt("compare_row", r, column, top, r, i, h)
           /\ CursorAt("compare_row", row, column, top, r, i, h) =>
                CursorAt(IF row = VGA_HEIGHT THEN "scroll" ELSE q,
                         row, column, top, FirstCell, i, h)
           /\ CursorAt("scroll", row, column, top, r, i, h) =>
                CursorAt(IF r = LastCell THEN "reset_row" ELSE "scroll",
                         row, column, top, r + 1, i, h)
           /\ CursorAt("reset_row", row, column, top, r, i, h) =>
                CursorAt(q, VGA_HEIGHT - 1, column, top, r, i, h)
<1>1. VGA_WIDTH \in Nat \ {0} /\ VGA_HEIGHT \in Nat \ {0}
  BY TtyAssumption
<1>2. CursorAt("load_row", row, column, top, r, i, h) =>
                CursorAt("store_row", row, column, top, row + 1, i, h)
  BY <1>1 DEF CursorAt, Rows
<1>3. CursorAt("store_row", row, column, top, r, i, h) =>
                CursorAt("compare_row", r, column, top, r, i, h)
  BY <1>1 DEF CursorAt, Rows
<1>4. FirstCell \in FirstCell .. LastCell
  <2>1. (VGA_HEIGHT + 1) * VGA_WIDTH = VGA_HEIGHT * VGA_WIDTH + VGA_WIDTH
    BY <1>1
  <2>2. VGA_HEIGHT * VGA_WIDTH \in Nat \ {0}
    <3>1. 1 * VGA_WIDTH <= VGA_HEIGHT * VGA_WIDTH
      BY <1>1, TimesMonotone
    <3>2. VGA_HEIGHT * VGA_WIDTH \in Nat
      BY <1>1
    <3> QED
      BY <1>1, <3>1, <3>2
  <2> QED
    BY <1>1, <2>1, <2>2 DEF FirstCell, LastCell
<1>5. CursorAt("compare_row", row, column, top, r, i, h) =>
                CursorAt(IF row = VGA_HEIGHT THEN "scroll" ELSE q,
                         row, column, top, FirstCell, i, h)
  <2>1. CASE row = VGA_HEIGHT
    BY <1>1, <1>4, <2>1 DEF CursorAt, Rows
  <2>2. CASE row # VGA_HEIGHT
    BY <1>1, <2>2 DEF CursorAt, Rows
  <2> QED
    BY <2>1, <2>2
<1>6. CursorAt("scroll", row, column, top, r, i, h) =>
                CursorAt(IF r = LastCell THEN "reset_row" ELSE "scroll",
                         row, column, top, r + 1, i, h)
  <2>1. FirstCell \in Int /\ LastCell \in Int
    BY <1>1 DEF FirstCell, LastCell
  <2> QED
    BY <1>1, <2>1 DEF CursorAt
<1>7. CursorAt("reset_row", row, column, top, r, i, h) =>
                CursorAt(q, VGA_HEIGHT - 1, column, top, r, i, h)
  BY <1>1 DEF CursorAt, Rows
<1> QED
  BY <1>2, <1>3, <1>5, <1>6, <1>7

LEMMA CursorCells ==
    ASSUME NEW row \in Nat, NEW column \in Nat, NEW top \in Nat, NEW r \in Nat, NEW i \in Nat,
           NEW h
    PROVE  /\ CursorAt("index", row, column, top, r, i, h) =>
                CursorAt("cell", row, column, top, r * VGA_WIDTH + column, i, h)
           /\ CursorAt("cell", row, column, top, r, i, h) =>
                \A new \in {top, RowOf(r, 0)} : CursorAt("load_column", row, column, new, r, i, h)
<1>1. VGA_WIDTH \in Nat \ {0} /\ VGA_HEIGHT \in Nat \ {0}
  BY TtyAssumption
<1>2. ASSUME CursorAt("index", row, column, top, r, i, h)
      PROVE  CursorAt("cell", row, column, top, r * VGA_WIDTH + column, i, h)
  <2>1. column < VGA_WIDTH
    BY <1>1, <1>2 DEF CursorAt
  <2>2. h # "lost" => r * VGA_WIDTH + column < VGA_HEIGHT * VGA_WIDTH
    <3> SUFFICES ASSUME h # "lost" PROVE r * VGA_WIDTH + column < VGA_HEIGHT * VGA_WIDTH
      OBVIOUS
    <3>1. r <= VGA_HEIGHT - 1
      BY <1>1, <1>2 DEF CursorAt, Rows
    <3>2. r * VGA_WIDTH <= (VGA_HEIGHT - 1) * VGA_WIDTH
      BY <1>1, <3>1, TimesMonotone
    <3>3. /\ (VGA_HEIGHT - 1) * VGA_WIDTH = VGA_HEIGHT * VGA_WIDTH - VGA_WIDTH
          /\ r * VGA_WIDTH \in Nat /\ VGA_HEIGHT * VGA_WIDTH \in Nat
      BY <1>1
    <3> QED
      BY <1>1, <2>1, <3>2, <3>3
  <2> HIDE DEF Rows
  <2> QED
    BY <1>2, <2>2 DEF CursorAt
<1>3. ASSUME CursorAt("cell", row, column, top, r, i, h), NEW new \in {top, RowOf(r, 0)}
      PROVE  CursorAt("load_column", row, column, new, r, i, h)
  <2>1. h # "lost" => RowOf(r, 0) < VGA_HEIGHT
    <3>1. h # "lost" => r < VGA_HEIGHT * VGA_WIDTH
      BY <1>3 DEF CursorAt
    <3>2. h # "lost" => r \div VGA_WIDTH < VGA_HEIGHT
      BY <1>1, <3>1, DivBelow
    <3>3. r \div VGA_WIDTH \in Nat
      BY <1>1, DivMod
    <3> QED
      BY <3>2, <3>3 DEF RowOf
  <2>2. RowOf(r, 0) \in Nat
    BY <1>1, DivMod DEF RowOf
  <2>3. h # "lost" => new < VGA_HEIGHT + 2 * i
    <3>1. h # "lost" => top < VGA_HEIGHT + 2 * i
      BY <1>3 DEF CursorAt
    <3> QED
      BY <1>1, <2>1, <2>2, <3>1
  <2> QED
    BY <1>3, <2>3 DEF CursorAt
<1> QED
  BY <1>2, <1>3

LEMMA CursorWritten ==
    ASSUME NEW row \in Nat, NEW column \in Nat, NEW top \in Nat, NEW r \in Nat, NEW i \in Nat,
           NEW h, CursorAt("cell", row, column, top, r, i, h), NEW new \in {top, RowOf(r, 0)}
    PROVE  CursorAt("load_column", row, column, new, r, i, h)
BY CursorCells

LEMMA CursorCompared ==
    ASSUME NEW row \in Nat, NEW column \in Nat, NEW top \in Nat, NEW r \in Nat, NEW i \in Nat,
           NEW h, NEW q \in {"reset_column", "idle"}, CursorAt("compare_row", row, column, top, r, i, h)
    PROVE  CursorAt(IF row = VGA_HEIGHT THEN "scroll" ELSE q, row, column, top, FirstCell, i, h)
BY CursorRows

LEMMA CursorReset ==
    ASSUME NEW row \in Nat, NEW column \in Nat, NEW top \in Nat, NEW r \in Nat, NEW i \in Nat,
           NEW h, NEW q \in {"reset_column", "idle"}, CursorAt("reset_row", row, column, top, r, i, h)
    PROVE  CursorAt(q, VGA_HEIGHT - 1, column, top, r, i, h)
BY CursorRows

(* A step of the interrupted code, given what it does to the numbers       *)
LEMMA CursorKept ==
    ASSUME CursorInv, tty' \in Terminals, pc' \in Pcs, reg' \in Nat,
           irqs' = irqs, hit' = hit,
           pc # "idle" /\ text' = text /\ mine' = mine,
           CursorAt(pc', tty'.row, tty'.column, tty'.top, reg', irqs, hit)
    PROVE  CursorInv'
<1>1. TypeInv'
  BY DEF CursorInv, TypeInv
<1>2. CursorAt(pc, tty.row, tty.column, tty.top, reg, irqs, hit)'
  OBVIOUS
<1>3. (TypeInv /\ CursorAt(pc, tty.row, tty.column, tty.top, reg, irqs, hit))' => CursorInv'
  BY CursorInvIs, PTL
<1> QED
  BY <1>1, <1>2, <1>3

LEMMA CursorPutchar ==
    ASSUME CursorInv, NEW ch \in {"own", "nl"}, Putchar(ch)
    PROVE  CursorInv'
<1>1. TypeInv /\ CursorAt("idle", tty.row, tty.column, tty.top, reg, irqs, hit)
  BY CursorInvIs DEF Putchar
<1>2. /\ tty \in Terminals /\ tty.row \in Nat /\ tty.column \in Nat /\ tty.top \in Nat
      /\ reg \in Nat /\ irqs \in Nat
  BY <1>1 DEF TypeInv, Terminals
<1>3. text \in Seq({"own", "nl", "irq"})
  BY <1>1 DEF TypeInv
<1>4. /\ pc' = IF ch = "nl" THEN "load_row" ELSE "index"
      /\ reg' = IF ch = "nl" THEN 0 ELSE tty.row
      /\ tty' = tty /\ irqs' = irqs /\ hit' = hit
      /\ text' = Append(text, ch) /\ mine' = Len(text) + 1
  BY DEF Putchar
<1>5. text' \in Seq({"own", "nl", "irq"}) /\ mine' \in 0 .. Len(text') /\ mine' # 0
  BY <1>3, <1>4
<1>6. TypeInv'
  BY <1>1, <1>2, <1>4, <1>5 DEF TypeInv, Pcs
<1>7. /\ CursorAt("index", tty.row, tty.column, tty.top, tty.row, irqs, hit)
      /\ CursorAt("load_row", tty.row, tty.column, tty.top, 0, irqs, hit)
  BY <1>1, <1>2, CursorColumns
<1>8. CursorAt(pc, tty.row, tty.column, tty.top, reg, irqs, hit)'
  BY <1>4, <1>7
<1>9. (TypeInv /\ CursorAt(pc, tty.row, tty.column, tty.top, reg, irqs, hit))' => CursorInv'
  BY CursorInvIs, PTL
<1> QED
  BY <1>6, <1>8, <1>9

LEMMA CursorOwn ==
    ASSUME CursorInv,
           \/ Index \/ WriteCell \/ LoadColumn \/ StoreColumn \/ CompareColumn \/ Wrap
           \/ LoadRow \/ StoreRow \/ CompareRow \/ Scroll \/ ResetRow \/ ResetColumn
    PROVE  CursorInv'
<1> DEFINE At(p, t, r) == CursorAt(p, t.row, t.column, t.top, r, irqs, hit)
<1>1. TypeInv /\ At(pc, tty, reg)
  BY CursorInvIs
<1>2. /\ tty \in Terminals /\ tty.row \in Nat /\ tty.column \in Nat /\ tty.top \in Nat
      /\ reg \in Nat /\ irqs \in Nat
      /\ VGA_WIDTH \in Nat \ {0} /\ VGA_HEIGHT \in Nat \ {0}
  BY <1>1, TtyAssumption DEF TypeInv, Terminals
<1> SUFFICES /\ tty' \in Terminals /\ pc' \in Pcs /\ reg' \in Nat
             /\ irqs' = irqs /\ hit' = hit
             /\ pc # "idle" /\ text' = text /\ mine' = mine
             /\ At(pc', tty', reg')
  BY CursorKept
<1> HIDE DEF At
<1>3. CASE Index
  <2>1. reg * VGA_WIDTH + tty.column \in Nat
    BY <1>2
  <2>2. At("cell", tty, reg * VGA_WIDTH + tty.column)
    BY <1>1, <1>2, <1>3, CursorCells DEF At, Index
  <2> QED
    BY <1>2, <1>3, <2>1, <2>2 DEF Index, Pcs
<1>4. CASE WriteCell
  <2> DEFINE u == terminal_putentryat(tty, mine, reg, 0)
  <2>1. mine \in Nat
    BY <1>1 DEF TypeInv
  <2>2. /\ u \in Terminals /\ u.row = tty.row /\ u.column = tty.column
        /\ u.top \in {tty.top, RowOf(reg, 0)}
    <3>1. tty \in Terminals /\ mine \in Nat /\ reg \in Nat /\ 0 \in Nat
      BY <1>2, <2>1
    <3>2. /\ u \in Terminals /\ u.row = tty.row /\ u.column = tty.column
          /\ u.top = IF tty.top >= RowOf(reg, 0) THEN tty.top ELSE RowOf(reg, 0)
      BY <3>1, PutentryFields
    <3> QED
      BY <3>2
  <2> HIDE DEF u
  <2>3. At("cell", tty, reg)
    BY <1>1, <1>4 DEF WriteCell
  <2>4. At("load_column", u, reg)
    <3>1. CursorAt("cell", tty.row, tty.column, tty.top, reg, irqs, hit)
      BY <2>3 DEF At
    <3>2. \A new \in {tty.top, RowOf(reg, 0)} :
              CursorAt("load_column", tty.row, tty.column, new, reg, irqs, hit)
      BY <1>2, <3>1, CursorWritten, ZenonT(60)
    <3> QED
      BY <2>2, <3>2 DEF At
  <2> QED
    BY <1>2, <1>4, <2>2, <2>4 DEF WriteCell, Pcs, u
<1>5. CASE LoadColumn
  <2>1. At("store_column", tty, tty.column + 1)
    BY <1>1, <1>2, <1>5, CursorColumns DEF At, LoadColumn
  <2> QED
    BY <1>2, <1>5, <2>1 DEF LoadColumn, Pcs
<1>6. CASE StoreColumn
  <2> DEFINE u == [tty EXCEPT !.column = reg]
  <2>1. u \in Terminals /\ u.column = reg /\ u.row = tty.row /\ u.top = tty.top
    BY <1>2, ColumnUpdate
  <2> HIDE DEF u
  <2>2. At("compare_column", u, reg)
    BY <1>1, <1>2, <1>6, <2>1, CursorColumns DEF At, StoreColumn
  <2> QED
    BY <1>2, <1>6, <2>1, <2>2 DEF StoreColumn, Pcs, u
<1>7. CASE CompareColumn
  <2>1. At(IF tty.column = VGA_WIDTH THEN "wrap" ELSE "idle", tty, reg)
    BY <1>1, <1>2, <1>7, CursorColumns DEF At, CompareColumn
  <2> QED
    BY <1>2, <1>7, <2>1 DEF CompareColumn, Pcs
<1>8. CASE Wrap
  <2> DEFINE u == [tty EXCEPT !.column = 0]
  <2>1. u \in Terminals /\ u.column = 0 /\ u.row = tty.row /\ u.top = tty.top
    BY <1>2, ColumnUpdate
  <2> HIDE DEF u
  <2>2. At("load_row", u, reg)
    BY <1>1, <1>2, <1>8, <2>1, CursorColumns DEF At, Wrap
  <2> QED
    BY <1>2, <1>8, <2>1, <2>2 DEF Wrap, Pcs, u
<1>9. CASE LoadRow
  <2>1. At("store_row", tty, tty.row + 1)
    BY <1>1, <1>2, <1>9, CursorRows DEF At, LoadRow
  <2> QED
    BY <1>2, <1>9, <2>1 DEF LoadRow, Pcs
<1>10. CASE StoreRow
  <2> DEFINE u == [tty EXCEPT !.row = reg]
  <2>1. u \in Terminals /\ u.row = reg /\ u.column = tty.column /\ u.top = tty.top
    BY <1>2, RowUpdate
  <2> HIDE DEF u
  <2>2. At("compare_row", u, reg)
    BY <1>1, <1>2, <1>10, <2>1, CursorRows DEF At, StoreRow
  <2> QED
    BY <1>2, <1>10, <2>1, <2>2 DEF StoreRow, Pcs, u
<1>11. AfterRow \in {"reset_column", "idle"}
  BY DEF AfterRow
<1>12. CASE CompareRow
  <2>1. At(IF tty.row = VGA_HEIGHT THEN "scroll" ELSE AfterRow, tty, FirstCell)
    <3>1. CursorAt("compare_row", tty.row, tty.column, tty.top, reg, irqs, hit)
      BY <1>1, <1>12 DEF At, CompareRow
    <3> QED
      BY <1>2, <1>11, <3>1, CursorCompared, SMTT(60) DEF At
  <2>2. FirstCell \in Nat
    BY <1>2 DEF FirstCell
  <2> QED
    BY <1>2, <1>11, <1>12, <2>1, <2>2 DEF CompareRow, Pcs
<1>13. CASE Scroll
  <2> DEFINE u == ScrollCell(tty, reg)
  <2>1. reg \in FirstCell .. LastCell
    BY <1>1, <1>13 DEF At, CursorAt, Scroll
  <2>2. u \in Terminals /\ u.row = tty.row /\ u.column = tty.column /\ u.top = tty.top
    BY <1>2, <2>1, ScrollCellFields
  <2> HIDE DEF u
  <2>3. At(IF reg = LastCell THEN "reset_row" ELSE "scroll", u, reg + 1)
    BY <1>1, <1>2, <1>13, <2>2, CursorRows DEF At, Scroll
  <2> QED
    BY <1>2, <1>13, <2>2, <2>3 DEF Scroll, Pcs, u
<1>14. CASE ResetRow
  <2> DEFINE u == [tty EXCEPT !.row = VGA_HEIGHT - 1]
  <2>1. VGA_HEIGHT - 1 \in Nat
    BY <1>2
  <2>2. /\ u \in Terminals /\ u.row = VGA_HEIGHT - 1
        /\ u.column = tty.column /\ u.top = tty.top
    BY <1>2, <2>1, RowUpdate
  <2> HIDE DEF u
  <2>3. At(AfterRow, u, reg)
    <3>1. CursorAt("reset_row", tty.row, tty.column, tty.top, reg, irqs, hit)
      BY <1>1, <1>14 DEF At, ResetRow
    <3>2. CursorAt(AfterRow, VGA_HEIGHT - 1, tty.column, tty.top, reg, irqs, hit)
      BY <1>2, <1>11, <3>1, CursorReset, SMTT(60)
    <3> QED
      BY <2>2, <3>2 DEF At
  <2> QED
    BY <1>2, <1>11, <1>14, <2>2, <2>3 DEF ResetRow, Pcs, u
<1>15. CASE ResetColumn
  <2> DEFINE u == [tty EXCEPT !.column = 0]
  <2>1. u \in Terminals /\ u.column = 0 /\ u.row = tty.row /\ u.top = tty.top
    BY <1>2, ColumnUpdate
  <2> HIDE DEF u
  <2>2. At("idle", u, reg)
    BY <1>1, <1>2, <1>15, <2>1, CursorColumns DEF At, ResetColumn
  <2> QED
    BY <1>2, <1>15, <2>1, <2>2 DEF ResetColumn, Pcs, u
<1> QED
  BY <1>3, <1>4, <1>5, <1>6, <1>7, <1>8, <1>9, <1>10, <1>12, <1>13, <1>14, <1>15

LEMMA CursorNext == CursorInv /\ [Next]_vars => CursorInv'
<1> SUFFICES ASSUME CursorInv, [Next]_vars PROVE CursorInv'
  OBVIOUS
<1>1. CASE UNCHANGED vars
  BY <1>1 DEF vars, CursorInv, TypeInv, ColumnInv, RowInv, LostInv, ScrollInv, OvershootBounded
<1>2. CASE Next
  BY <1>2, CursorPutchar, CursorOwn, CursorIrq DEF Next
<1> QED
  BY <1>1, <1>2

LEMMA CursorAlways == Spec => []CursorInv
<1> QED
  BY CursorInit, CursorNext, PTL DEF Spec

(* For a screen of any size and any number of interrupts: a handler that   *)
(* prints does lasting harm to the cursor in the window between the store  *)
(* of terminal_row = VGA_HEIGHT and its comparison, and nowhere else.      *)
THEOREM CursorAlwaysHeals == Spec => []CursorHeals
<1>1. CursorInv => CursorHeals
  <2> SUFFICES ASSUME CursorInv, pc = "idle"
               PROVE  tty.row \in Rows /\ tty.column \in Columns <=> hit # "lost"
    BY DEF CursorHeals
  <2>1. tty.row \in Nat /\ tty.column \in Nat /\ VGA_HEIGHT \in Nat /\ VGA_WIDTH \in Nat
    BY TtyAssumption DEF CursorInv, TypeInv, Terminals
  <2>2. tty.column \in Columns
    BY <2>1 DEF CursorInv, ColumnInv, Columns
  <2>3. hit # "lost" => tty.row \in Rows
    BY DEF CursorInv, RowInv
  <2>4. hit = "lost" => tty.row \notin Rows
    BY <2>1 DEF CursorInv, LostInv, Rows
  <2> QED
    BY <2>2, <2>3, <2>4
<1> QED
  BY <1>1, CursorAlways, PTL

(* ... and unless that happens, no character is ever written two rows per  *)
(* interrupt or more below the screen.                                     *)
THEOREM OvershootAlwaysBounded == Spec => []OvershootBounded
<1>1. CursorInv => OvershootBounded
  BY DEF CursorInv
<1> QED
  BY <1>1, CursorAlways, PTL
-----------------------------------------------------------------------------
(* The sheet: where each character stands                                  *)

Places == [row : Nat, column : Columns]
Wraps(chars, k, p) == chars[k] = "nl" \/ p.column + 1 = VGA_WIDTH
Advance(chars, k, p) ==
    IF Wraps(chars, k, p) THEN [row |-> p.row + 1, column |-> 0]
    ELSE [p EXCEPT !.column = @ + 1]
Origin == [row |-> 0, column |-> 0]
SheetUpTo(f, n, chars) ==
    f = [k \in 0 .. n |-> IF k = 0 THEN Origin ELSE Advance(chars, k, f[k - 1])]

LEMMA SheetExists ==
    ASSUME NEW chars
    PROVE  \A n \in Nat : \E f : SheetUpTo(f, n, chars)
<1> DEFINE Step(f, k) == IF k = 0 THEN Origin ELSE Advance(chars, k, f[k - 1])
           Bad == {n \in Nat : ~ \E f : SheetUpTo(f, n, chars)}
<1> SUFFICES ASSUME Bad # {} PROVE FALSE
  OBVIOUS
<1>1. PICK n \in Bad : \A m \in Bad : n <= m
  BY LeastNumber, Bad \subseteq Nat
<1>2. \E g : n # 0 => SheetUpTo(g, n - 1, chars)
  BY <1>1
<1>3. PICK g : n # 0 => SheetUpTo(g, n - 1, chars)
  BY <1>2
<1> DEFINE h == [k \in 0 .. n |-> Step(g, k)]
<1>4. ASSUME NEW k \in 0 .. n PROVE h[k] = Step(h, k)
  <2>1. CASE k = 0
    BY <2>1
  <2>2. CASE k # 0
    <3>1. n # 0 /\ k - 1 \in 0 .. n - 1 /\ k - 1 \in 0 .. n
      BY <2>2
    <3>2. g[k - 1] = Step(g, k - 1)
      BY <1>3, <3>1 DEF SheetUpTo
    <3>3. h[k - 1] = g[k - 1]
      BY <3>1, <3>2
    <3> QED
      BY <2>2, <3>3
  <2> QED
    BY <2>1, <2>2
<1>5. SheetUpTo(h, n, chars)
  BY <1>4 DEF SheetUpTo
<1> QED
  BY <1>5

LEMMA SheetRule ==
    ASSUME NEW chars, Len(chars) \in Nat
    PROVE  /\ Sheet(chars)[0] = Origin
           /\ \A k \in 1 .. Len(chars) : Sheet(chars)[k] = Advance(chars, k, Sheet(chars)[k - 1])
<1> DEFINE f == CHOOSE f : SheetUpTo(f, Len(chars), chars)
<1>1. SheetUpTo(f, Len(chars), chars)
  BY SheetExists
<1>2. Sheet(chars) = f
  BY DEF Sheet, SheetUpTo, Advance, Wraps, Origin
<1> HIDE DEF f
<1>3. \A k \in 0 .. Len(chars) : f[k] = IF k = 0 THEN Origin ELSE Advance(chars, k, f[k - 1])
  BY <1>1 DEF SheetUpTo
<1> QED
  BY <1>2, <1>3

LEMMA AdvanceFields ==
    ASSUME NEW chars, NEW k, NEW p \in Places
    PROVE  LET q == Advance(chars, k, p)
           IN  /\ q \in Places
               /\ q.row = IF Wraps(chars, k, p) THEN p.row + 1 ELSE p.row
               /\ q.column = IF Wraps(chars, k, p) THEN 0 ELSE p.column + 1
<1>1. VGA_WIDTH \in Nat \ {0} /\ p.row \in Nat /\ p.column \in Columns
  BY TtyAssumption DEF Places
<1>2. CASE Wraps(chars, k, p)
  <2>1. 0 \in Columns /\ p.row + 1 \in Nat
    BY <1>1 DEF Columns
  <2> QED
    BY <1>2, <2>1 DEF Advance, Places
<1>3. CASE ~ Wraps(chars, k, p)
  <2>1. p.column + 1 # VGA_WIDTH
    BY <1>3 DEF Wraps
  <2>2. p.column + 1 \in Columns
    BY <1>1, <2>1 DEF Columns
  <2>3. Advance(chars, k, p) = [row |-> p.row, column |-> p.column + 1]
    BY <1>3 DEF Advance, Places
  <2> QED
    BY <1>1, <1>3, <2>2, <2>3 DEF Places
<1> QED
  BY <1>2, <1>3

IsSheet(at, chars) ==
    /\ \A k \in 0 .. Len(chars) : at[k] \in Places
    /\ at[0].row = 0 /\ at[0].column = 0
    /\ \A k \in 1 .. Len(chars) :
          LET wraps == Wraps(chars, k, at[k - 1])
          IN  /\ at[k].row = IF wraps THEN at[k - 1].row + 1 ELSE at[k - 1].row
              /\ at[k].column = IF wraps THEN 0 ELSE at[k - 1].column + 1

LEMMA SheetIs ==
    ASSUME NEW chars, Len(chars) \in Nat
    PROVE  IsSheet(Sheet(chars), chars)
<1> DEFINE at == Sheet(chars)
           Bad == {k \in 0 .. Len(chars) : at[k] \notin Places}
<1>1. /\ at[0] = Origin
      /\ \A k \in 1 .. Len(chars) : at[k] = Advance(chars, k, at[k - 1])
  BY SheetRule
<1> HIDE DEF at
<1>2. Bad = {}
  <2> SUFFICES ASSUME Bad # {} PROVE FALSE
    OBVIOUS
  <2>1. PICK k \in Bad : \A j \in Bad : k <= j
    BY LeastNumber, Bad \subseteq Nat
  <2>2. CASE k = 0
    <3>1. Origin \in Places
      BY TtyAssumption DEF Origin, Places, Columns
    <3> QED
      BY <1>1, <2>1, <2>2, <3>1
  <2>3. CASE k # 0
    <3>1. k - 1 \in 0 .. Len(chars) /\ k \in 1 .. Len(chars) /\ k - 1 < k
      BY <2>3
    <3>2. at[k - 1] \in Places
      BY <2>1, <3>1
    <3>3. at[k] \in Places
      BY <1>1, <3>1, <3>2, AdvanceFields
    <3> QED
      BY <2>1, <3>3
  <2> QED
    BY <2>2, <2>3
<1>3. \A k \in 0 .. Len(chars) : at[k] \in Places
  BY <1>2
<1>4. at[0].row = 0 /\ at[0].column = 0
  BY <1>1 DEF Origin
<1>5. ASSUME NEW k \in 1 .. Len(chars)
      PROVE  LET wraps == Wraps(chars, k, at[k - 1])
             IN  /\ at[k].row = IF wraps THEN at[k - 1].row + 1 ELSE at[k - 1].row
                 /\ at[k].column = IF wraps THEN 0 ELSE at[k - 1].column + 1
  <2>1. at[k - 1] \in Places
    BY <1>3, k - 1 \in 0 .. Len(chars)
  <2> QED
    BY <1>1, <2>1, AdvanceFields
<1>6. IsSheet(at, chars)
  BY <1>3, <1>4, <1>5 DEF IsSheet
<1> QED
  BY <1>6 DEF at

(* What comes later stands further down, or further right in the same row. *)
LEMMA SheetOrder ==
    ASSUME NEW chars, Len(chars) \in Nat, NEW at, IsSheet(at, chars), NEW j \in 0 .. Len(chars)
    PROVE  \A k \in 0 .. Len(chars) :
              j < k => \/ at[j].row < at[k].row
                       \/ at[j].row = at[k].row /\ at[j].column < at[k].column
<1> DEFINE Before(k) == \/ at[j].row < at[k].row
                        \/ at[j].row = at[k].row /\ at[j].column < at[k].column
           Bad == {k \in 0 .. Len(chars) : j < k /\ ~ Before(k)}
<1> SUFFICES ASSUME Bad # {} PROVE FALSE
  OBVIOUS
<1>1. PICK k \in Bad : \A i \in Bad : k <= i
  BY LeastNumber, Bad \subseteq Nat
<1>2. k \in 1 .. Len(chars) /\ k - 1 \in 0 .. Len(chars) /\ j <= k - 1 /\ j < k /\ ~ Before(k)
  OBVIOUS
<1>3. k - 1 = j \/ Before(k - 1)
  BY <1>1, <1>2
<1> DEFINE wraps == Wraps(chars, k, at[k - 1])
<1>4. /\ at[k].row = IF wraps THEN at[k - 1].row + 1 ELSE at[k - 1].row
      /\ at[k].column = IF wraps THEN 0 ELSE at[k - 1].column + 1
  BY <1>2 DEF IsSheet
<1>5. /\ at[j].row \in Nat /\ at[j].column \in Nat
      /\ at[k - 1].row \in Nat /\ at[k - 1].column \in Nat
  <2>1. at[j] \in Places /\ at[k - 1] \in Places
    BY <1>2 DEF IsSheet
  <2> QED
    BY <2>1, TtyAssumption DEF Places, Columns
<1> HIDE DEF wraps
<1>6. Before(k)
  BY <1>3, <1>4, <1>5
<1> QED
  BY <1>2, <1>6

(* The places do not change when more characters follow.                   *)
LEMMA SheetPrefix ==
    ASSUME NEW chars, NEW more, Len(chars) \in Nat, Len(more) \in Nat, Len(chars) <= Len(more),
           \A k \in 1 .. Len(chars) : more[k] = chars[k]
    PROVE  \A k \in 0 .. Len(chars) : Sheet(more)[k] = Sheet(chars)[k]
<1> DEFINE at == Sheet(chars)
           to == Sheet(more)
           Bad == {k \in 0 .. Len(chars) : to[k] # at[k]}
<1>1. /\ at[0] = Origin /\ to[0] = Origin
      /\ \A k \in 1 .. Len(chars) : at[k] = Advance(chars, k, at[k - 1])
      /\ \A k \in 1 .. Len(more) : to[k] = Advance(more, k, to[k - 1])
  BY SheetRule
<1> HIDE DEF at, to
<1> SUFFICES ASSUME Bad # {} PROVE FALSE
  BY DEF at, to
<1>2. PICK k \in Bad : \A i \in Bad : k <= i
  BY LeastNumber, Bad \subseteq Nat
<1>3. k # 0
  BY <1>1, <1>2
<1>4. k \in 1 .. Len(chars) /\ k \in 1 .. Len(more) /\ k - 1 \in 0 .. Len(chars) /\ k - 1 < k
  BY <1>3
<1>5. to[k - 1] = at[k - 1]
  BY <1>2, <1>4
<1>6. more[k] = chars[k]
  BY <1>4
<1>7. to[k] = at[k]
  <2> DEFINE p == at[k - 1]
  <2> HIDE DEF p
  <2>1. Advance(more, k, p) = Advance(chars, k, p)
    BY <1>6 DEF Advance, Wraps
  <2>2. at[k] = Advance(chars, k, p) /\ to[k] = Advance(more, k, p)
    BY <1>1, <1>4, <1>5 DEF p
  <2> QED
    BY <2>1, <2>2
<1> QED
  BY <1>2, <1>7
-----------------------------------------------------------------------------
(* What the screen shows of the sheet                                      *)

(* The first n characters put b at row r and column c.                     *)
Stands(at, chars, k, r, c) == chars[k] # "nl" /\ at[k - 1].row = r /\ at[k - 1].column = c
Holds(at, chars, n, r, c, b) ==
    \/ \E k \in 1 .. n : Stands(at, chars, k, r, c) /\ b = k
    \/ b = 0 /\ \A k \in 1 .. n : ~ Stands(at, chars, k, r, c)
Window(at, chars, n, first, buffer) ==
    \A y \in Rows, x \in Columns : Holds(at, chars, n, first + y, x, buffer[y][x])
First(r) == IF r >= VGA_HEIGHT THEN r - (VGA_HEIGHT - 1) ELSE 0
Shows(at, chars, n, row, column, buffer) ==
    /\ row = at[n].row - First(at[n].row) /\ column = at[n].column
    /\ Window(at, chars, n, First(at[n].row), buffer)

LEMMA HoldsMore ==
    ASSUME NEW at, NEW chars, NEW n \in Nat \ {0}, NEW r, NEW c, NEW b,
           Holds(at, chars, n - 1, r, c, b), ~ Stands(at, chars, n, r, c)
    PROVE  Holds(at, chars, n, r, c, b)
<1>1. \A k \in 1 .. n : k = n \/ k \in 1 .. n - 1
  OBVIOUS
<1>2. \A k \in 1 .. n - 1 : k \in 1 .. n
  OBVIOUS
<1> QED
  BY <1>1, <1>2 DEF Holds

LEMMA WindowNewline ==
    ASSUME NEW at, NEW chars, NEW n \in Nat \ {0}, NEW first, NEW buffer,
           chars[n] = "nl", Window(at, chars, n - 1, first, buffer)
    PROVE  Window(at, chars, n, first, buffer)
<1> SUFFICES ASSUME NEW y \in Rows, NEW x \in Columns
             PROVE  Holds(at, chars, n, first + y, x, buffer[y][x])
  BY DEF Window
<1>1. Holds(at, chars, n - 1, first + y, x, buffer[y][x])
  BY DEF Window
<1>2. ~ Stands(at, chars, n, first + y, x)
  BY DEF Stands
<1> QED
  BY <1>1, <1>2, HoldsMore

(* One cell differs.                                                       *)
PutAt(new, buffer, row, column, stamp) ==
    \A y \in Rows, x \in Columns :
        new[y][x] = IF y = row /\ x = column THEN stamp ELSE buffer[y][x]

LEMMA WindowWrite ==
    ASSUME NEW at, NEW chars, NEW n \in Nat \ {0}, NEW first \in Nat, NEW row \in Rows,
           NEW column, NEW buffer, NEW new,
           chars[n] # "nl", at[n - 1].row = first + row, at[n - 1].column = column,
           PutAt(new, buffer, row, column, n),
           Window(at, chars, n - 1, first, buffer)
    PROVE  Window(at, chars, n, first, new)
<1> SUFFICES ASSUME NEW y \in Rows, NEW x \in Columns
             PROVE  Holds(at, chars, n, first + y, x, new[y][x])
  BY DEF Window
<1>1. CASE y = row /\ x = column
  <2>1. Stands(at, chars, n, first + y, x) /\ new[y][x] = n /\ n \in 1 .. n
    BY <1>1 DEF Stands, PutAt
  <2> QED
    BY <2>1 DEF Holds
<1>2. CASE ~ (y = row /\ x = column)
  <2>1. Holds(at, chars, n - 1, first + y, x, buffer[y][x])
    BY DEF Window
  <2>2. y \in Int /\ row \in Int
    BY TtyAssumption DEF Rows
  <2>3. ~ (first + row = first + y /\ column = x)
    BY <1>2, <2>2
  <2>4. ~ Stands(at, chars, n, first + y, x)
    BY <2>3 DEF Stands
  <2>5. new[y][x] = buffer[y][x]
    BY <1>2 DEF PutAt
  <2> QED
    BY <2>1, <2>4, <2>5, HoldsMore
<1> QED
  BY <1>1, <1>2

LEMMA WindowScroll ==
    ASSUME NEW at, NEW chars, NEW n \in Nat, NEW first \in Nat, NEW buffer,
           \A k \in 1 .. n : at[k - 1].row \in Nat /\ at[k - 1].row < first + VGA_HEIGHT,
           Window(at, chars, n, first, buffer)
    PROVE  Window(at, chars, n, first + 1, Scrolled(buffer))
<1> SUFFICES ASSUME NEW y \in Rows, NEW x \in Columns
             PROVE  Holds(at, chars, n, first + 1 + y, x, Scrolled(buffer)[y][x])
  BY DEF Window
<1>1. y \in Nat /\ VGA_HEIGHT \in Nat
  BY TtyAssumption DEF Rows
<1>2. CASE y + 1 \in Rows
  <2>1. Holds(at, chars, n, first + (y + 1), x, buffer[y + 1][x])
    BY <1>2 DEF Window
  <2>2. first + (y + 1) = first + 1 + y
    BY <1>1
  <2>3. Scrolled(buffer)[y][x] = buffer[y + 1][x]
    BY <1>2 DEF Scrolled
  <2> QED
    BY <2>1, <2>2, <2>3
<1>3. CASE y + 1 \notin Rows
  <2>1. first + 1 + y = first + VGA_HEIGHT
    BY <1>1, <1>3 DEF Rows
  <2>2. Scrolled(buffer)[y][x] = 0
    BY <1>3 DEF Scrolled, Blank
  <2>3. \A k \in 1 .. n : ~ Stands(at, chars, k, first + 1 + y, x)
    BY <1>1, <2>1 DEF Stands
  <2> QED
    BY <2>2, <2>3 DEF Holds
<1> QED
  BY <1>2, <1>3

(* The end of a row: the cursor goes on to the next, or the screen scrolls *)
LEMMA RowDone ==
    ASSUME NEW chars, Len(chars) \in Nat, NEW at, IsSheet(at, chars),
           NEW n \in 1 .. Len(chars), Wraps(chars, n, at[n - 1]),
           NEW row, row = at[n - 1].row - First(at[n - 1].row), NEW buffer,
           Window(at, chars, n, First(at[n - 1].row), buffer)
    PROVE  /\ row \in Rows
           /\ row + 1 = VGA_HEIGHT =>
                /\ Shows(at, chars, n, VGA_HEIGHT - 1, 0, Scrolled(buffer))
                /\ First(at[n].row) = First(at[n - 1].row) + 1
           /\ row + 1 # VGA_HEIGHT => Shows(at, chars, n, row + 1, 0, buffer)
<1> DEFINE a == at[n - 1].row
           b == at[n].row
<1>1. a \in Nat /\ b = a + 1 /\ at[n].column = 0
  <2>1. n - 1 \in 0 .. Len(chars)
    OBVIOUS
  <2>2. at[n - 1] \in Places
    BY <2>1 DEF IsSheet
  <2> QED
    BY <2>2 DEF IsSheet, Places
<1>2. VGA_HEIGHT \in Nat \ {0}
  BY TtyAssumption
<1>3. /\ row = a - First(a) /\ Window(at, chars, n, First(a), buffer)
  OBVIOUS
<1>4. \A k \in 1 .. n : at[k - 1].row \in Nat /\ at[k - 1].row <= a
  <2> SUFFICES ASSUME NEW k \in 1 .. n PROVE at[k - 1].row \in Nat /\ at[k - 1].row <= a
    OBVIOUS
  <2>1. k - 1 \in 0 .. Len(chars) /\ n - 1 \in 0 .. Len(chars) /\ (k - 1 = n - 1 \/ k - 1 < n - 1)
    OBVIOUS
  <2>2. at[k - 1].row \in Nat
    BY <2>1 DEF IsSheet, Places
  <2>3. CASE k - 1 = n - 1
    BY <1>1, <2>3
  <2>4. CASE k - 1 < n - 1
    <3>1. at[k - 1].row < a \/ at[k - 1].row = a
      BY <2>1, <2>4, SheetOrder
    <3> QED
      BY <1>1, <2>2, <3>1
  <2> QED
    BY <2>1, <2>2, <2>3, <2>4
<1>5. First(a) \in Nat /\ row \in Nat /\ row < VGA_HEIGHT /\ a < First(a) + VGA_HEIGHT
  BY <1>1, <1>2, <1>3 DEF First
<1>6. /\ row + 1 = VGA_HEIGHT => First(b) = First(a) + 1 /\ b - First(b) = VGA_HEIGHT - 1
      /\ row + 1 # VGA_HEIGHT => First(b) = First(a) /\ b - First(b) = row + 1
  BY <1>1, <1>2, <1>3 DEF First
<1>7. Window(at, chars, n, First(a) + 1, Scrolled(buffer))
  <2>1. \A k \in 1 .. n : at[k - 1].row \in Nat /\ at[k - 1].row < First(a) + VGA_HEIGHT
    <3> SUFFICES ASSUME NEW k \in 1 .. n
                 PROVE  at[k - 1].row \in Nat /\ at[k - 1].row < First(a) + VGA_HEIGHT
      OBVIOUS
    <3> DEFINE r == at[k - 1].row
               f == First(a)
    <3>1. r \in Nat /\ r <= a
      BY <1>4
    <3>2. f \in Nat /\ a < f + VGA_HEIGHT
      BY <1>5
    <3> HIDE DEF a, r, f
    <3>3. r \in Nat /\ r < f + VGA_HEIGHT
      BY <1>1, <1>2, <3>1, <3>2
    <3> QED
      BY <3>3 DEF r, f
  <2>2. n \in Nat
    OBVIOUS
  <2> HIDE DEF a
  <2> QED
    BY <1>3, <1>5, <2>1, <2>2, WindowScroll
<1>8. row \in Rows
  BY <1>2, <1>5 DEF Rows
<1> HIDE DEF a
<1>9. row + 1 = VGA_HEIGHT => Shows(at, chars, n, VGA_HEIGHT - 1, 0, Scrolled(buffer))
  BY <1>1, <1>6, <1>7 DEF Shows
<1>10. row + 1 # VGA_HEIGHT => Shows(at, chars, n, row + 1, 0, buffer)
  BY <1>1, <1>3, <1>6 DEF Shows
<1> QED
  BY <1>6, <1>8, <1>9, <1>10 DEF a

(* A character at the cursor, if the cursor is on the screen               *)
LEMMA WrittenHere ==
    ASSUME NEW buffer \in [Rows -> [Columns -> Nat]], NEW stamp, NEW row \in Rows,
           NEW column \in Columns, NEW index, ColumnOf(index) = column
    PROVE  PutAt(Written(buffer, stamp, index, row), buffer, row, column, stamp)
<1>1. Written(buffer, stamp, index, row) =
          [buffer EXCEPT ![row] = [@ EXCEPT ![column] = stamp]]
  BY DEF Written
<1> QED
  BY <1>1 DEF PutAt

LEMMA OnScreen ==
    ASSUME NEW row \in Rows, NEW column \in Columns
    PROVE  /\ RowOf(column, row) = row /\ ColumnOf(column) = column
           /\ RowOf(row * VGA_WIDTH + column, 0) = row
           /\ ColumnOf(row * VGA_WIDTH + column) = column
           /\ row * VGA_WIDTH + column \in Nat
<1>1. /\ VGA_WIDTH \in Nat \ {0} /\ row \in Nat /\ column \in 0 .. VGA_WIDTH - 1
      /\ column \in Nat /\ 0 * VGA_WIDTH + column = column /\ row * VGA_WIDTH + column \in Nat
  BY TtyAssumption DEF Rows, Columns
<1>2. (row * VGA_WIDTH + column) \div VGA_WIDTH = row /\ (row * VGA_WIDTH + column) % VGA_WIDTH = column
  BY <1>1
<1>3. (0 * VGA_WIDTH + column) \div VGA_WIDTH = 0 /\ (0 * VGA_WIDTH + column) % VGA_WIDTH = column
  BY <1>1
<1> QED
  BY <1>1, <1>2, <1>3 DEF RowOf, ColumnOf

(* terminal_putchar keeps the screen at the end of the sheet.              *)
LEMMA ShowsPutchar ==
    ASSUME NEW chars, Len(chars) \in Nat, NEW at, IsSheet(at, chars),
           NEW n \in 1 .. Len(chars), NEW t \in Terminals,
           Shows(at, chars, n - 1, t.row, t.column, t.buffer)
    PROVE  LET u == terminal_putchar(t, chars[n], n)
           IN  u \in Terminals /\ Shows(at, chars, n, u.row, u.column, u.buffer)
<1> DEFINE u == terminal_putchar(t, chars[n], n)
           a == at[n - 1]
           first == First(a.row)
<1>1. /\ n - 1 \in 0 .. Len(chars) /\ n \in Nat \ {0} /\ n \in Nat
  OBVIOUS
<1>2. a \in Places /\ a.row \in Nat /\ a.column \in Columns
  BY <1>1 DEF IsSheet, Places
<1>3. t.row = a.row - first /\ t.column = a.column /\ Window(at, chars, n - 1, first, t.buffer)
  BY DEF Shows
<1>4. VGA_HEIGHT \in Nat \ {0} /\ VGA_WIDTH \in Nat \ {0}
  BY TtyAssumption
<1>5. first \in Nat /\ t.row \in Rows /\ a.row = first + t.row
  BY <1>2, <1>3, <1>4 DEF First, Rows
<1>6. t.buffer \in [Rows -> [Columns -> Nat]] /\ t.column \in Columns /\ t.row \in Nat
  BY <1>2, <1>3 DEF Terminals
<1> HIDE DEF first
<1>7. CASE chars[n] = "nl"
  <2>1. Window(at, chars, n, first, t.buffer)
    BY <1>1, <1>3, <1>7, WindowNewline
  <2>2. Wraps(chars, n, a)
    BY <1>7 DEF Wraps
  <2>3. /\ t.row + 1 = VGA_HEIGHT => Shows(at, chars, n, VGA_HEIGHT - 1, 0, Scrolled(t.buffer))
        /\ t.row + 1 # VGA_HEIGHT => Shows(at, chars, n, t.row + 1, 0, t.buffer)
    BY <1>3, <2>1, <2>2, RowDone DEF first
  <2>4. /\ u \in Terminals /\ u.column = 0
        /\ u.row = IF t.row + 1 = VGA_HEIGHT THEN VGA_HEIGHT - 1 ELSE t.row + 1
        /\ u.buffer = IF t.row + 1 = VGA_HEIGHT THEN Scrolled(t.buffer) ELSE t.buffer
    BY <1>7, NewlineFields
  <2> HIDE DEF u
  <2> QED
    BY <2>3, <2>4 DEF u
<1>8. CASE chars[n] # "nl"
  <2> DEFINE v == terminal_putentryat(t, n, t.column, t.row)
             wraps == t.column + 1 = VGA_WIDTH
             last == wraps /\ t.row + 1 = VGA_HEIGHT
  <2>1. v.buffer = Written(t.buffer, n, t.column, RowOf(t.column, t.row))
    BY <1>1, PutentryHere
  <2>2. /\ u \in Terminals
        /\ u.row = IF last THEN VGA_HEIGHT - 1 ELSE IF wraps THEN t.row + 1 ELSE t.row
        /\ u.column = IF wraps THEN 0 ELSE t.column + 1
        /\ u.buffer = IF last THEN Scrolled(v.buffer) ELSE v.buffer
    BY <1>1, <1>8, CharacterFields
  <2>3. PutAt(v.buffer, t.buffer, t.row, t.column, n)
    <3>1. RowOf(t.column, t.row) = t.row /\ ColumnOf(t.column) = t.column
      BY <1>5, <1>6, OnScreen
    <3>2. v.buffer = Written(t.buffer, n, t.column, t.row)
      BY <2>1, <3>1
    <3> HIDE DEF v
    <3> QED
      BY <1>5, <1>6, <3>1, <3>2, WrittenHere
  <2> HIDE DEF u, v
  <2>4. Window(at, chars, n, first, v.buffer)
    BY <1>1, <1>3, <1>5, <1>8, <2>3, WindowWrite
  <2>5. CASE wraps
    <3>1. Wraps(chars, n, a)
      BY <1>3, <2>5 DEF Wraps
    <3>2. /\ t.row + 1 = VGA_HEIGHT => Shows(at, chars, n, VGA_HEIGHT - 1, 0, Scrolled(v.buffer))
          /\ t.row + 1 # VGA_HEIGHT => Shows(at, chars, n, t.row + 1, 0, v.buffer)
      BY <1>3, <2>4, <3>1, RowDone DEF first
    <3>3. Shows(at, chars, n, u.row, u.column, u.buffer)
      BY <2>2, <2>5, <3>2
    <3> QED
      BY <2>2, <3>3 DEF u
  <2>6. CASE ~ wraps
    <3>1. ~ Wraps(chars, n, a)
      BY <1>3, <1>8, <2>6 DEF Wraps
    <3>2. at[n].row = a.row /\ at[n].column = a.column + 1
      BY <3>1 DEF IsSheet
    <3>3. Shows(at, chars, n, t.row, t.column + 1, v.buffer)
      BY <1>3, <2>4, <3>2 DEF Shows, first
    <3>4. Shows(at, chars, n, u.row, u.column, u.buffer)
      BY <2>2, <2>6, <3>3
    <3> QED
      BY <2>2, <3>4 DEF u
  <2> QED
    BY <2>5, <2>6
<1> QED
  BY <1>7, <1>8

LEMMA ShowsMore ==
    ASSUME NEW chars, NEW more, Len(chars) \in Nat, Len(more) \in Nat, Len(chars) <= Len(more),
           \A k \in 1 .. Len(chars) : more[k] = chars[k],
           NEW n \in 0 .. Len(chars), NEW row, NEW column, NEW buffer,
           Shows(Sheet(chars), chars, n, row, column, buffer)
    PROVE  Shows(Sheet(more), more, n, row, column, buffer)
<1> DEFINE at == Sheet(chars)
           to == Sheet(more)
<1>1. \A k \in 0 .. Len(chars) : to[k] = at[k]
  BY SheetPrefix
<1> HIDE DEF at, to
<1>2. to[n] = at[n]
  BY <1>1
<1>3. \A k \in 1 .. n : to[k - 1] = at[k - 1] /\ more[k] = chars[k]
  BY <1>1
<1>4. \A k \in 1 .. n : \A r, c : Stands(to, more, k, r, c) <=> Stands(at, chars, k, r, c)
  BY <1>3 DEF Stands
<1>5. \A r, c, b : Holds(at, chars, n, r, c, b) => Holds(to, more, n, r, c, b)
  BY <1>4 DEF Holds
<1>6. Window(at, chars, n, First(at[n].row), buffer) => Window(to, more, n, First(at[n].row), buffer)
  BY <1>5 DEF Window
<1>7. Shows(at, chars, n, row, column, buffer)
  BY DEF at
<1>8. Shows(to, more, n, row, column, buffer)
  BY <1>2, <1>6, <1>7 DEF Shows
<1> QED
  BY <1>8 DEF to
-----------------------------------------------------------------------------
(* A scroll, cell by cell: the cells before index are those of the next    *)
(* row already.                                                            *)
Partly(buffer, b, index) ==
    \A y \in Rows, x \in Columns :
        buffer[y][x] = IF (y + 1) * VGA_WIDTH + x < index THEN Scrolled(b)[y][x] ELSE b[y][x]

LEMMA CellPlace ==
    ASSUME NEW y \in Rows, NEW x \in Columns
    PROVE  LET cell == (y + 1) * VGA_WIDTH + x
           IN  /\ cell \in FirstCell .. LastCell
               /\ cell \div VGA_WIDTH = y + 1 /\ cell % VGA_WIDTH = x
<1> DEFINE w == VGA_WIDTH
           cell == (y + 1) * w + x
<1>1. /\ w \in Nat \ {0} /\ VGA_HEIGHT \in Nat \ {0} /\ y \in Nat /\ y + 1 \in Nat
      /\ y + 1 <= VGA_HEIGHT /\ x \in Nat /\ x < w
  BY TtyAssumption DEF Rows, Columns
<1>2. cell \div w = y + 1 /\ cell % w = x
  BY <1>1
<1>3. /\ 1 * w <= (y + 1) * w /\ (y + 1) * w <= VGA_HEIGHT * w
  BY <1>1, TimesMonotone
<1>4. /\ (y + 1) * w \in Nat /\ VGA_HEIGHT * w \in Nat /\ 1 * w = w
      /\ (VGA_HEIGHT + 1) * w = VGA_HEIGHT * w + w
  BY <1>1
<1>5. cell \in FirstCell .. LastCell
  <2> DEFINE p == (y + 1) * w
             q == VGA_HEIGHT * w
  <2> HIDE DEF p, q
  <2> DEFINE e == (VGA_HEIGHT + 1) * w
  <2>a. e = q + w
    BY <1>4 DEF q
  <2>b. FirstCell = w /\ LastCell = e - 1
    BY DEF FirstCell, LastCell
  <2>c. cell = p + x
    BY DEF p
  <2>1. p \in Nat /\ q \in Nat /\ w <= p /\ p <= q
    BY <1>3, <1>4 DEF p, q
  <2> HIDE DEF e, cell
  <2>2. cell \in Nat /\ FirstCell <= cell /\ cell <= LastCell /\ FirstCell \in Int /\ LastCell \in Int
    BY <1>1, <2>a, <2>b, <2>c, <2>1
  <2> QED
    BY <2>2
<1> QED
  BY <1>2, <1>5

LEMMA PartlyStart ==
    ASSUME NEW b
    PROVE  Partly(b, b, FirstCell)
<1> SUFFICES ASSUME NEW y \in Rows, NEW x \in Columns
             PROVE  ~ ((y + 1) * VGA_WIDTH + x < FirstCell)
  BY DEF Partly
<1>1. (y + 1) * VGA_WIDTH + x \in FirstCell .. LastCell
  BY CellPlace
<1>2. FirstCell \in Int /\ LastCell \in Int
  BY TtyAssumption DEF FirstCell, LastCell
<1> DEFINE c == (y + 1) * VGA_WIDTH + x
<1> HIDE DEF c
<1>3. c \in FirstCell .. LastCell
  BY <1>1 DEF c
<1>4. ~ (c < FirstCell)
  BY <1>2, <1>3
<1> QED
  BY <1>4 DEF c

LEMMA PartlyDone ==
    ASSUME NEW b \in [Rows -> [Columns -> Nat]], NEW buffer \in [Rows -> [Columns -> Nat]],
           Partly(buffer, b, LastCell + 1)
    PROVE  buffer = Scrolled(b)
<1>1. ASSUME NEW y \in Rows, NEW x \in Columns
      PROVE  buffer[y][x] = Scrolled(b)[y][x]
  <2> DEFINE c == (y + 1) * VGA_WIDTH + x
  <2>1. c \in FirstCell .. LastCell
    BY CellPlace
  <2>2. buffer[y][x] = IF c < LastCell + 1 THEN Scrolled(b)[y][x] ELSE b[y][x]
    BY DEF Partly
  <2>3. FirstCell \in Int /\ LastCell \in Int
    BY TtyAssumption DEF FirstCell, LastCell
  <2> HIDE DEF c
  <2>4. c < LastCell + 1
    BY <2>1, <2>3
  <2> QED
    BY <2>2, <2>4
<1>2. Scrolled(b) \in [Rows -> [Columns -> Nat]]
  BY ScrolledType
<1> DEFINE s == Scrolled(b)
<1> HIDE DEF s
<1>3. s \in [Rows -> [Columns -> Nat]] /\ \A y \in Rows, x \in Columns : buffer[y][x] = s[y][x]
  BY <1>1, <1>2 DEF s
<1>4. \A y \in Rows : buffer[y] = s[y]
  BY <1>3
<1>5. buffer = s
  BY <1>3, <1>4
<1> QED
  BY <1>5 DEF s

LEMMA PartlyNext ==
    ASSUME NEW b \in [Rows -> [Columns -> Nat]], NEW t \in Terminals,
           NEW index \in FirstCell .. LastCell, Partly(t.buffer, b, index)
    PROVE  Partly(ScrollCell(t, index).buffer, b, index + 1)
<1> DEFINE y == index \div VGA_WIDTH
           x == index % VGA_WIDTH
           old == t.buffer
           new == ScrollCell(t, index).buffer
           s == Scrolled(b)
           Cell(r, c) == (r + 1) * VGA_WIDTH + c
<1>1. index \in Nat /\ y \in 1 .. VGA_HEIGHT /\ x \in Columns /\ y \in Nat
  BY CellRange
<1>2. \A r \in Rows, c \in Columns :
         new[r][c] = IF r = y - 1 /\ c = x THEN IF y < VGA_HEIGHT THEN old[y][x] ELSE 0
                     ELSE old[r][c]
  BY ScrollCellFields
<1>3. \A r \in Rows, c \in Columns : old[r][c] = IF Cell(r, c) < index THEN s[r][c] ELSE b[r][c]
  BY DEF Partly
<1>4. VGA_WIDTH \in Nat \ {0} /\ VGA_HEIGHT \in Nat \ {0}
  BY TtyAssumption
<1>5. y - 1 \in Rows /\ (y < VGA_HEIGHT <=> y \in Rows)
  BY <1>1, <1>4 DEF Rows
<1>6. Cell(y - 1, x) = index
  <2>1. index = y * VGA_WIDTH + x
    BY <1>1, <1>4, DivMod
  <2> HIDE DEF x, y
  <2>2. (y - 1) + 1 = y
    BY <1>1
  <2> QED
    BY <2>1, <2>2
<1>7. \A r \in Rows, c \in Columns : Cell(r, c) = index => r = y - 1 /\ c = x
  <2> SUFFICES ASSUME NEW r \in Rows, NEW c \in Columns, Cell(r, c) = index
               PROVE  r = y - 1 /\ c = x
    OBVIOUS
  <2>1. Cell(r, c) \div VGA_WIDTH = r + 1 /\ Cell(r, c) % VGA_WIDTH = c
    BY CellPlace
  <2>2. r \in Nat
    BY <1>4 DEF Rows
  <2>3. y = r + 1 /\ x = c
    BY <2>1
  <2> HIDE DEF x, y
  <2> QED
    BY <2>2, <2>3
<1>8. \A r \in Rows, c \in Columns : Cell(r, c) \in Nat
  <2> SUFFICES ASSUME NEW r \in Rows, NEW c \in Columns PROVE Cell(r, c) \in Nat
    OBVIOUS
  <2>1. r + 1 \in Nat /\ c \in Nat
    BY <1>4 DEF Rows, Columns
  <2>2. (r + 1) * VGA_WIDTH \in Nat
    BY <1>4, <2>1
  <2> QED
    BY <2>1, <2>2
<1>9. y \in Rows => Cell(y, x) > index
  <2>1. Cell(y, x) = Cell(y - 1, x) + VGA_WIDTH
    <3> HIDE DEF x, y
    <3>1. x \in Nat
      BY <1>1, <1>4 DEF Columns
    <3> QED
      BY <1>1, <1>4, <3>1
  <2> HIDE DEF x, y
  <2> QED
    BY <1>1, <1>4, <1>6, <2>1
<1> HIDE DEF x, y, new, old, s, Cell
<1>10. ASSUME NEW r \in Rows, NEW c \in Columns
       PROVE  new[r][c] = IF Cell(r, c) < index + 1 THEN s[r][c] ELSE b[r][c]
  <2>1. CASE r = y - 1 /\ c = x
    <3>1. Cell(r, c) < index + 1
      BY <1>1, <1>6, <2>1
    <3>2. y \in Rows => s[r][c] = b[y][x]
      <4>1. r + 1 = y
        BY <1>1, <2>1
      <4> QED
        BY <2>1, <4>1 DEF s, Scrolled
    <3>3. y \notin Rows => s[r][c] = 0
      <4>1. r + 1 = y
        BY <1>1, <2>1
      <4> QED
        BY <2>1, <4>1 DEF s, Scrolled, Blank
    <3>4. y \in Rows => old[y][x] = b[y][x]
      <4> SUFFICES ASSUME y \in Rows PROVE old[y][x] = b[y][x]
        OBVIOUS
      <4>1. ~ (Cell(y, x) < index)
        BY <1>1, <1>8, <1>9
      <4> QED
        BY <1>1, <1>3, <4>1
    <3>5. new[r][c] = IF y \in Rows THEN old[y][x] ELSE 0
      BY <1>2, <1>5, <2>1
    <3> QED
      BY <3>1, <3>2, <3>3, <3>4, <3>5
  <2>2. CASE ~ (r = y - 1 /\ c = x)
    <3>1. Cell(r, c) # index /\ Cell(r, c) \in Nat
      BY <1>7, <1>8, <2>2
    <3>2. Cell(r, c) < index <=> Cell(r, c) < index + 1
      BY <1>1, <3>1
    <3>3. new[r][c] = old[r][c]
      BY <1>2, <2>2
    <3> QED
      BY <1>3, <3>2, <3>3
  <2> QED
    BY <2>1, <2>2
<1> QED
  BY <1>10 DEF Partly, new, s, Cell
-----------------------------------------------------------------------------
(* The screen during a call that no handler has interrupted                *)

(* The character is printed, and the cursor is in its row.                 *)
Printed(chars, m, row, buffer) ==
    LET at == Sheet(chars)
        r == at[m - 1].row
    IN  row = r - First(r) /\ Window(at, chars, m, First(r), buffer)

(* It is the last one of its row.                                          *)
EndsRow(chars, m, column) ==
    chars[m] # "nl" => Sheet(chars)[m - 1].column + 1 = VGA_WIDTH /\ column = 0

Buffers == [Rows -> [Columns -> Nat]]

TailAt(p, row, column, buffer, r, chars, m) ==
    /\ p = "idle" => Shows(Sheet(chars), chars, Len(chars), row, column, buffer)
    /\ p # "idle" => m = Len(chars)
    /\ p \in {"index", "cell"} =>
          chars[m] # "nl" /\ Shows(Sheet(chars), chars, m - 1, row, column, buffer)
    /\ p = "index" => r = row
    /\ p = "cell" => r = row * VGA_WIDTH + column
    /\ p \in {"load_column", "store_column"} =>
          /\ chars[m] # "nl" /\ Printed(chars, m, row, buffer)
          /\ column = Sheet(chars)[m - 1].column
    /\ p = "store_column" => r = column + 1
    /\ p \in {"compare_column", "wrap"} =>
          /\ chars[m] # "nl" /\ Printed(chars, m, row, buffer)
          /\ column = Sheet(chars)[m - 1].column + 1
    /\ p = "wrap" => column = VGA_WIDTH
    /\ p \in {"load_row", "store_row"} =>
          Printed(chars, m, row, buffer) /\ EndsRow(chars, m, column)
    /\ p = "store_row" => r = row + 1
    /\ p = "compare_row" => Printed(chars, m, row - 1, buffer) /\ EndsRow(chars, m, column)
    /\ p = "scroll" =>
          /\ EndsRow(chars, m, column)
          /\ \E b \in Buffers : Printed(chars, m, VGA_HEIGHT - 1, b) /\ Partly(buffer, b, r)
    /\ p = "reset_row" =>
          /\ EndsRow(chars, m, column)
          /\ \E b \in Buffers : Printed(chars, m, VGA_HEIGHT - 1, b) /\ buffer = Scrolled(b)
    /\ p = "reset_column" =>
          chars[m] = "nl" /\ Shows(Sheet(chars), chars, m, row, 0, buffer)

TailInv == hit = "never" => TailAt(pc, tty.row, tty.column, tty.buffer, reg, text, mine)

LEMMA TailInit == Init => TailInv
<1> SUFFICES ASSUME Init PROVE TailInv
  OBVIOUS
<1>1. tty.row = 0 /\ tty.column = 0 /\ text = <<>> /\ pc = "idle"
  BY DEF Init, terminal_initialize
<1>2. Len(text) = 0 /\ Len(text) \in Nat
  BY <1>1
<1>3. Sheet(text)[0].row = 0 /\ Sheet(text)[0].column = 0
  BY <1>2, SheetIs DEF IsSheet
<1>4. \A y \in Rows, x \in Columns : tty.buffer[y][x] = 0
  BY DEF Init, terminal_initialize, Blank
<1>5. First(0) = 0
  BY TtyAssumption DEF First
<1> DEFINE at == Sheet(text)
<1> HIDE DEF at
<1>6. Window(at, text, 0, 0, tty.buffer)
  BY <1>4 DEF Window, Holds
<1>7. Shows(at, text, Len(text), tty.row, tty.column, tty.buffer)
  BY <1>1, <1>2, <1>3, <1>5, <1>6 DEF Shows, at
<1> QED
  BY <1>1, <1>7 DEF TailInv, TailAt, at

LEMMA TailPutchar ==
    ASSUME CursorInv, TailInv, NEW ch \in {"own", "nl"}, Putchar(ch)
    PROVE  TailInv'
<1> SUFFICES ASSUME hit' = "never"
             PROVE  TailAt(pc', tty'.row, tty'.column, tty'.buffer, reg', text', mine')
  BY DEF TailInv
<1>1. /\ pc' = IF ch = "nl" THEN "load_row" ELSE "index"
      /\ reg' = IF ch = "nl" THEN 0 ELSE tty.row
      /\ tty' = tty /\ hit = "never" /\ pc = "idle"
      /\ text' = Append(text, ch) /\ mine' = Len(text) + 1
  BY DEF Putchar
<1> DEFINE n == mine'
           row == tty.row
           column == tty.column
           buffer == tty.buffer
           at == Sheet(text')
<1>2. text \in Seq({"own", "nl", "irq"})
  BY DEF CursorInv, TypeInv
<1>3. /\ Len(text) \in Nat /\ Len(text') = n /\ n = Len(text) + 1 /\ n \in Nat \ {0}
      /\ Len(text) \in 0 .. Len(text) /\ Len(text) <= Len(text') /\ Len(text') \in Nat
      /\ n - 1 = Len(text)
  BY <1>1, <1>2
<1>4. text'[n] = ch /\ \A k \in 1 .. Len(text) : text'[k] = text[k]
  BY <1>1, <1>2
<1>5. Shows(Sheet(text), text, Len(text), row, column, buffer)
  BY <1>1 DEF TailInv, TailAt
<1>6. Shows(at, text', n - 1, row, column, buffer)
  BY <1>3, <1>4, <1>5, ShowsMore
<1>7. CASE ch = "nl"
  <2>1. Window(at, text', n - 1, First(at[n - 1].row), buffer) /\ row = at[n - 1].row - First(at[n - 1].row)
    BY <1>6 DEF Shows
  <2>2. Window(at, text', n, First(at[n - 1].row), buffer)
    BY <1>3, <1>4, <1>7, <2>1, WindowNewline
  <2>3. Printed(text', n, row, buffer)
    BY <2>1, <2>2 DEF Printed
  <2>4. EndsRow(text', n, column)
    BY <1>4, <1>7 DEF EndsRow
  <2> HIDE DEF row, column, buffer, at, n
  <2>5. TailAt("load_row", row, column, buffer, 0, text', n)
    BY <1>3, <2>3, <2>4 DEF TailAt
  <2> QED
    BY <1>1, <1>7, <2>5 DEF row, column, buffer, n
<1>8. CASE ch # "nl"
  <2>1. TailAt("index", row, column, buffer, row, text', n)
    <3> HIDE DEF row, column, buffer, n
    <3> QED
      BY <1>3, <1>4, <1>6, <1>8 DEF TailAt
  <2> QED
    BY <1>1, <1>8, <2>1
<1> QED
  BY <1>7, <1>8

LEMMA TailIrq ==
    ASSUME CursorInv, TailInv, NEW i \in Messages, irq_handler(i)
    PROVE  TailInv'
<1> SUFFICES ASSUME hit' = "never"
             PROVE  TailAt(pc', tty'.row, tty'.column, tty'.buffer, reg', text', mine')
  BY DEF TailInv
<1> DEFINE more == text'
           at == Sheet(more)
           len == Len(text)
           m == Message(i)
<1>1. /\ hit' = IF pc = "compare_row" /\ tty.row = VGA_HEIGHT THEN "lost"
                ELSE IF pc # "idle" /\ hit = "never" THEN "healed" ELSE hit
      /\ pc' = pc
  BY DEF irq_handler
<1>2. hit = "never" /\ pc = "idle"
  BY <1>1
<1>3. tty' = terminal_writestring(tty, m, len + 1) /\ more = text \o m
  BY DEF irq_handler, Message
<1>4. text \in Seq({"own", "nl", "irq"}) /\ tty \in Terminals
  BY DEF CursorInv, TypeInv
<1>5. m \in Seq({"own", "nl", "irq"}) /\ i \in Nat
  <2>1. i \in Nat
    BY TtyAssumption
  <2> QED
    BY <2>1 DEF Message
<1> HIDE DEF m
<1>6. /\ len \in Nat /\ Len(m) \in Nat /\ Len(more) = len + Len(m) /\ Len(more) \in Nat
      /\ \A k \in 1 .. len : more[k] = text[k]
      /\ \A k \in 1 .. Len(m) : more[len + k] = m[k]
  BY <1>3, <1>4, <1>5
<1>7. Shows(at, more, len, tty.row, tty.column, tty.buffer)
  <2>1. Shows(Sheet(text), text, len, tty.row, tty.column, tty.buffer)
    BY <1>2 DEF TailInv, TailAt
  <2>2. len \in 0 .. len /\ len <= Len(more)
    BY <1>6
  <2> HIDE DEF more
  <2> QED
    BY <1>6, <2>1, <2>2, ShowsMore
<1>8. PICK f : /\ tty' = f[Len(m)] /\ f[0] = tty
               /\ \A k \in 1 .. Len(m) : f[k] = terminal_putchar(f[k - 1], m[k], len + 1 + k - 1)
  <2> DEFINE s == len + 1
  <2> HIDE DEF s
  <2>1. \E f : /\ terminal_writestring(tty, m, s) = f[Len(m)] /\ f[0] = tty
               /\ \A k \in 1 .. Len(m) : f[k] = terminal_putchar(f[k - 1], m[k], s + k - 1)
    BY <1>5, WritestringIs
  <2>2. tty' = terminal_writestring(tty, m, s)
    BY <1>3 DEF s
  <2> QED
    BY <2>1, <2>2 DEF s
<1>9. IsSheet(at, more)
  BY <1>6, SheetIs
<1> HIDE DEF at, more, len
<1>10. \A k \in 0 .. Len(m) :
          f[k] \in Terminals /\ Shows(at, more, len + k, f[k].row, f[k].column, f[k].buffer)
  <2> DEFINE Good(k) == /\ f[k] \in Terminals
                        /\ Shows(at, more, len + k, f[k].row, f[k].column, f[k].buffer)
             Bad == {k \in 0 .. Len(m) : ~ Good(k)}
  <2> SUFFICES ASSUME Bad # {} PROVE FALSE
    OBVIOUS
  <2>1. PICK k \in Bad : \A j \in Bad : k <= j
    BY <1>6, LeastNumber, Bad \subseteq Nat
  <2>2. CASE k = 0
    <3>1. len + 0 = len
      BY <1>6
    <3> QED
      BY <1>4, <1>7, <1>8, <2>1, <2>2, <3>1
  <2>3. CASE k # 0
    <3>1. /\ k \in 1 .. Len(m) /\ k - 1 \in 0 .. Len(m) /\ k - 1 < k
          /\ len + 1 + k - 1 = len + k /\ len + k \in 1 .. Len(more)
          /\ len + (k - 1) = (len + k) - 1
      BY <1>6, <2>1, <2>3
    <3>2. Good(k - 1)
      BY <2>1, <3>1
    <3>3. f[k] = terminal_putchar(f[k - 1], more[len + k], len + k)
      BY <1>6, <1>8, <3>1
    <3> DEFINE t == f[k - 1]
               n == len + k
    <3>4. t \in Terminals /\ Shows(at, more, n - 1, t.row, t.column, t.buffer) /\ n \in 1 .. Len(more)
      BY <3>1, <3>2
    <3> HIDE DEF t, n
    <3>5. LET u == terminal_putchar(t, more[n], n)
          IN  u \in Terminals /\ Shows(at, more, n, u.row, u.column, u.buffer)
      BY <1>6, <1>9, <3>4, ShowsPutchar
    <3>6. Good(k)
      BY <3>3, <3>5 DEF t, n
    <3> QED
      BY <2>1, <3>6
  <2> QED
    BY <2>2, <2>3
<1>11. Shows(at, more, Len(more), tty'.row, tty'.column, tty'.buffer)
  BY <1>6, <1>8, <1>10
<1> QED
  BY <1>1, <1>2, <1>11 DEF TailAt, at, more

(* The steps of the interrupted code                                       *)
LEMMA TailColumns ==
    ASSUME CursorInv, TailInv,
           Index \/ WriteCell \/ LoadColumn \/ StoreColumn \/ CompareColumn \/ Wrap
    PROVE  TailInv'
<1> SUFFICES ASSUME hit' = "never"
             PROVE  TailAt(pc', tty'.row, tty'.column, tty'.buffer, reg', text', mine')
  BY DEF TailInv
<1>1. hit = "never" /\ text' = text /\ mine' = mine /\ pc # "idle"
  BY DEF Index, WriteCell, LoadColumn, StoreColumn, CompareColumn, Wrap
<1> DEFINE row == tty.row
           column == tty.column
           buffer == tty.buffer
           at == Sheet(text)
           a == at[mine - 1]
           At(p, t, r) == TailAt(p, t.row, t.column, t.buffer, r, text, mine)
<1>2. At(pc, tty, reg)
  BY <1>1 DEF TailInv
<1>3. tty \in Terminals /\ reg \in Nat /\ buffer \in Buffers
  BY DEF CursorInv, TypeInv, Terminals, Buffers
<1>4. text \in Seq({"own", "nl", "irq"}) /\ mine \in 0 .. Len(text) /\ mine # 0
  BY <1>1 DEF CursorInv, TypeInv
<1>5. /\ Len(text) \in Nat /\ mine \in 1 .. Len(text) /\ mine \in Nat \ {0} /\ mine \in Nat
      /\ mine - 1 \in 0 .. Len(text)
  BY <1>4
<1>6. IsSheet(at, text)
  BY <1>5, SheetIs
<1>7. a \in Places /\ a.row \in Nat /\ a.column \in Columns
  BY <1>5, <1>6 DEF IsSheet, Places
<1>8. VGA_HEIGHT \in Nat \ {0} /\ VGA_WIDTH \in Nat \ {0}
  BY TtyAssumption
<1> SUFFICES At(pc', tty', reg')
  BY <1>1
<1> HIDE DEF at
<1>9. CASE Index
  <2>1. At("cell", tty, reg * VGA_WIDTH + tty.column)
    <3> HIDE DEF row, column, buffer
    <3>1. TailAt("index", row, column, buffer, reg, text, mine)
      BY <1>2, <1>9 DEF Index, row, column, buffer
    <3>2. TailAt("cell", row, column, buffer, reg * VGA_WIDTH + column, text, mine)
      BY <3>1 DEF TailAt
    <3> QED
      BY <3>2 DEF row, column, buffer
  <2> QED
    BY <1>9, <2>1 DEF Index
<1>10. CASE WriteCell
  <2> DEFINE u == terminal_putentryat(tty, mine, reg, 0)
             first == First(a.row)
  <2>1. TailAt("cell", row, column, buffer, reg, text, mine)
    BY <1>2, <1>10 DEF WriteCell
  <2>2. /\ text[mine] # "nl" /\ Shows(at, text, mine - 1, row, column, buffer)
        /\ mine = Len(text) /\ reg = row * VGA_WIDTH + column
    <3> HIDE DEF row, column, buffer
    <3> QED
      BY <2>1 DEF TailAt, at
  <2>3. /\ row = a.row - first /\ column = a.column
        /\ Window(at, text, mine - 1, first, buffer)
    BY <2>2 DEF Shows
  <2>4. first \in Nat /\ row \in Rows /\ a.row = first + row /\ column \in Columns
    BY <1>7, <1>8, <2>3 DEF First, Rows
  <2>5. RowOf(reg, 0) = row /\ ColumnOf(reg) = column
    BY <2>2, <2>4, OnScreen
  <2>6. /\ u.row = row /\ u.column = column
        /\ u.buffer = Written(buffer, mine, reg, RowOf(reg, 0))
    <3>1. tty \in Terminals /\ mine \in Nat /\ reg \in Nat /\ 0 \in Nat
      BY <1>3, <1>5
    <3>2. /\ u.row = tty.row /\ u.column = tty.column
          /\ u.buffer = Written(tty.buffer, mine, reg, RowOf(reg, 0))
      BY <3>1, PutentryFields
    <3> QED
      BY <3>2
  <2> HIDE DEF u, first, row, column, buffer, a
  <2>7. PutAt(u.buffer, buffer, row, column, mine)
    BY <1>3, <2>4, <2>5, <2>6, WrittenHere DEF Buffers
  <2>8. Window(at, text, mine, first, u.buffer)
    <3>1. at[mine - 1].row = first + row /\ at[mine - 1].column = column
      BY <2>3, <2>4 DEF a
    <3> QED
      BY <1>5, <2>2, <2>3, <2>4, <2>7, <3>1, WindowWrite
  <2>9. Printed(text, mine, row, u.buffer)
    BY <2>3, <2>8 DEF Printed, at, a, first
  <2>10. column = Sheet(text)[mine - 1].column
    BY <2>3 DEF a, at
  <2>11. TailAt("load_column", row, column, u.buffer, reg, text, mine)
    BY <2>2, <2>9, <2>10 DEF TailAt
  <2>12. At("load_column", u, reg)
    BY <2>6, <2>11
  <2> QED
    BY <1>10, <2>12 DEF WriteCell, u
<1>11. CASE LoadColumn
  <2>1. At("store_column", tty, tty.column + 1)
    <3> HIDE DEF row, column, buffer
    <3>1. TailAt("load_column", row, column, buffer, reg, text, mine)
      BY <1>2, <1>11 DEF LoadColumn, row, column, buffer
    <3>2. TailAt("store_column", row, column, buffer, column + 1, text, mine)
      BY <3>1 DEF TailAt
    <3> QED
      BY <3>2 DEF row, column, buffer
  <2> QED
    BY <1>11, <2>1 DEF LoadColumn
<1>12. CASE StoreColumn
  <2> DEFINE u == [tty EXCEPT !.column = reg]
  <2>1. u.column = reg /\ u.row = row /\ u.buffer = buffer
    BY <1>3, ColumnUpdate
  <2> HIDE DEF u
  <2>2. At("compare_column", u, reg)
    <3> HIDE DEF row, column, buffer
    <3>1. TailAt("store_column", row, column, buffer, reg, text, mine)
      BY <1>2, <1>12 DEF StoreColumn, row, column, buffer
    <3>2. TailAt("compare_column", row, reg, buffer, reg, text, mine)
      BY <3>1 DEF TailAt
    <3> QED
      BY <2>1, <3>2
  <2> QED
    BY <1>12, <2>2 DEF StoreColumn, u
<1>13. CASE CompareColumn
  <2>1. TailAt("compare_column", row, column, buffer, reg, text, mine)
    BY <1>2, <1>13 DEF CompareColumn
  <2> HIDE DEF row, column, buffer
  <2>2. column = VGA_WIDTH => TailAt("wrap", row, column, buffer, reg, text, mine)
    BY <2>1 DEF TailAt
  <2>3. column # VGA_WIDTH => TailAt("idle", row, column, buffer, reg, text, mine)
    <3> SUFFICES ASSUME column # VGA_WIDTH
                 PROVE  TailAt("idle", row, column, buffer, reg, text, mine)
      OBVIOUS
    <3>1. /\ text[mine] # "nl" /\ Printed(text, mine, row, buffer) /\ mine = Len(text)
          /\ column = a.column + 1
      BY <2>1 DEF TailAt, at
    <3>2. ~ Wraps(text, mine, a)
      BY <3>1 DEF Wraps
    <3>3. at[mine].row = a.row /\ at[mine].column = a.column + 1
      BY <1>5, <1>6, <3>2 DEF IsSheet
    <3>4. Shows(at, text, mine, row, column, buffer)
      BY <3>1, <3>3 DEF Shows, Printed, at
    <3> QED
      BY <3>1, <3>4 DEF TailAt, at
  <2> QED
    BY <1>13, <2>2, <2>3 DEF CompareColumn, row, column, buffer
<1>14. CASE Wrap
  <2> DEFINE u == [tty EXCEPT !.column = 0]
  <2>1. u.column = 0 /\ u.row = row /\ u.buffer = buffer
    BY <1>3, ColumnUpdate
  <2> HIDE DEF u
  <2>2. At("load_row", u, reg)
    <3> HIDE DEF row, column, buffer
    <3>1. TailAt("wrap", row, column, buffer, reg, text, mine)
      BY <1>2, <1>14 DEF Wrap, row, column, buffer
    <3>2. TailAt("load_row", row, 0, buffer, reg, text, mine)
      BY <3>1 DEF TailAt, EndsRow
    <3> QED
      BY <2>1, <3>2
  <2> QED
    BY <1>14, <2>2 DEF Wrap, u
<1> QED
  BY <1>9, <1>10, <1>11, <1>12, <1>13, <1>14

LEMMA TailRows ==
    ASSUME CursorInv, TailInv,
           LoadRow \/ StoreRow \/ CompareRow \/ Scroll \/ ResetRow \/ ResetColumn
    PROVE  TailInv'
<1> SUFFICES ASSUME hit' = "never"
             PROVE  TailAt(pc', tty'.row, tty'.column, tty'.buffer, reg', text', mine')
  BY DEF TailInv
<1>1. hit = "never" /\ text' = text /\ mine' = mine /\ pc # "idle"
  BY DEF LoadRow, StoreRow, CompareRow, Scroll, ResetRow, ResetColumn
<1> DEFINE row == tty.row
           column == tty.column
           buffer == tty.buffer
           at == Sheet(text)
           a == at[mine - 1]
           At(p, t, r) == TailAt(p, t.row, t.column, t.buffer, r, text, mine)
<1>2. At(pc, tty, reg)
  BY <1>1 DEF TailInv
<1>3. tty \in Terminals /\ reg \in Nat /\ buffer \in Buffers /\ row \in Nat
  BY DEF CursorInv, TypeInv, Terminals, Buffers
<1>4. text \in Seq({"own", "nl", "irq"}) /\ mine \in 0 .. Len(text) /\ mine # 0
  BY <1>1 DEF CursorInv, TypeInv
<1>5. Len(text) \in Nat /\ mine \in 1 .. Len(text) /\ mine \in Nat
  BY <1>4
<1>6. IsSheet(at, text)
  BY <1>5, SheetIs
<1>7. VGA_HEIGHT \in Nat \ {0}
  BY TtyAssumption
<1> SUFFICES At(pc', tty', reg')
  BY <1>1
<1> HIDE DEF at
(* The row of the cursor, once the character is printed                    *)
<1>8. ASSUME NEW c, EndsRow(text, mine, c), NEW r, NEW b, Printed(text, mine, r, b)
      PROVE  /\ r \in Rows
             /\ r + 1 = VGA_HEIGHT => Shows(at, text, mine, VGA_HEIGHT - 1, 0, Scrolled(b))
             /\ r + 1 # VGA_HEIGHT => Shows(at, text, mine, r + 1, 0, b)
  <2>1. Wraps(text, mine, a)
    BY <1>8 DEF EndsRow, Wraps, at
  <2>2. r = a.row - First(a.row) /\ Window(at, text, mine, First(a.row), b)
    BY <1>8 DEF Printed, at
  <2> QED
    BY <1>5, <1>6, <2>1, <2>2, RowDone
(* The end of the call, or of its first half                               *)
<1>9. ASSUME NEW c, EndsRow(text, mine, c), NEW r, NEW b, NEW g, mine = Len(text),
             Shows(at, text, mine, r, 0, b)
      PROVE  TailAt(AfterRow, r, c, b, g, text, mine)
  <2>1. CASE text[mine] = "nl"
    <3>1. TailAt("reset_column", r, c, b, g, text, mine)
      BY <1>9, <2>1 DEF TailAt, at
    <3> QED
      BY <2>1, <3>1 DEF AfterRow
  <2>2. CASE text[mine] # "nl"
    <3>1. c = 0
      BY <1>9, <2>2 DEF EndsRow
    <3>2. TailAt("idle", r, c, b, g, text, mine)
      BY <1>9, <3>1 DEF TailAt, at
    <3> QED
      BY <2>2, <3>2 DEF AfterRow
  <2> QED
    BY <2>1, <2>2
<1>10. CASE LoadRow
  <2>1. At("store_row", tty, tty.row + 1)
    <3> HIDE DEF row, column, buffer
    <3>1. TailAt("load_row", row, column, buffer, reg, text, mine)
      BY <1>2, <1>10 DEF LoadRow, row, column, buffer
    <3>2. TailAt("store_row", row, column, buffer, row + 1, text, mine)
      BY <3>1 DEF TailAt
    <3> QED
      BY <3>2 DEF row, column, buffer
  <2> QED
    BY <1>10, <2>1 DEF LoadRow
<1>11. CASE StoreRow
  <2> DEFINE u == [tty EXCEPT !.row = reg]
  <2>1. u.row = reg /\ u.column = column /\ u.buffer = buffer
    BY <1>3, RowUpdate
  <2> HIDE DEF u
  <2>2. At("compare_row", u, reg)
    <3> HIDE DEF row, column, buffer
    <3>1. TailAt("store_row", row, column, buffer, reg, text, mine)
      BY <1>2, <1>11 DEF StoreRow, row, column, buffer
    <3>2. reg - 1 = row
      BY <1>3, <3>1 DEF TailAt
    <3>3. TailAt("compare_row", reg, column, buffer, reg, text, mine)
      BY <3>1, <3>2 DEF TailAt
    <3> QED
      BY <2>1, <3>3
  <2> QED
    BY <1>11, <2>2 DEF StoreRow, u
<1>12. CASE CompareRow
  <2>1. TailAt("compare_row", row, column, buffer, reg, text, mine)
    BY <1>2, <1>12 DEF CompareRow
  <2> HIDE DEF row, column, buffer
  <2>2. Printed(text, mine, row - 1, buffer) /\ EndsRow(text, mine, column) /\ mine = Len(text)
    BY <2>1 DEF TailAt
  <2>3. CASE row = VGA_HEIGHT
    <3>1. Partly(buffer, buffer, FirstCell)
      BY PartlyStart
    <3>2. Printed(text, mine, VGA_HEIGHT - 1, buffer)
      BY <2>2, <2>3
    <3>3. TailAt("scroll", row, column, buffer, FirstCell, text, mine)
      BY <1>3, <2>2, <3>1, <3>2 DEF TailAt
    <3> QED
      BY <1>12, <2>3, <3>3 DEF CompareRow, row, column, buffer
  <2>4. CASE row # VGA_HEIGHT
    <3>1. (row - 1) + 1 = row
      BY <1>3
    <3>2. Shows(at, text, mine, row, 0, buffer)
      BY <1>8, <2>2, <2>4, <3>1
    <3>3. TailAt(AfterRow, row, column, buffer, FirstCell, text, mine)
      BY <1>9, <2>2, <3>2
    <3> QED
      BY <1>12, <2>4, <3>3 DEF CompareRow, row, column, buffer
  <2> QED
    BY <2>3, <2>4
<1>13. CASE Scroll
  <2> DEFINE u == ScrollCell(tty, reg)
  <2>1. reg \in FirstCell .. LastCell
    BY <1>13 DEF CursorInv, ScrollInv, Scroll
  <2>2. u \in Terminals /\ u.row = row /\ u.column = column
    BY <1>3, <2>1, ScrollCellFields
  <2>3. TailAt("scroll", row, column, buffer, reg, text, mine)
    BY <1>2, <1>13 DEF Scroll
  <2> HIDE DEF row, column, buffer
  <2>4. EndsRow(text, mine, column) /\ mine = Len(text)
    BY <2>3 DEF TailAt
  <2>5. PICK b \in Buffers : Printed(text, mine, VGA_HEIGHT - 1, b) /\ Partly(buffer, b, reg)
    BY <2>3 DEF TailAt
  <2>6. Partly(u.buffer, b, reg + 1)
    BY <1>3, <2>1, <2>5, PartlyNext DEF buffer, Buffers
  <2>7. u.buffer \in Buffers
    BY <2>2 DEF Terminals, Buffers
  <2> HIDE DEF u
  <2>8. CASE reg = LastCell
    <3>1. u.buffer = Scrolled(b)
      BY <2>6, <2>7, <2>8, PartlyDone DEF Buffers
    <3>2. TailAt("reset_row", row, column, u.buffer, reg + 1, text, mine)
      BY <2>4, <2>5, <3>1 DEF TailAt
    <3> QED
      BY <1>13, <2>2, <2>8, <3>2 DEF Scroll, u
  <2>9. CASE reg # LastCell
    <3>1. TailAt("scroll", row, column, u.buffer, reg + 1, text, mine)
      BY <2>4, <2>5, <2>6 DEF TailAt
    <3> QED
      BY <1>13, <2>2, <2>9, <3>1 DEF Scroll, u
  <2> QED
    BY <2>8, <2>9
<1>14. CASE ResetRow
  <2> DEFINE u == [tty EXCEPT !.row = VGA_HEIGHT - 1]
  <2>1. u.row = VGA_HEIGHT - 1 /\ u.column = column /\ u.buffer = buffer
    <3>1. VGA_HEIGHT - 1 \in Nat
      BY <1>7
    <3> QED
      BY <1>3, <3>1, RowUpdate
  <2> HIDE DEF u
  <2>2. TailAt("reset_row", row, column, buffer, reg, text, mine)
    BY <1>2, <1>14 DEF ResetRow
  <2> HIDE DEF row, column, buffer
  <2>3. EndsRow(text, mine, column) /\ mine = Len(text)
    BY <2>2 DEF TailAt
  <2>4. PICK b \in Buffers : Printed(text, mine, VGA_HEIGHT - 1, b) /\ buffer = Scrolled(b)
    BY <2>2 DEF TailAt
  <2>5. (VGA_HEIGHT - 1) + 1 = VGA_HEIGHT
    BY <1>7
  <2>6. Shows(at, text, mine, VGA_HEIGHT - 1, 0, buffer)
    BY <1>8, <2>3, <2>4, <2>5
  <2>7. TailAt(AfterRow, VGA_HEIGHT - 1, column, buffer, reg, text, mine)
    BY <1>9, <2>3, <2>6
  <2> QED
    BY <1>14, <2>1, <2>7 DEF ResetRow, u
<1>15. CASE ResetColumn
  <2> DEFINE u == [tty EXCEPT !.column = 0]
  <2>1. u.column = 0 /\ u.row = row /\ u.buffer = buffer
    BY <1>3, ColumnUpdate
  <2> HIDE DEF u
  <2>2. At("idle", u, reg)
    <3> HIDE DEF row, column, buffer
    <3>1. TailAt("reset_column", row, column, buffer, reg, text, mine)
      BY <1>2, <1>15 DEF ResetColumn, row, column, buffer
    <3>2. TailAt("idle", row, 0, buffer, reg, text, mine)
      BY <3>1 DEF TailAt
    <3> QED
      BY <2>1, <3>2
  <2> QED
    BY <1>15, <2>2 DEF ResetColumn, u
<1> QED
  BY <1>10, <1>11, <1>12, <1>13, <1>14, <1>15

LEMMA TailNext == CursorInv /\ TailInv /\ [Next]_vars => TailInv'
<1> SUFFICES ASSUME CursorInv, TailInv, [Next]_vars PROVE TailInv'
  OBVIOUS
<1>1. CASE UNCHANGED vars
  BY <1>1 DEF vars, TailInv
<1>2. CASE Next
  BY <1>2, TailPutchar, TailColumns, TailRows, TailIrq DEF Next
<1> QED
  BY <1>1, <1>2

LEMMA MaxIs ==
    ASSUME NEW k \in Int, NEW S, S = {k}
    PROVE  Max(S) = k
<1>1. \E x \in S : \A y \in S : x >= y
  OBVIOUS
<1> QED
  BY <1>1 DEF Max

(* For a screen of any size and a text of any length: as long as no        *)
(* handler has printed in the middle of a call of terminal_putchar, the    *)
(* screen shows the last VGA_HEIGHT rows of all that was printed, wrapped  *)
(* at VGA_WIDTH, and nothing else, although a scroll moves cell by cell.   *)
THEOREM ScreenShowsTail == Spec => []ShowsTail
<1>1. CursorInv /\ TailInv => ShowsTail
  <2> SUFFICES ASSUME CursorInv, TailInv, pc = "idle", hit = "never" PROVE ShowsTail
    BY DEF ShowsTail
  <2> DEFINE at == Sheet(text)
             len == Len(text)
             first == First(at[len].row)
             Here(y, x) == {k \in DOMAIN text : /\ text[k] # "nl"
                                                /\ at[k - 1] = [row |-> first + y, column |-> x]}
  <2>1. text \in Seq({"own", "nl", "irq"})
    BY DEF CursorInv, TypeInv
  <2>2. len \in Nat /\ DOMAIN text = 1 .. len
    BY <2>1
  <2>3. IsSheet(at, text)
    BY <2>2, SheetIs
  <2>4. Window(at, text, len, first, tty.buffer)
    BY DEF TailInv, TailAt, Shows
  <2> HIDE DEF at, len
  <2>5. at[len] \in Places /\ at[len].row \in Nat
    BY <2>2, <2>3 DEF IsSheet, Places, len
  <2>6. Max({0, at[len].row - (VGA_HEIGHT - 1)}) = first
    <3> DEFINE r == at[len].row
    <3>1. r \in Nat /\ VGA_HEIGHT \in Nat \ {0}
      BY <2>5, TtyAssumption
    <3> HIDE DEF r
    <3>2. Max({0, r - (VGA_HEIGHT - 1)}) = First(r)
      BY <3>1, MaxOfTwo DEF First
    <3> QED
      BY <3>2 DEF r
  <2> HIDE DEF first
  <2>7. ASSUME NEW y \in Rows, NEW x \in Columns
        PROVE  tty.buffer[y][x] = IF Here(y, x) = {} THEN 0 ELSE Max(Here(y, x))
    <3> DEFINE b == tty.buffer[y][x]
    <3>1. Holds(at, text, len, first + y, x, b)
      BY <2>4 DEF Window
    <3>2. \A k \in 1 .. len : k \in Here(y, x) <=> Stands(at, text, k, first + y, x)
      <4> SUFFICES ASSUME NEW k \in 1 .. len
                   PROVE  k \in Here(y, x) <=> Stands(at, text, k, first + y, x)
        OBVIOUS
      <4>1. k - 1 \in 0 .. len
        BY <2>2
      <4>2. at[k - 1] \in Places
        BY <2>3, <4>1 DEF IsSheet, len
      <4>3. at[k - 1] = [row |-> first + y, column |-> x] <=>
                at[k - 1].row = first + y /\ at[k - 1].column = x
        BY <4>2 DEF Places
      <4> QED
        BY <2>2, <4>3 DEF Stands
    <3>3. \A k \in Here(y, x) : k \in 1 .. len
      BY <2>2
    <3> HIDE DEF Here, b
    <3>4. CASE b = 0 /\ \A k \in 1 .. len : ~ Stands(at, text, k, first + y, x)
      <4>1. Here(y, x) = {}
        BY <3>2, <3>3, <3>4
      <4> QED
        BY <3>4, <4>1 DEF b
    <3>5. ASSUME NEW k \in 1 .. len, Stands(at, text, k, first + y, x), b = k
          PROVE  tty.buffer[y][x] = IF Here(y, x) = {} THEN 0 ELSE Max(Here(y, x))
      <4>1. ASSUME NEW j \in Here(y, x), j # k PROVE FALSE
        <5>1. j \in 1 .. len /\ Stands(at, text, j, first + y, x)
          BY <3>2, <3>3, <4>1
        <5>2. at[j - 1].row = at[k - 1].row /\ at[j - 1].column = at[k - 1].column
          BY <3>5, <5>1 DEF Stands
        <5>3. /\ j - 1 \in 0 .. len /\ k - 1 \in 0 .. len
              /\ j - 1 < k - 1 \/ k - 1 < j - 1
          BY <2>2, <4>1, <5>1
        <5>4. /\ at[k - 1].row \in Nat /\ at[k - 1].column \in Nat
          <6>1. at[k - 1] \in Places
            BY <2>3, <5>3 DEF IsSheet, len
          <6> QED
            BY <6>1, TtyAssumption DEF Places, Columns
        <5>5. \/ at[j - 1].row < at[k - 1].row
              \/ at[k - 1].row < at[j - 1].row
              \/ at[j - 1].column < at[k - 1].column
              \/ at[k - 1].column < at[j - 1].column
          BY <2>2, <2>3, <5>3, SheetOrder DEF len
        <5> QED
          BY <5>2, <5>4, <5>5
      <4>2. k \in Here(y, x)
        BY <3>2, <3>5
      <4>3. Here(y, x) = {k}
        BY <4>1, <4>2
      <4>4. Max(Here(y, x)) = k
        BY <2>2, <4>3, MaxIs
      <4> QED
        BY <3>5, <4>3, <4>4 DEF b
    <3> QED
      BY <3>1, <3>4, <3>5 DEF Holds
  <2> QED
    BY <2>6, <2>7 DEF ShowsTail, at, len
<1>2. Spec => []TailInv
  <2>1. CursorInv /\ TailInv /\ [Next]_vars => TailInv'
    BY TailNext
  <2> QED
    BY <2>1, TailInit, CursorAlways, PTL DEF Spec
<1> QED
  BY <1>1, <1>2, CursorAlways, PTL
=============================================================================
