-------------------------------- MODULE Tty ---------------------------------
(***************************************************************************)
(* drivers/tty.c: the text terminal, written by kernel code that runs with *)
(* interrupts on (kernel_three_process_test) and by the interrupt handlers *)
(* that print in the middle of it (irq_handler, for an interrupt that has  *)
(* no handler of its own).  tty.h:10 promises no locking.                  *)
(*                                                                         *)
(* terminal_putchar of the interrupted code is modelled access by access,  *)
(* as the build compiles it (config.sh: -O0): nothing is kept in registers *)
(* between two expressions, and ++x == n reads x again to compare it.  A   *)
(* handler runs with interrupts off, so its output is one step.  A cell    *)
(* holds the number of the character written last, 0 for a blank.          *)
(***************************************************************************)
EXTENDS Integers, SequencesExt

CONSTANTS
    VGA_WIDTH, VGA_HEIGHT,
    MaxChars,   \* bound: the interrupted code prints while fewer are printed
    MaxIrqs,    \* bound: interrupts that print
    Messages    \* what handlers print, by the number of characters before
                \* the newline that ends each message

ASSUME TtyAssumption ==
    /\ VGA_WIDTH \in Nat \ {0} /\ VGA_HEIGHT \in Nat \ {0}
    /\ MaxChars \in Nat /\ MaxIrqs \in Nat
    /\ Messages \subseteq 0 .. VGA_WIDTH

VARIABLES
    tty,        \* terminal_row, terminal_column, terminal_buffer, and the
                \* highest row ever written
    pc,         \* where the interrupted code is in terminal_putchar
    reg,        \* its register
    text,       \* history: what was printed, in the order in which the
                \* calls began: "nl" for a newline, else who printed it
    mine,       \* the index in text of the character it prints
    irqs,       \* interrupts so far
    hit         \* history: have handlers printed in the middle of a call, and
                \* while its new row waited to be compared with VGA_HEIGHT?

vars == <<tty, pc, reg, text, mine, irqs, hit>>
-----------------------------------------------------------------------------
Rows == 0 .. VGA_HEIGHT - 1
Columns == 0 .. VGA_WIDTH - 1
Blank == [x \in Columns |-> 0]

terminal_initialize ==
    [row |-> 0, column |-> 0, buffer |-> [y \in Rows |-> Blank], top |-> 0]

(* The cell behind the last one of a row is the first one of the next; the *)
(* rows below the screen belong to the VGA memory and are not shown.       *)
terminal_putentryat(t, stamp, x, y) ==
    LET yy == y + x \div VGA_WIDTH
        xx == x % VGA_WIDTH
    IN  [t EXCEPT !.buffer = IF yy \in Rows THEN [@ EXCEPT ![yy][xx] = stamp] ELSE @,
                  !.top = Max({@, yy})]

(* One cell of terminal_scroll, read and written in one step; the last row *)
(* is terminal_delete_last_line.                                           *)
ScrollCell(t, index) ==
    LET y == index \div VGA_WIDTH
        x == index % VGA_WIDTH
    IN  [t EXCEPT !.buffer[y - 1][x] = IF y < VGA_HEIGHT THEN t.buffer[y][x] ELSE 0]
FirstCell == VGA_WIDTH
LastCell == (VGA_HEIGHT + 1) * VGA_WIDTH - 1
(* mutant: the last row is not deleted                                     *)
ScrollOnly(t) ==
    [t EXCEPT !.buffer = [y \in Rows |-> @[IF y + 1 \in Rows THEN y + 1 ELSE y]]]
(* All of it without interruption                                          *)
terminal_scroll(t) ==
    [t EXCEPT !.buffer = [y \in Rows |-> IF y + 1 \in Rows THEN @[y + 1] ELSE Blank]]

(* mutant: a row beyond the screen is not scrolled back                    *)
NextRowOnly(t) == [t EXCEPT !.row = @ + 1]
(* ++terminal_row, and the scroll when it is VGA_HEIGHT exactly            *)
NextRow(t) ==
    IF t.row + 1 = VGA_HEIGHT
    THEN [terminal_scroll(t) EXCEPT !.row = VGA_HEIGHT - 1]
    ELSE [t EXCEPT !.row = @ + 1]

(* terminal_putchar without interruption, as handlers execute it           *)
terminal_putchar(t, ch, stamp) ==
    IF ch = "nl" THEN [NextRow(t) EXCEPT !.column = 0]
    ELSE LET u == terminal_putentryat(t, stamp, t.column, t.row)
         IN  IF t.column + 1 = VGA_WIDTH THEN NextRow([u EXCEPT !.column = 0])
             ELSE [u EXCEPT !.column = @ + 1]

(* A whole text, stamped from a number on                                  *)
terminal_writestring(t, chars, stamp) ==
    LET after[k \in 0 .. Len(chars)] ==
            IF k = 0 THEN t ELSE terminal_putchar(after[k - 1], chars[k], stamp + k - 1)
    IN  after[Len(chars)]

Init ==
    /\ tty = terminal_initialize
    /\ pc = "idle" /\ reg = 0 /\ irqs = 0 /\ hit = "never"
    /\ text = <<>> /\ mine = 0
-----------------------------------------------------------------------------
(* The interrupted code, one access to shared memory per action            *)

(* The next character of a string: the row of its cell is read             *)
Putchar(ch) ==
    /\ pc = "idle" /\ Len(text) < MaxChars
    /\ text' = Append(text, ch) /\ mine' = Len(text) + 1
    /\ pc' = IF ch = "nl" THEN "load_row" ELSE "index"
    /\ reg' = IF ch = "nl" THEN 0 ELSE tty.row
    /\ UNCHANGED <<tty, irqs, hit>>

(* ... and its column.                                                     *)
Index ==
    /\ pc = "index" /\ pc' = "cell"
    /\ reg' = reg * VGA_WIDTH + tty.column
    /\ UNCHANGED <<tty, text, mine, irqs, hit>>

WriteCell ==
    /\ pc = "cell" /\ pc' = "load_column"
    /\ tty' = terminal_putentryat(tty, mine, reg, 0)
    /\ UNCHANGED <<reg, text, mine, irqs, hit>>

LoadColumn ==
    /\ pc = "load_column" /\ pc' = "store_column"
    /\ reg' = tty.column + 1
    /\ UNCHANGED <<tty, text, mine, irqs, hit>>

StoreColumn ==
    /\ pc = "store_column" /\ pc' = "compare_column"
    /\ tty' = [tty EXCEPT !.column = reg]
    /\ UNCHANGED <<reg, text, mine, irqs, hit>>

CompareColumn ==
    /\ pc = "compare_column"
    /\ pc' = IF tty.column = VGA_WIDTH THEN "wrap" ELSE "idle"
    /\ UNCHANGED <<tty, reg, text, mine, irqs, hit>>

Wrap ==
    /\ pc = "wrap" /\ pc' = "load_row"
    /\ tty' = [tty EXCEPT !.column = 0]
    /\ UNCHANGED <<reg, text, mine, irqs, hit>>

LoadRow ==
    /\ pc = "load_row" /\ pc' = "store_row"
    /\ reg' = tty.row + 1
    /\ UNCHANGED <<tty, text, mine, irqs, hit>>

StoreRow ==
    /\ pc = "store_row" /\ pc' = "compare_row"
    /\ tty' = [tty EXCEPT !.row = reg]
    /\ UNCHANGED <<reg, text, mine, irqs, hit>>

AfterRow == IF text[mine] = "nl" THEN "reset_column" ELSE "idle"

(* reg is the index of terminal_scroll now.                                *)
CompareRow ==
    /\ pc = "compare_row"
    /\ pc' = IF tty.row = VGA_HEIGHT THEN "scroll" ELSE AfterRow
    /\ reg' = FirstCell
    /\ UNCHANGED <<tty, text, mine, irqs, hit>>

Scroll ==
    /\ pc = "scroll"
    /\ tty' = ScrollCell(tty, reg)
    /\ pc' = IF reg = LastCell THEN "reset_row" ELSE "scroll"
    /\ reg' = reg + 1
    /\ UNCHANGED <<text, mine, irqs, hit>>

(* mutant: the row is left for the next call to correct                    *)
LeaveRow ==
    /\ pc = "reset_row"
    /\ pc' = AfterRow
    /\ UNCHANGED <<tty, reg, text, mine, irqs, hit>>
ResetRow ==
    /\ pc = "reset_row"
    /\ tty' = [tty EXCEPT !.row = VGA_HEIGHT - 1]
    /\ pc' = AfterRow
    /\ UNCHANGED <<reg, text, mine, irqs, hit>>

ResetColumn ==
    /\ pc = "reset_column" /\ pc' = "idle"
    /\ tty' = [tty EXCEPT !.column = 0]
    /\ UNCHANGED <<reg, text, mine, irqs, hit>>

(* An interrupt whose handler prints a message                             *)
irq_handler(n) ==
    LET message == [k \in 1 .. n + 1 |-> IF k <= n THEN "irq" ELSE "nl"]
    IN  /\ irqs < MaxIrqs
        /\ tty' = terminal_writestring(tty, message, Len(text) + 1)
        /\ text' = text \o message
        /\ irqs' = irqs + 1
        /\ hit' = IF pc = "compare_row" /\ tty.row = VGA_HEIGHT THEN "lost"
                  ELSE IF pc # "idle" /\ hit = "never" THEN "healed" ELSE hit
        /\ UNCHANGED <<pc, reg, mine>>

Next ==
    \/ \E ch \in {"own", "nl"} : Putchar(ch)
    \/ Index \/ WriteCell \/ LoadColumn \/ StoreColumn \/ CompareColumn \/ Wrap
    \/ LoadRow \/ StoreRow \/ CompareRow \/ Scroll \/ ResetRow \/ ResetColumn
    \/ \E n \in Messages : irq_handler(n)

Spec == Init /\ [][Next]_vars
-----------------------------------------------------------------------------
(* There is one place where a handler that prints does lasting harm: after *)
(* the store of terminal_row = VGA_HEIGHT and before it is read again to   *)
(* be compared (tty.c:84 and 94).  The handler takes the row past          *)
(* VGA_HEIGHT, no comparison meets it again, and the cursor stays off the  *)
(* screen.  Printing at any other place, of a scroll too, is healed by the *)
(* end of the call.                                                        *)
CursorHeals ==
    pc = "idle" => (tty.row \in Rows /\ tty.column \in Columns <=> hit # "lost")

(* A handler that prints while a scroll is going on writes below the       *)
(* screen, two rows further for each interrupt; never more unless the      *)
(* cursor was lost, so the rest of the 32 KiB of VGA memory is enough.     *)
OvershootBounded == hit # "lost" => tty.top < VGA_HEIGHT + 2 * irqs

(* An endless sheet: where the cursor stands after k characters            *)
Sheet(chars) ==
    LET after[k \in 0 .. Len(chars)] ==
            IF k = 0 THEN [row |-> 0, column |-> 0]
            ELSE IF chars[k] = "nl" \/ after[k - 1].column + 1 = VGA_WIDTH
                 THEN [row |-> after[k - 1].row + 1, column |-> 0]
                 ELSE [after[k - 1] EXCEPT !.column = @ + 1]
    IN  after

(* tty.h:9-10: as long as no handler printed in the middle of a call, the  *)
(* screen shows the end of that sheet, wrapped and scrolled, and nothing   *)
(* else.                                                                   *)
ShowsTail ==
    pc = "idle" /\ hit = "never" =>
        LET at == Sheet(text)
            first == Max({0, at[Len(text)].row - (VGA_HEIGHT - 1)})
        IN  \A y \in Rows, x \in Columns :
                LET here == {k \in DOMAIN text : /\ text[k] # "nl"
                                                /\ at[k - 1] = [row |-> first + y, column |-> x]}
                IN  tty.buffer[y][x] = IF here = {} THEN 0 ELSE Max(here)
=============================================================================
