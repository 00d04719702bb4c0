------------------------------- MODULE Printf -------------------------------
(***************************************************************************)
(* libc/stdio/printf.c: the number conversions itoa ... ulltoa, and the    *)
(* loops of vprintf and vsnprintf over a format.                           *)
(*                                                                         *)
(* A character is a string of length one, a text or a format a sequence of *)
(* them; "EOF" stands for the byte 0xFF, which as a char is -1, and "NUL"  *)
(* for the end of a format.  An iteration of a loop is one action, and the *)
(* argument that va_arg yields is any value of its type.                   *)
(***************************************************************************)
EXTENDS Integers, SequencesExt

CONSTANTS
    IntBits,        \* width of int, unsigned and long
    LongLongBits,   \* width of long long
    Formats,        \* formats that are passed
    Sizes,          \* buffer sizes that are passed to vsnprintf
    Strings,        \* arguments of %s
    Bases           \* bases that are passed to itoa and its siblings

(* The types of C                                                          *)
Pow2[n \in Nat] == IF n = 0 THEN 1 ELSE 2 * Pow2[n - 1]
IntMax == Pow2[IntBits - 1] - 1
Signed(bits) == -Pow2[bits - 1] .. Pow2[bits - 1] - 1
Unsigned(i, bits) == i % Pow2[bits]

ASSUME PrintfAssumption ==
    /\ IntBits \in Nat /\ IntBits > 1 /\ LongLongBits \in Nat /\ LongLongBits > 1
    /\ Sizes \subseteq 0 .. Pow2[IntBits] - 1 /\ Bases \subseteq Int
    /\ \A t \in Formats \cup Strings : t \in Seq(ToSet(t))

VARIABLES
    call,       \* the call: function, format, size of the buffer; base
    pos,        \* format: index of the character it points at
    out,        \* what putchar was given, or what s holds
    pc,         \* "running", "returned", or "astray" once format points
                \* beyond the NUL
    ret,        \* the value returned
    last,       \* history: the last conversion of a number
    whole       \* history: out, had no buffer been too small

vars == <<call, pos, out, pc, ret, last, whole>>
-----------------------------------------------------------------------------
(* Division in C                                                           *)
Quot(i, base) == IF i < 0 THEN -((-i) \div base) ELSE i \div base
Rem(i, base) == i - base * Quot(i, base)
Abs(i) == IF i < 0 THEN -i ELSE i

Digits == <<"0","1","2","3","4","5","6","7","8","9","a","b","c","d","e","f","g","h",
            "i","j","k","l","m","n","o","p","q","r","s","t","u","v","w","x","y","z">>
(* The string chars mirrors the digits around its middle.                  *)
chars(r) == Digits[Abs(r) + 1]

(* The do loop: least significant digit first                              *)
Generate(base) ==
    LET g[i \in Int] == <<chars(Rem(i, base))>> \o
                        (IF Quot(i, base) = 0 THEN <<>> ELSE g[Quot(i, base)])
    IN  g

(* mutant: no digit for zero                                               *)
ZeroIsEmpty(i, base) == IF i = 0 THEN <<>> ELSE Reverse(Generate(base)[i])
(* The swap loop starts at str: it reverses the sign with the digits.      *)
itoa(i, base) ==
    IF base < 2 \/ base > 36 THEN <<>>
    ELSE Reverse((IF i < 0 /\ base = 10 THEN <<"-">> ELSE <<>>) \o Generate(base)[i])
utoa(i, base) ==
    IF base < 2 \/ base > 36 THEN <<>> ELSE Reverse(Generate(base)[i])
ltoa(i, base) == itoa(i, base)
ultoa(i, base) == utoa(i, base)
lltoa(i, base) == itoa(i, base)
ulltoa(i, base) == utoa(i, base)
-----------------------------------------------------------------------------
None == [value |-> 0, base |-> 0, bits |-> 0, text |-> <<>>]
Calls ==
    [fn : {"vprintf"}, fmt : Formats, n : {0}, base : {0}]
      \cup [fn : {"vsnprintf"}, fmt : Formats, n : Sizes, base : {0}]
      \cup [fn : {"toa"}, fmt : {<<>>}, n : {0}, base : Bases]

Init ==
    /\ call \in Calls
    /\ pos = 1 /\ out = <<>> /\ whole = <<>>
    /\ pc = "running" /\ ret = 0 /\ last = None

Char(k) == IF k <= Len(call.fmt) THEN call.fmt[k] ELSE "NUL"

remaining == IntMax - Len(out)

Fail == pc' = "returned" /\ ret' = -1
GoOn == UNCHANGED <<pc, ret>>

(* (int) n - 1, where the loops of vsnprintf over a text stop: it is less  *)
(* than 0 for n = 0 and for n > INT_MAX.  One less than the least int is   *)
(* undefined: it wraps, or compares as the true difference would.          *)
AsInt(n) == IF n > IntMax THEN n - Pow2[IntBits] ELSE n
Limits == {AsInt(call.n) - 1} \cup (IF call.n = IntMax + 1 THEN {IntMax} ELSE {})

(* mutant: one more than fits                                              *)
RoomForNul(t, limit) == Min({Len(t), Max({0, limit + 1 - Len(out)})})
Room(t, limit) == Min({Len(t), Max({0, limit - Len(out)})})

(* mutant: the loop of vprintf leaves out the last character               *)
PutShort(t) ==
    /\ \E limit \in Limits :
         out' = out \o SubSeq(t, 1, IF call.fn = "vprintf" THEN Len(t) - 1 ELSE Room(t, limit))
    /\ GoOn
(* A text: all of it or, in vsnprintf, what fits.  putchar gives back the  *)
(* character, and vprintf takes 0xFF for a failure.                        *)
PutText(t) ==
    LET eof == SelectInSeq(t, LAMBDA c : c = "EOF")
    IN  \/ remaining < Len(t) /\ Fail /\ UNCHANGED out
        \/ /\ remaining >= Len(t) /\ call.fn = "vsnprintf"
           /\ \E limit \in Limits : out' = out \o SubSeq(t, 1, Room(t, limit))
           /\ GoOn
        \/ /\ remaining >= Len(t) /\ call.fn = "vprintf" /\ eof > 0
           /\ out' = out \o SubSeq(t, 1, eof) /\ Fail
        \/ /\ remaining >= Len(t) /\ call.fn = "vprintf" /\ eof = 0
           /\ out' = out \o t /\ GoOn

(* One character, with no test for the size of a buffer                    *)
PutChar(c) ==
    \/ remaining = 0 /\ Fail /\ UNCHANGED out
    \/ remaining > 0 /\ out' = Append(out, c) /\ GoOn

(* The loop condition.  In vsnprintf n - 1 is unsigned: 0 - 1 is no bound. *)
Loops ==
    /\ Char(pos) # "NUL"
    /\ call.fn = "vsnprintf" => call.n = 0 \/ Len(out) < call.n - 1

Iterates == call.fn # "toa" /\ pc = "running" /\ Loops

Literal ==
    /\ Iterates /\ Char(pos) # "%"
    /\ PutChar(Char(pos))
    /\ whole' = Append(whole, Char(pos))
    /\ pos' = pos + 1
    /\ UNCHANGED <<call, last>>

(* The format has a conversion at pos, with one of these letters.          *)
At(letters) == Iterates /\ Char(pos) = "%" /\ Char(pos + 1) \in letters

(* mutants: the NUL is taken for an unknown conversion; the case breaks    *)
Dangles ==
    /\ At({"NUL"})
    /\ PutChar("%")
    /\ pos' = pos + 2
    /\ UNCHANGED <<call, last, whole>>
BreaksAtNul == At({"NUL"}) /\ UNCHANGED vars
EndsInPercent ==
    /\ At({"NUL"})
    /\ Fail
    /\ UNCHANGED <<call, pos, out, last, whole>>

Known == IF call.fn = "vprintf" THEN {"l", "c", "s", "d", "u", "i", "x", "NUL"}
                                ELSE {"c", "s", "d", "i", "x", "NUL"}

(* %% and every conversion that is not known print a percent sign.         *)
Percent ==
    /\ At({Char(pos + 1)} \ Known)
    /\ PutChar("%")
    /\ whole' = Append(whole, "%")
    /\ pos' = pos + 2
    /\ UNCHANGED <<call, last>>

Character ==
    /\ At({"c"})
    /\ \E c \in {"a", "EOF"} : PutChar(c) /\ whole' = Append(whole, c)
    /\ pos' = pos + 2
    /\ UNCHANGED <<call, last>>

StringText ==
    /\ At({"s"})
    /\ \E t \in Strings : PutText(t) /\ whole' = whole \o t
    /\ pos' = pos + 2
    /\ UNCHANGED <<call, last>>

Converted(value, base, bits, text) ==
    [value |-> value, base |-> base, bits |-> bits, text |-> text]

Number(c, width) ==
    /\ last' = c
    /\ PutText(c.text)
    /\ whole' = whole \o c.text
    /\ pos' = pos + width
    /\ UNCHANGED call

Decimal ==
    /\ At(IF call.fn = "vprintf" THEN {"d"} ELSE {"d", "i"})
    /\ \E i \in Signed(IntBits) : Number(Converted(i, 10, IntBits, itoa(i, 10)), 2)

UnsignedDecimal ==
    /\ call.fn = "vprintf" /\ At({"u", "i"})
    /\ \E i \in Signed(IntBits) :
        LET u == Unsigned(i, IntBits)
        IN  Number(Converted(u, 10, IntBits, utoa(u, 10)), 2)

Hexadecimal ==
    /\ At({"x"})
    /\ \E i \in Signed(IntBits) :
        LET u == Unsigned(i, IntBits)
        IN  Number(Converted(u, 16, IntBits, utoa(u, 16)), 2)

(* After %l one character is skipped, whatever it is, and so is the one    *)
(* that decides the conversion, be it the NUL.                             *)
LongLong ==
    /\ call.fn = "vprintf" /\ At({"l"}) /\ pos + 2 <= Len(call.fmt)
    /\ \E i \in Signed(LongLongBits) :
        LET u == Unsigned(i, LongLongBits)
            c == CASE Char(pos + 3) \in {"u", "i"} ->
                        Converted(u, 10, LongLongBits, ulltoa(u, 10))
                   [] Char(pos + 3) = "x" ->
                        Converted(u, 16, LongLongBits, ulltoa(u, 16))
                   [] OTHER -> Converted(i, 10, LongLongBits, lltoa(i, 10))
        IN  Number(c, 4)

(* format points beyond the NUL: what the loop does next depends on what   *)
(* lies there.                                                             *)
Beyond == pos > Len(call.fmt) + 1
GoesAstray ==
    /\ pc = "running" /\ call.fn # "toa"
    /\ Beyond \/ (call.fn = "vprintf" /\ At({"l"}) /\ pos + 2 > Len(call.fmt))
    /\ pc' = "astray"
    /\ UNCHANGED <<call, pos, out, ret, last, whole>>

Return ==
    /\ pc = "running" /\ call.fn # "toa" /\ ~ Loops /\ ~ Beyond
    /\ pc' = "returned" /\ ret' = Len(out)
    /\ UNCHANGED <<call, pos, out, last, whole>>

(* A direct call of one of the conversions                                 *)
Toa ==
    /\ call.fn = "toa" /\ pc = "running"
    /\ \E bits \in {IntBits, LongLongBits} : \E i \in Signed(bits) :
        \/ last' = Converted(i, call.base, bits, ltoa(i, call.base))
        \/ LET u == Unsigned(i, bits)
           IN  last' = Converted(u, call.base, bits, ultoa(u, call.base))
    /\ pc' = "returned"
    /\ UNCHANGED <<call, pos, out, ret, whole>>

Next ==
    \/ Literal \/ EndsInPercent \/ Percent \/ Character \/ StringText
    \/ Decimal \/ UnsignedDecimal \/ Hexadecimal \/ LongLong
    \/ GoesAstray \/ Return \/ Toa

(* The processor goes on executing the loop.                               *)
Spec == Init /\ [][Next]_vars /\ WF_vars(Next)
-----------------------------------------------------------------------------
DigitValue(c) == CHOOSE d \in 0 .. 35 : Digits[d + 1] = c
(* The value of a numeral, by Horner's rule                                *)
Value(t, base) ==
    LET value[k \in 0 .. Len(t)] ==
            IF k = 0 THEN 0 ELSE base * value[k - 1] + DigitValue(t[k])
    IN  value[Len(t)]
(* t is the numeral of v >= 0: no digit too many, and it has v's value.    *)
Denotes(t, base, v) ==
    /\ t # <<>> /\ "-" \notin ToSet(t)
    /\ Len(t) > 1 => t[1] # "0"
    /\ \A k \in DOMAIN t : DigitValue(t[k]) < base
    /\ Value(t, base) = v

(* What stdio.h:10-22 says of the conversions: the text is the numeral of  *)
(* the argument, with a sign before it if the argument is negative.        *)
NumeralRight ==
    last.base \in 2 .. 36 =>
        IF last.value >= 0 THEN Denotes(last.text, last.base, last.value)
        ELSE last.text # <<>> /\ Head(last.text) = "-"
               /\ Denotes(Tail(last.text), last.base, -last.value)

(* What they do: an argument that is not negative is converted right in    *)
(* every base; a negative one gets its digits right, the sign behind them  *)
(* in base 10, and no sign in the others.  The least integer is no         *)
(* exception.                                                              *)
DigitsRight ==
    last.base \in 2 .. 36 =>
        CASE last.value >= 0 -> Denotes(last.text, last.base, last.value)
          [] last.value < 0 /\ last.base # 10 -> Denotes(last.text, last.base, -last.value)
          [] OTHER -> Last(last.text) = "-" /\ Denotes(Front(last.text), 10, -last.value)

(* No array is left, at any step: a text and its NUL fit the char str[33]  *)
(* or str[65] of the callers, one more than the bits of the type (in base  *)
(* 2, madt.c:43, none is to spare); vsnprintf stays within a buffer of     *)
(* n > 0 characters, NUL included (stdio.h:27-28); and the count of        *)
(* characters, an int, does not overflow.                                  *)
BuffersKept ==
    /\ Len(last.text) + 1 <= last.bits + 1
    /\ call.fn = "vsnprintf" /\ call.n > 0 => Len(out) + 1 <= call.n
    /\ Len(out) <= IntMax

Succeeded == pc = "returned" /\ ret >= 0
(* As much of the text as a buffer of n characters holds                   *)
Fitting == SubSeq(whole, 1, Min({call.n - 1, Len(whole)}))
(* A call that succeeds has written the whole text, vsnprintf as much of   *)
(* it as fits, and returns the number of characters (stdio.h:24-28).  The  *)
(* exceptions are the sizes that (int) n - 1 makes negative, 0 and those   *)
(* above INT_MAX: texts are then dropped and a count is returned all the   *)
(* same, which is not what stdio.h:26-27 says.                             *)
OutputRight ==
    /\ Succeeded /\ call.fn = "vprintf" => ret = Len(out) /\ out = whole
    /\ Succeeded /\ call.fn = "vsnprintf" /\ call.n \in 1 .. IntMax =>
         ret = Len(out) /\ out = Fitting

(* The format is read beyond its NUL only if it ends within three          *)
(* characters of a %l: no other format leads format past its end.          *)
AstrayOnlyAfterL ==
    pc = "astray" => \E k \in DOMAIN call.fmt :
        k + 3 > Len(call.fmt) /\ call.fmt[k] = "%" /\ k < Len(call.fmt) /\ call.fmt[k + 1] = "l"

(* Every call returns, or is caught reading beyond its format.             *)
Ends == <>(pc # "running")
=============================================================================
