------------------------------ MODULE MCPrintf ------------------------------
(* Every format of up to four characters from an alphabet with one letter
   for each case of the switches, and "z" for a character that is no case;
   longer ones that fill the count of characters *)
EXTENDS Printf

Alphabet == {"%", "l", "d", "u", "x", "c", "s", "z"}
Filling == <<"%", "s", "%", "d">>
SmallFormats ==
    BoundedSeq(Alphabet, 4)
      \cup {<<"%", "i">>, <<"%", "l", "l", "i">>}
      \cup {Filling \o t : t \in {<<"z">>, <<"%", "z">>, <<"%", "c">>}}
AllBases == -1 .. 37
Texts == {<<>>, <<"z">>, <<"z", "EOF", "z">>, [k \in 1 .. 13 |-> "z"]}
=============================================================================
