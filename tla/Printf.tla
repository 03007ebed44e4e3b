------------------------------- MODULE Printf -------------------------------
(***************************************************************************)
(* printf of the kernel (lib.c) with itoa and strrev, as functions from a  *)
(* format string and the words behind it on the stack to the characters it *)
(* puts.  What becomes of a character is the subject of module Console.    *)
(*                                                                         *)
(* Characters are TLA+ strings.                                            *)
(***************************************************************************)
EXTENDS Integers, Sequences

CONSTANTS WordBits,     \* 32 in the code
          Literals,     \* characters of formats that stand for themselves
          Words,        \* bound: argument words tried
          Strings,      \* bound: arguments of %s tried
          MaxItems      \* bound: conversions and literals of a format

ASSUME PrintfAssumption ==
    /\ WordBits \in {n \in Nat : n > 0 /\ n % 4 = 0}
    /\ Words \subseteq 0 .. 2 ^ WordBits - 1
    /\ Literals \cap {"%", "#", "x", "u", "d", "c", "s"} = {}
    /\ Strings \subseteq Seq(Literals \cup {"%"})
    /\ MaxItems \in Nat

VARIABLE printed     \* the last call: the items of the format, and the output

HexDigits == WordBits \div 4       \* the width of %#x: 8 in the code

----------------------------------------------------------------------------
lookup == <<"0", "1", "2", "3", "4", "5", "6", "7",
            "8", "9", "A", "B", "C", "D", "E", "F">>

strrev(s) == [i \in 1 .. Len(s) |-> s[(Len(s) + 1) - i]]

\* The digits of a value from the lowest to the highest, none for zero.
Digits(value, radix) ==
    LET low[n \in 0 .. value] == IF n = 0 THEN << >>
                                 ELSE <<lookup[1 + (n % radix)]>> \o low[n \div radix]
    IN low[value]

\* Mutant: zero has no digits.
itoa_no_zero(value, radix) == strrev(Digits(value, radix))

itoa(value, radix) == IF value = 0 THEN <<"0">> ELSE strrev(Digits(value, radix))

\* A word as int32_t, and the word -value is.
Signed(w)  == IF w >= 2 ^ (WordBits - 1) THEN w - 2 ^ WordBits ELSE w
Negated(w) == (2 ^ WordBits - w) % 2 ^ WordBits

Padded(digits) == [i \in 1 .. HexDigits - Len(digits) |-> "0"] \o digits

\* What the conversion c of an argument puts; alternate is set by a '#'.
Converted(c, alternate, w) ==
    IF c = "x" THEN IF alternate THEN Padded(itoa(w, 16)) ELSE itoa(w, 16)
    ELSE IF c = "u" THEN itoa(w, 10)
    ELSE IF c = "d" THEN IF Signed(w) < 0 THEN <<"-">> \o itoa(Negated(w), 10)
                         ELSE itoa(w, 10)
    ELSE IF c = "c" THEN <<w>>
    ELSE w

\* The place of the conversion behind the '%' at i, past any '#'; the end of a
\* format without one.
ConversionAt(format, i) ==
    CHOOSE j \in i + 1 .. Len(format) + 1 :
        /\ j <= Len(format) => format[j] # "#"
        /\ \A h \in i + 1 .. j - 1 : format[h] = "#"

\* The loop over the format; at index i of the format, k words are used.  What
\* it does behind a format that ends in '%' is not modelled.
printf(format, words) ==
    LET put[i \in 1 .. Len(format) + 1] ==
            [k \in Nat |->
                LET j == ConversionAt(format, i)
                IN IF i > Len(format) THEN << >>
                   ELSE IF format[i] # "%" THEN <<format[i]>> \o put[i + 1][k]
                   ELSE IF j > Len(format) THEN << >>
                   ELSE IF format[j] = "%" THEN <<"%">> \o put[j + 1][k]
                   ELSE IF format[j] \in {"x", "u", "d", "c", "s"}
                   THEN Converted(format[j], format[i + 1] = "#", words[k + 1])
                            \o put[j + 1][k + 1]
                   ELSE put[j + 1][k]]
    IN put[1][0]

----------------------------------------------------------------------------
\* The caller: a format is written down from items, which take a word each or
\* none.

Numeric == {"x", "#x", "u", "d"}
Taking  == Numeric \cup {"c", "s"}
Items   == (Numeric \X Words) \cup ({"s"} \X Strings)
           \cup {<<"%", 0>>} \cup ({"c", "literal"} \X Literals)

Spelled(item) == IF item[1] = "literal" THEN <<item[2]>>
                 ELSE IF item[1] = "#x" THEN <<"%", "#", "x">>
                 ELSE <<"%", item[1]>>

Format(items) ==
    LET upto[j \in 0 .. Len(items)] == IF j = 0 THEN << >>
                                       ELSE upto[j - 1] \o Spelled(items[j])
    IN upto[Len(items)]
Arguments(items) ==
    LET upto[j \in 0 .. Len(items)] == IF j = 0 THEN << >>
                                       ELSE IF items[j][1] \in Taking
                                       THEN Append(upto[j - 1], items[j][2])
                                       ELSE upto[j - 1]
    IN upto[Len(items)]

PrintfIdle == [items |-> << >>, out |-> << >>]
PrintfInit == printed = PrintfIdle

CallPrintf(item) ==
    LET items == Append(printed.items, item)
    IN /\ Len(printed.items) < MaxItems
       /\ printed' = [items |-> items, out |-> printf(Format(items), Arguments(items))]

NewFormat == Len(printed.items) = MaxItems /\ printed' = PrintfIdle

PrintfNext == NewFormat \/ \E item \in Items : CallPrintf(item)

PrintfSpec == PrintfInit /\ [][PrintfNext]_printed

----------------------------------------------------------------------------
Digit(c) == (CHOOSE i \in 1 .. 16 : lookup[i] = c) - 1

\* A numeral as a reader takes it: its value, and no needless zeros.
Value(digits, radix) ==
    LET v[i \in 0 .. Len(digits)] == IF i = 0 THEN 0
                                     ELSE v[i - 1] * radix + Digit(digits[i])
    IN v[Len(digits)]
IsDigits(s, radix) == s # << >> /\ \A i \in DOMAIN s : \E d \in 1 .. radix : s[i] = lookup[d]
Plain(s) == Len(s) = 1 \/ s[1] # "0"

Reads(item, s) ==
    LET w == item[2]
    IN IF item[1] \in {"literal", "c"} THEN s = <<w>>
       ELSE IF item[1] = "%" THEN s = <<"%">>
       ELSE IF item[1] = "s" THEN s = w
       ELSE IF item[1] = "#x"
       THEN IsDigits(s, 16) /\ Len(s) = HexDigits /\ Value(s, 16) = w
       ELSE IF item[1] = "d" /\ Signed(w) < 0
       THEN /\ s # << >> /\ s[1] = "-" /\ IsDigits(Tail(s), 10)
            /\ Plain(Tail(s)) /\ Value(Tail(s), 10) = -Signed(w)
       ELSE IF item[1] = "x"
       THEN IsDigits(s, 16) /\ Plain(s) /\ Len(s) <= HexDigits /\ Value(s, 16) = w
       ELSE IsDigits(s, 10) /\ Plain(s) /\ Value(s, 10) = w

\* What printf puts can be cut into one piece per item of its format, each the
\* number, character or string the item's own argument is, at every boundary
\* of the word.
PrintfShowsArguments ==
    LET n == Len(printed.items)
        \* where the pieces of the first i items may end
        cuts[i \in 0 .. n] ==
            IF i = 0 THEN {0}
            ELSE {p \in 0 .. Len(printed.out) : \E q \in cuts[i - 1] :
                     q <= p /\ Reads(printed.items[i], SubSeq(printed.out, q + 1, p))}
    IN Len(printed.out) \in cuts[n]
============================================================================
