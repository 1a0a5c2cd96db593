------------------------------- MODULE Printf -------------------------------
(***************************************************************************)
(* The conversions of vprintf in video/kprintf.c.  A conversion is a       *)
(* record of what its directive says (flags, width, precision, length and  *)
(* specifier) and of the argument it takes; its output is the sequence of  *)
(* characters given to put_char.  A width or precision of `*` is the       *)
(* number it stands for.  The count that vprintf returns and %n stores,    *)
(* which no caller reads, is left out.                                     *)
(***************************************************************************)
EXTENDS Integers, Sequences

CONSTANTS
    IntMod,     \* 2^32: values of an unsigned int
    ShortMod,   \* 2^16
    CharMod     \* 2^8

ASSUME PrintfAssumption ==
    /\ {IntMod, ShortMod, CharMod} \subseteq Nat \ {0}
    /\ IntMod % 2 = 0
    /\ ShortMod <= IntMod /\ CharMod <= IntMod

Lower == <<"0", "1", "2", "3", "4", "5", "6", "7",
           "8", "9", "a", "b", "c", "d", "e", "f">>

Upper == <<"0", "1", "2", "3", "4", "5", "6", "7",
           "8", "9", "A", "B", "C", "D", "E", "F">>

\* What pads a field to its width.
Blank == " "

Numbers == {"d", "i", "u", "x", "X", "o", "p"}

Larger(a, b) == IF a > b THEN a ELSE b

Smaller(a, b) == IF a > b THEN b ELSE a

Repeat(c, n) == [i \in 1..Larger(n, 0) |-> c]

\* The flags as they are after the precision has been read: a precision
\* switches zero padding off.
Flags(d) ==
    LET read == IF "PRECISION" \in d.flags THEN d.flags \ {"ZEROPAD"}
                                           ELSE d.flags
    IN  read \cup (IF d.spec \in {"d", "i"} THEN {"SIGNED"} ELSE {})
             \cup (IF d.spec = "X" THEN {"UPPERCASE"} ELSE {})

Precision(d) == IF "PRECISION" \in d.flags THEN d.precision ELSE 1

Base(d) ==
    CASE d.spec \in {"d", "i", "u"} -> 10
      [] d.spec = "o" -> 8
      [] OTHER -> 16

\* get_argument: hh and h are cast to unsigned types, signed or not; for a
\* pointer the length is not looked at.
GetArgument(d) ==
    IF d.spec = "p" THEN d.arg % IntMod
    ELSE CASE d.length = "hh" -> d.arg % CharMod
           [] d.length = "h" -> d.arg % ShortMod
           [] OTHER -> d.arg % IntMod

Negative(number, flags) == "SIGNED" \in flags /\ number >= IntMod \div 2

\* SPACE is looked at after PLUS, and '-' wins over both.
Sign(number, base, flags) ==
    IF base # 10 THEN <<>>
    ELSE IF Negative(number, flags) THEN <<"-">>
    ELSE IF "SPACE" \in flags THEN <<Blank>>
    ELSE IF "PLUS" \in flags THEN <<"+">>
    ELSE <<>>

Prefix(number, base, flags) ==
    IF "HASH" \notin flags \/ number = 0 \/ base = 10 THEN <<>>
    ELSE IF base = 8 THEN <<"0">>
    ELSE IF "UPPERCASE" \in flags THEN <<"0", "X">>
    ELSE <<"0", "x">>

Magnitude(number, base, flags) ==
    IF base = 10 /\ Negative(number, flags) THEN IntMod - number ELSE number

\* The digits in buf, last one first there; none for zero.
Digits(n, base, flags) ==
    LET rest[k \in 0..n] == IF k = 0 THEN n ELSE rest[k - 1] \div base
        count == CHOOSE k \in 0..n : rest[k] = 0 /\ \A j \in 0..(k - 1) : rest[j] # 0
        names == IF "UPPERCASE" \in flags THEN Upper ELSE Lower
    IN  [i \in 1..count |-> names[(rest[count - i] % base) + 1]]

\* Mutant: the prefix is not taken off the width.
MutFormatNumber(number, base, width, precision, flags) ==
    LET sign == Sign(number, base, flags)
        prefix == Prefix(number, base, flags)
        digits == Digits(Magnitude(number, base, flags), base, flags)
        pad == width - Len(sign) - Larger(precision, Len(digits))
        left == "LEFT" \in flags
        zeropad == "ZEROPAD" \in flags
    IN  Repeat(Blank, IF left \/ zeropad THEN 0 ELSE pad)
        \o sign \o prefix
        \o Repeat("0", IF zeropad /\ ~left THEN pad ELSE 0)
        \o Repeat("0", precision - Len(digits))
        \o digits
        \o Repeat(Blank, IF left THEN pad ELSE 0)

\* Zero has no digits of its own: the default precision of 1 prints its '0'.
FormatNumber(number, base, width, precision, flags) ==
    LET sign == Sign(number, base, flags)
        prefix == Prefix(number, base, flags)
        digits == Digits(Magnitude(number, base, flags), base, flags)
        pad == width - Len(sign) - Len(prefix) - Larger(precision, Len(digits))
        left == "LEFT" \in flags
        zeropad == "ZEROPAD" \in flags
    IN  Repeat(Blank, IF left \/ zeropad THEN 0 ELSE pad)
        \o sign \o prefix
        \o Repeat("0", IF zeropad /\ ~left THEN pad ELSE 0)
        \o Repeat("0", precision - Len(digits))
        \o digits
        \o Repeat(Blank, IF left THEN pad ELSE 0)

\* A negative precision is only ever counted down from: the whole string is
\* printed, and the width grows by as much.
FormatString(s, width, precision, flags) ==
    LET shown == IF "PRECISION" \in flags THEN Smaller(precision, Len(s)) ELSE Len(s)
        pad == width - shown
        left == "LEFT" \in flags
    IN  Repeat(Blank, IF left THEN 0 ELSE pad)
        \o (IF shown < 0 THEN s ELSE SubSeq(s, 1, shown))
        \o Repeat(Blank, IF left THEN pad ELSE 0)

FormatChar(c, width, flags) ==
    LET left == "LEFT" \in flags
    IN  Repeat(Blank, IF left THEN 0 ELSE width - 1)
        \o <<c>>
        \o Repeat(Blank, IF left THEN width - 1 ELSE 0)

\* What one directive prints.  The lengths j, z and t are not skipped, so the
\* letter itself is taken for an unknown specifier, which prints nothing and
\* takes no argument; the specifier behind it is then an ordinary character.
Output(d) ==
    IF d.length \in {"j", "z", "t"} THEN <<d.spec>>
    ELSE CASE d.spec \in Numbers ->
                 FormatNumber(GetArgument(d), Base(d), d.width, Precision(d), Flags(d))
           [] d.spec = "s" -> FormatString(d.arg, d.width, Precision(d), Flags(d))
           [] d.spec = "c" -> FormatChar(d.arg, d.width, Flags(d))
           [] d.spec = "%" -> <<"%">>
           [] OTHER -> <<>>

-----------------------------------------------------------------------------
(* What C's printf prints for a directive, without a look at the code *)

\* The number of values of the type that a length names.
TypeMod(d) ==
    IF d.spec = "p" THEN IntMod
    ELSE CASE d.length = "hh" -> CharMod
           [] d.length = "h" -> ShortMod
           [] d.length = "ll" -> IntMod * IntMod
           [] OTHER -> IntMod

SignedSpec(d) == d.spec \in {"d", "i"}

\* The number to print: the argument as a value of that type.
Meant(d) ==
    LET n == d.arg % TypeMod(d)
    IN  IF SignedSpec(d) /\ 2 * n >= TypeMod(d) THEN n - TypeMod(d) ELSE n

\* '+' wins over ' ', and both are for signed conversions only.
MeantSign(d) ==
    IF ~SignedSpec(d) THEN <<>>
    ELSE IF Meant(d) < 0 THEN <<"-">>
    ELSE IF "PLUS" \in d.flags THEN <<"+">>
    ELSE IF "SPACE" \in d.flags THEN <<Blank>>
    ELSE <<>>

\* '#' puts 0x or 0X in front of a number other than zero.  An address is
\* printed like the number x prints.
MeantPrefix(d) ==
    IF "HASH" \notin d.flags \/ Meant(d) = 0 \/ d.spec \notin {"x", "X", "p"} THEN <<>>
    ELSE IF d.spec = "X" THEN <<"0", "X">>
    ELSE <<"0", "x">>

\* '#' with o prints one more zero if the number would not begin with one.
Octal(d) == "HASH" \in d.flags /\ d.spec = "o"

\* '0' is ignored beside '-' and beside a precision.
ZeroPadded(d) == "ZEROPAD" \in d.flags /\ d.flags \cap {"LEFT", "PRECISION"} = {}

IsDigits(s, base, flags) ==
    LET names == IF "UPPERCASE" \in flags THEN Upper ELSE Lower
    IN  \A i \in 1..Len(s) : \E v \in 1..base : s[i] = names[v]

\* The number a string of digits stands for.
Value(s, base) ==
    LET digit(c) == (CHOOSE v \in 1..16 : Lower[v] = c \/ Upper[v] = c) - 1
        value[k \in 0..Len(s)] ==
            IF k = 0 THEN 0 ELSE base * value[k - 1] + digit(s[k])
    IN  value[Len(s)]

\* s is `before` blanks, a body, and `after` blanks, on the side LEFT allows;
\* there are blanks only to fill the width.
Blanks(s, before, after, d) ==
    /\ before + after <= Len(s)
    /\ \A i \in 1..before : s[i] = Blank
    /\ \A i \in (Len(s) - after + 1)..Len(s) : s[i] = Blank
    /\ "LEFT" \in d.flags => before = 0
    /\ "LEFT" \notin d.flags => after = 0
    /\ Len(s) >= d.width
    /\ before + after > 0 => Len(s) = d.width

Body(s, before, after) == SubSeq(s, before + 1, Len(s) - after)

\* There are as many digits as the precision asks for, and more only if the
\* number has more, if zeros fill the width, or for the zero of '#' with o.
DigitsWanted(digits, d, filled) ==
    /\ Len(digits) >= Precision(d)
    /\ Octal(d) => Len(digits) > 0 /\ digits[1] = "0"
    /\ \/ Len(digits) <= Precision(d)
       \/ digits[1] # "0"
       \/ Octal(d) /\ (Len(digits) = 1 \/ digits[2] # "0")
       \/ ZeroPadded(d) /\ filled

\* A number: sign, prefix and digits that read as its value.
NumberField(s, d) ==
    LET front == MeantSign(d) \o MeantPrefix(d)
    IN  \E before, after \in 0..Len(s) :
           LET body == Body(s, before, after)
               digits == SubSeq(body, Len(front) + 1, Len(body))
           IN  /\ Blanks(s, before, after, d)
               /\ ZeroPadded(d) => before = 0
               /\ Len(body) >= Len(front)
               /\ SubSeq(body, 1, Len(front)) = front
               /\ IsDigits(digits, Base(d), IF d.spec = "X" THEN {"UPPERCASE"} ELSE {})
               /\ Value(digits, Base(d)) = IF Meant(d) < 0 THEN -Meant(d) ELSE Meant(d)
               /\ DigitsWanted(digits, d, Len(s) = d.width)

StringField(s, d) ==
    \E before, after \in 0..Len(s) :
        LET body == Body(s, before, after)
        IN  /\ Blanks(s, before, after, d)
            /\ Len(body) <= Len(d.arg)
            /\ body = SubSeq(d.arg, 1, Len(body))
            /\ "PRECISION" \in d.flags => Len(body) <= d.precision
            /\ \/ Len(body) = Len(d.arg)
               \/ "PRECISION" \in d.flags /\ Len(body) = d.precision

CharField(s, d) ==
    \E before, after \in 0..Len(s) :
        /\ Blanks(s, before, after, d)
        /\ Body(s, before, after) = <<d.arg>>

\* s is what C's printf prints for d.
RightField(s, d) ==
    /\ d.spec \in Numbers => NumberField(s, d)
    /\ d.spec = "s" => StringField(s, d)
    /\ d.spec = "c" => CharField(s, d)

\* Where vprintf is known not to print that: the lengths j, z and t, which it
\* does not skip, and l of c and s; a negative `*`; ' ' over '+', and either of
\* them for u; d of hh and h below zero, printed unsigned; a number of ll that an
\* int does not hold, which is cut; and the zero of '#' with o, which it prints
\* beside the precision and not as part of it.
Departs(d) ==
    \/ d.length \in {"j", "z", "t"}
    \/ d.spec \in {"c", "s"} /\ d.length # "none"
    \/ d.width < 0
    \/ "PRECISION" \in d.flags /\ d.precision < 0
    \/ d.spec = "u" /\ d.flags \cap {"PLUS", "SPACE"} # {}
    \/ /\ SignedSpec(d)
       /\ {"PLUS", "SPACE"} \subseteq d.flags
       /\ Meant(d) >= 0
    \/ SignedSpec(d) /\ d.length \in {"hh", "h"} /\ Meant(d) < 0
    \/ /\ d.spec \in Numbers
       /\ d.length = "ll"
       /\ Meant(d) \notin IF SignedSpec(d) THEN (-(IntMod \div 2))..(IntMod \div 2 - 1)
                                           ELSE 0..(IntMod - 1)
    \/ Octal(d) /\ "PRECISION" \in d.flags

=============================================================================
