------------------------------- MODULE UlService -------------------------------
(***************************************************************************)
(* The string and number functions of ulservice.c.  They are pure: a step  *)
(* is one call, with its arguments and its result.                         *)
(*                                                                         *)
(* A character is its code, 0 .. 255.  A string in memory is a sequence    *)
(* that ends with its first 0; what ul_vsnprintf puts out is a sequence    *)
(* without one.  A format is a sequence of records, one for each ordinary  *)
(* character and each conversion: how they are read from the characters of *)
(* fmt is left out.  An int and a long are Width bits wide.                *)
(***************************************************************************)
EXTENDS Integers, Sequences, SequencesExt, FiniteSetsExt

CONSTANTS
  Width,        \* bits of a long
  Strings,      \* strings in memory
  Counts,       \* values of count and n
  BufSizes,     \* sizes given to ul_vsnprintf
  Formats,      \* formats with their arguments
  None

\* The first 0 of a string is its last character.
IsString(s) ==
  s \in Seq(0 .. 255) /\ Len(s) > 0 /\ \A i \in 1 .. Len(s) : s[i] = 0 <=> i = Len(s)

ASSUME StringsAssumption == \A s \in Strings : IsString(s)
ASSUME CountsAssumption == Counts \subseteq Nat
ASSUME BufSizesAssumption ==
  BufSizes \subseteq Nat /\ \E m \in BufSizes : \A n \in BufSizes : n <= m
ASSUME NoneAssumption == None \notin Int
\* 32 on the processors the code is for; 8 is what TLC can go through.
ASSUME WidthAssumption == Width \in {8, 32}

VARIABLE call   \* the last call: its name, arguments and result

Least(a, b) == Min({a, b})
\* The value of an int kept in so many bits, and of those bits as an unsigned one.
Unsigned(n, bits) == n % 2^bits
Signed(n, bits) ==
  Unsigned(n, bits) - (IF Unsigned(n, bits) < 2^(bits - 1) THEN 0 ELSE 2^bits)

-----------------------------------------------------------------------------
ul_strlen(s) ==
  LET at[i \in 1 .. Len(s)] == IF s[i] = 0 THEN i ELSE at[i + 1]
  IN at[1] - 1

\* s1 and s2 from places i and j on; the first difference decides.
ul_memcmp(s1, i, s2, j, count) ==
  LET res[k \in 0 .. count] ==
        IF k = count THEN 0
        ELSE IF s1[i + k] # s2[j + k] THEN s1[i + k] - s2[j + k] ELSE res[k + 1]
  IN res[0]

\* Mutant of Tries: the loop ends one place too early.
Tries_one_less(l1, l2) == l1 - l2

\* The places ul_strstr looks at: while l1, counted down, is at least l2.
Tries(l1, l2) == l1 - l2 + 1

\* The place behind which s2 first stands in s1, or None.
ul_strstr(s1, s2) ==
  LET l1 == ul_strlen(s1)
      l2 == ul_strlen(s2)
      from[i \in Nat] ==
        IF i >= Tries(l1, l2) THEN None
        ELSE IF ul_memcmp(s1, i + 1, s2, 1, l2) = 0 THEN i ELSE from[i + 1]
  IN IF l2 = 0 THEN 0 ELSE from[0]

\* Up to n characters with the NUL, and NULs for the rest of n.
ul_strncpy(dst, src, n) ==
  LET d[i \in 0 .. n] ==
        IF i = 0 THEN << >>
        ELSE Append(d[i - 1], IF i > 1 /\ d[i - 1][i - 1] = 0 THEN 0 ELSE src[i])
  IN d[n] \o SubSeq(dst, n + 1, Len(dst))

\* A plain char is signed or not, as the compiler has it.  The difference is kept
\* in a signed char.
Char(c, signed) == IF signed THEN Signed(c, 8) ELSE c

ul_strncmp(cs, ct, count, signed) ==
  LET diff(k) == Signed(Char(cs[k], signed) - Char(ct[k], signed), 8)
      res[k \in 1 .. count + 1] ==
        IF k > count THEN 0
        ELSE IF diff(k) # 0 \/ cs[k] = 0 THEN diff(k) ELSE res[k + 1]
  IN res[1]

-----------------------------------------------------------------------------
Blank == 32
Repeat(c, n) == [i \in 1 .. n |-> c]
Digit(d, flags) == IF d < 10 THEN 48 + d ELSE IF "LARGE" \in flags THEN 55 + d ELSE 87 + d

\* divide: by ten, or else by sixteen, base 8 included.
DivideBy(base) == IF base = 10 THEN 10 ELSE 16

\* The characters of tmp, last digit first.
Tmp(num, base, flags) ==
  LET b == DivideBy(base)
      tmp[n \in 0 .. 2^Width] ==
        IF n = 0 THEN << >> ELSE <<Digit(n % b, flags)>> \o tmp[n \div b]
  IN IF num = 0 THEN <<Digit(0, flags)>> ELSE tmp[Unsigned(num, Width)]

\* while(size-- > 0) puts out so many characters and leaves size at that.
Times(size) == IF size > 0 THEN size ELSE 0
After(size) == (IF size < 0 THEN size ELSE 0) - 1

\* Mutant of SizeForBlanks: the sign is not counted.
SizeForBlanks_no_sign(size, sign) == size

SizeForBlanks(size, sign) == IF sign # << >> /\ size > 0 THEN size - 1 ELSE size

\* print_number: blanks, sign, zeros or blanks, zeros of the precision, digits,
\* blanks.  precision is None where UL_PRINTF_PRECISION is not defined; the digits
\* themselves are put out under that name only.
print_number(num, base, s, precision, flags0) ==
  LET flags == IF "LEFT" \in flags0 THEN flags0 \ {"ZEROPAD"} ELSE flags0
      c == IF "ZEROPAD" \in flags THEN 48 ELSE Blank
      negative == "SIGN" \in flags /\ num < 0
      sign == IF "SIGN" \notin flags THEN << >>
              ELSE IF negative THEN <<45>>
              ELSE IF "PLUS" \in flags THEN <<43>>
              ELSE IF "SPACE" \in flags THEN <<Blank>> ELSE << >>
      tmp == Tmp(IF negative THEN - num ELSE num, base, flags)
      i == Len(tmp)
      shown == IF precision = None THEN i ELSE Max({i, precision})
      size == SizeForBlanks(s - shown, sign)
      before == flags \cap {"ZEROPAD", "LEFT"} = {}
      size1 == (IF before THEN After(size) ELSE s - shown) - Len(sign)
      size2 == IF "LEFT" \in flags THEN size1 ELSE After(size1)
  IN Repeat(Blank, IF before THEN Times(size) ELSE 0) \o sign
       \o Repeat(c, IF "LEFT" \in flags THEN 0 ELSE Times(size1))
       \o (IF precision = None THEN << >>
           ELSE Repeat(48, shown - i) \o (IF precision = 0 THEN << >> ELSE Reverse(tmp)))
       \o Repeat(Blank, Times(size2))

-----------------------------------------------------------------------------
\* What one conversion puts out.  spec.width is -1 where none is written; one from
\* the arguments may be negative and then stands for LEFT and its amount.
LeftJustified(spec) == "LEFT" \in spec.flags \/ spec.width < -1
FieldWidth(spec) == IF spec.width < -1 THEN - spec.width ELSE spec.width

Around(text, blanks, left) ==
  IF left THEN text \o Repeat(Blank, blanks) ELSE Repeat(Blank, blanks) \o text

CharConversion(spec) ==
  Around(<<spec.arg>>, Times(FieldWidth(spec) - 1), LeftJustified(spec))

\* A field width cuts a string too.  A precision of 0 does not.
StringConversion(spec) ==
  LET s == IF spec.arg = None THEN <<40, 78, 85, 76, 76, 41, 0>> ELSE spec.arg
      inField == IF FieldWidth(spec) < 0 THEN ul_strlen(s)
                 ELSE Least(ul_strlen(s), FieldWidth(spec))
      len == IF spec.precision # None /\ spec.precision > 0
             THEN Least(inField, spec.precision) ELSE inField
  IN Around(SubSeq(s, 1, len), Times(FieldWidth(spec) - len), LeftJustified(spec))

\* A pointer without a width has all its digits.
Pointer(spec) ==
  IF spec.conv = "p" /\ spec.width = -1
  THEN [spec EXCEPT !.width = Width \div 4, !.flags = @ \cup {"ZEROPAD"}] ELSE spec

Base(conv) == CASE conv = "o" -> 8 [] conv \in {"x", "X", "p"} -> 16 [] OTHER -> 10
Flags(spec) ==
  UNION {spec.flags, IF LeftJustified(spec) THEN {"LEFT"} ELSE {},
         IF spec.conv = "X" THEN {"LARGE"} ELSE {}, IF spec.conv = "d" THEN {"SIGN"} ELSE {}}

NumberConversions == {"d", "u", "o", "x", "X", "p"}

\* A pointer has no qualifier.
Bits(spec) == IF spec.qualifier = "h" /\ spec.conv # "p" THEN Width \div 2 ELSE Width

\* The argument through uint16_t and int16_t, or uint32_t and int32_t, to long.
Argument(spec) ==
  LET bits == Bits(spec)
      num == IF spec.conv = "d" THEN Signed(spec.arg, bits) ELSE Unsigned(spec.arg, bits)
  IN Signed(num, Width)

NumberConversion(spec) ==
  print_number(Argument(spec), Base(spec.conv), FieldWidth(spec), spec.precision,
               Flags(spec))

Conversion(spec) ==
  CASE spec.conv = "text" -> <<spec.arg>>
    [] spec.conv = "%" -> <<37>>
    [] spec.conv = "c" -> CharConversion(spec)
    [] spec.conv = "s" -> StringConversion(spec)
    [] spec.conv = "unknown" -> <<37, spec.arg>>
    [] spec.conv \in NumberConversions -> NumberConversion(Pointer(spec))

\* What the caller has to pass: a number or a string where the conversion reads one.
IsSpec(spec) ==
  /\ DOMAIN spec = {"conv", "flags", "width", "precision", "qualifier", "arg"}
  /\ spec.conv \in {"text", "%", "c", "s", "unknown"} \cup NumberConversions
  /\ spec.flags \subseteq {"LEFT", "ZEROPAD", "PLUS", "SPACE"}
  /\ spec.width \in Int /\ (spec.precision = None \/ spec.precision \in Int)
  /\ spec.conv \in NumberConversions => spec.arg \in Int
  /\ spec.conv = "s" => spec.arg = None \/ IsString(spec.arg)

ASSUME FormatsAssumption ==
  \A fmt \in Formats :
    /\ Len(fmt) \in Nat /\ fmt = [i \in 1 .. Len(fmt) |-> fmt[i]]
    /\ \A i \in 1 .. Len(fmt) : IsSpec(fmt[i])

EndOfText(len, size) == IF len < size THEN len + 1 ELSE size

\* ul_vsnprintf: characters are stored as long as str < end, but all are counted.
ul_vsnprintf(buf, size, fmt) ==
  LET out[i \in 0 .. Len(fmt)] ==
        IF i = 0 THEN << >> ELSE out[i - 1] \o Conversion(fmt[i])
      text == out[Len(fmt)]
      stored == [i \in DOMAIN buf |-> IF i <= Least(size, Len(text)) THEN text[i] ELSE buf[i]]
  IN [n |-> Len(text),
      buf |-> IF size > 0 THEN [stored EXCEPT ![EndOfText(Len(text), size)] = 0] ELSE stored]

-----------------------------------------------------------------------------
Buf == Repeat(None, Max(BufSizes) + 1)

Compared == \E s \in Strings, t \in Strings, n \in Counts :
  /\ n <= Least(Len(s), Len(t))
  /\ call' = [fn |-> "memcmp", s |-> s, t |-> t, n |-> n, res |-> ul_memcmp(s, 1, t, 1, n)]
ComparedStrings == \E s \in Strings, t \in Strings, n \in Counts, signed \in BOOLEAN :
  call' = [fn |-> "strncmp", s |-> s, t |-> t, n |-> n, signed |-> signed,
           res |-> ul_strncmp(s, t, n, signed)]
Searched == \E s \in Strings, t \in Strings :
  call' = [fn |-> "strstr", s |-> s, t |-> t, res |-> ul_strstr(s, t)]
Copied == \E s \in Strings, n \in Counts :
  /\ n <= Len(Buf)
  /\ call' = [fn |-> "strncpy", s |-> s, n |-> n, res |-> ul_strncpy(Buf, s, n)]
Printed == \E fmt \in Formats, size \in BufSizes :
  call' = [fn |-> "vsnprintf", fmt |-> fmt, size |-> size, res |-> ul_vsnprintf(Buf, size, fmt)]

SInit == call = [fn |-> "none"]
SNext == Compared \/ ComparedStrings \/ Searched \/ Copied \/ Printed
SSpec == SInit /\ [][SNext]_call

-----------------------------------------------------------------------------
\* The text before the NUL, and whether t stands in s behind place i.
TextOf(s) == SubSeq(s, 1, Len(s) - 1)
StandsAt(s, t, i) == i + Len(t) <= Len(s) /\ SubSeq(s, i + 1, i + Len(t)) = t

\* Where two strings first differ in their first n characters, NULs included.
Differences(s, t, n) ==
  {i \in 1 .. Min({n, Len(s), Len(t)}) : s[i] # t[i]}
SameSign(a, b) == (a < 0 <=> b < 0) /\ (a = 0 <=> b = 0)

\* memcmp and strncmp find a difference when there is one and order by the first,
\* strncmp only while the two characters are less than 128 apart.
MemcmpRight ==
  LET different == Differences(call.s, call.t, call.n)
  IN IF different = {} THEN call.res = 0
     ELSE SameSign(call.res, call.s[Min(different)] - call.t[Min(different)])

StrncmpRight ==
  LET different == Differences(call.s, call.t, call.n)
      d == Char(call.s[Min(different)], call.signed) - Char(call.t[Min(different)], call.signed)
  IN IF different = {} THEN call.res = 0 ELSE SameSign(call.res, d) <=> d \in -128 .. 127

\* strstr finds the first place, also at the very end.
StrstrRight ==
  LET places == {i \in 0 .. Len(call.s) : StandsAt(TextOf(call.s), TextOf(call.t), i)}
  IN call.res = IF places = {} THEN None ELSE Min(places)

\* strncpy copies or cuts the text and fills up with NULs.
StrncpyRight ==
  \A i \in DOMAIN Buf :
    call.res[i] = IF i > call.n THEN Buf[i] ELSE IF i < Len(call.s) THEN call.s[i] ELSE 0

\* Whatever the strings and the numbers are, the functions agree with what their
\* names promise.
StringsAgree ==
  /\ call.fn = "memcmp" => MemcmpRight
  /\ call.fn = "strncmp" => StrncmpRight
  /\ call.fn = "strstr" => StrstrRight
  /\ call.fn = "strncpy" => StrncpyRight

-----------------------------------------------------------------------------
\* The digits of n in base b, first one first.
DigitsOf(n, b, flags) ==
  LET digits[k \in 0 .. n] ==
        IF k < b THEN <<Digit(k, flags)>> ELSE digits[k \div b] \o <<Digit(k % b, flags)>>
  IN digits[n]

\* The base of a conversion: ten, eight for o, sixteen for x, X and p.
Radix(conv) == CASE conv \in {"d", "u"} -> 10 [] conv = "o" -> 8 [] OTHER -> 16

\* The number of a conversion, as C has it, in its field: at least so many digits
\* as the precision says, none for a 0 with precision 0; a field is filled with
\* zeros only where no precision is given.
NumberText(spec) ==
  LET bits == Bits(spec)
      value == IF spec.conv = "d" THEN Signed(spec.arg, bits) ELSE Unsigned(spec.arg, bits)
      given == spec.precision # None /\ spec.precision >= 0
      digits == DigitsOf(IF value < 0 THEN - value ELSE value, Radix(spec.conv), Flags(spec))
      sign == IF spec.conv # "d" THEN << >>
              ELSE IF value < 0 THEN <<45>>
              ELSE IF "PLUS" \in spec.flags THEN <<43>>
              ELSE IF "SPACE" \in spec.flags THEN <<Blank>> ELSE << >>
      zeros == Repeat(48, IF given THEN Max({0, spec.precision - Len(digits)}) ELSE 0)
      put == IF spec.precision = 0 /\ value = 0 THEN << >> ELSE digits
      rest == Max({0, FieldWidth(spec) - Len(sign \o zeros \o put)})
  IN IF LeftJustified(spec) THEN sign \o zeros \o put \o Repeat(Blank, rest)
     ELSE IF "ZEROPAD" \in spec.flags /\ ~ given THEN sign \o Repeat(48, rest) \o put
     ELSE Repeat(Blank, rest) \o sign \o zeros \o put

\* The conversions in which print_number keeps to that.  It does not where
\* UL_PRINTF_PRECISION is not defined or the precision is 0 (no digits), in base 8
\* (taken as 16), and where zeros fill the field of a number with a precision.
KeepsToC(spec) ==
  /\ spec.precision \notin {None, 0} /\ spec.conv # "o"
  /\ spec.precision > 0 => "ZEROPAD" \notin spec.flags \/ LeftJustified(spec)

\* With UL_PRINTF_PRECISION, a number in base 10 or 16 fills its field exactly, with
\* its sign and its digits in the right order, up to the largest and the least
\* number (KeepsToC names what this leaves out); a string or a character fills its
\* field exactly.
FieldRight(spec, text) ==
  /\ spec.conv \in NumberConversions /\ KeepsToC(Pointer(spec)) =>
       text = NumberText(Pointer(spec))
  /\ spec.conv = "c" => Len(text) = Max({1, FieldWidth(spec)})
  /\ spec.conv = "s" /\ spec.width # -1 => Len(text) = FieldWidth(spec)

\* ul_vsnprintf stores the text as far as it fits, ends it inside the buffer,
\* touches nothing behind it and returns the length of the whole text.
PrintsRight ==
  call.fn = "vsnprintf" =>
    LET texts == [i \in DOMAIN call.fmt |-> Conversion(call.fmt[i])]
        text == FlattenSeq(texts)
    IN /\ \A i \in DOMAIN texts : FieldRight(call.fmt[i], texts[i])
       /\ call.res.n = Len(text)
       /\ \A i \in DOMAIN Buf :
            call.res.buf[i] = IF i > call.size THEN None
                              ELSE IF i = Least(Len(text) + 1, call.size) THEN 0
                              ELSE IF i <= Len(text) THEN text[i] ELSE None

\* The comments of ul_vsnprintf: d and u put out the number in base 10 and o in base
\* 8, whatever the build.
NumbersAsDocumented ==
  call.fn = "vsnprintf" =>
    \A i \in DOMAIN call.fmt :
      call.fmt[i].conv \in {"d", "u", "o"} =>
        Conversion(call.fmt[i]) = NumberText(call.fmt[i])
=============================================================================
