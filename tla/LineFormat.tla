------------------------------ MODULE LineFormat ------------------------------
(***************************************************************************)
(* The formatting of a line in ulog.c: the head, what the caller logs or a *)
(* row of a hexdump, the tail, all into ulog.log_buf_th, which still holds *)
(* the lines before.                                                       *)
(*                                                                         *)
(* A character is a pair of the text it belongs to and its place in it, so *)
(* that any other text of the same length behaves in the same way.  Texts  *)
(* are sequences of characters without their final NUL.  A buffer is its   *)
(* memory, the length used so far and the highest index ever written; the  *)
(* memory goes on behind the LineSize + 1 bytes of log_buf_th, to see what *)
(* is written there.                                                       *)
(***************************************************************************)
EXTENDS Integers, Sequences, SequencesExt, FiniteSetsExt

CONSTANTS
  LineSize,     \* ULOG_LINE_BUF_SIZE
  AddrLen,      \* length of "%04x-%04x: "
  Colours,      \* for each level the length of its colour, 0 where it is NULL
  Ticks,        \* values of the tick counter
  TagLens,      \* lengths of tags
  Results,      \* of vsnprintf: the length of what it makes of a format, or -1
  Widths, Sizes,  \* of hexdumps
  MaxLines      \* bound: lines formatted into the same buffer

ASSUME ColoursAssumption ==
  /\ DOMAIN Colours \subseteq Int /\ \A level \in DOMAIN Colours : Colours[level] \in Nat
  /\ \E last \in DOMAIN Colours : \A level \in DOMAIN Colours : level <= last
\* The tick counter has 32 bits, so that ten digits are enough.
ASSUME TicksAssumption == \A tick \in Ticks : tick \in Nat /\ tick \div 10^9 < 10
\* A colour, a time of ten digits and a tail fit into a line, and so does an address.
ASSUME LineSizeAssumption ==
  /\ LineSize \in Nat /\ \A level \in DOMAIN Colours : Colours[level] + 21 <= LineSize
  /\ AddrLen \in Nat /\ AddrLen < LineSize
ASSUME LengthsAssumption ==
  /\ TagLens \subseteq Nat /\ Results \subseteq Nat \cup {-1}
  /\ Widths \subseteq Nat \ {0} /\ Sizes \subseteq Nat

VARIABLES
  log_buf_th,   \* its memory
  line,         \* the last call: its kind and arguments, the text it asked for
  lines         \* lines so far

lvars == <<log_buf_th, line, lines>>

Text(class, n) == [i \in 1 .. n |-> <<class, i>>]
NUL == <<"nul", 0>>
Space == Text("space", 1)
CSI_START == Text("csi_start", 2)
CSI_END == Text("csi_end", 4)
ULOG_NEWLINE_SIGN == Text("newline", 2)

\* The memory an overrun can reach: a head of LineSize and an address behind it.
Memory == 0 .. LineSize + AddrLen
Buffer(mem) == [mem |-> mem, len |-> 0, top |-> -1]

-----------------------------------------------------------------------------
\* The characters of text stored at b.len, without any bound; len is set.
Store(b, text, len) ==
  [mem |-> [i \in Memory |-> IF i \in b.len .. b.len + Len(text) - 1
                             THEN text[i - b.len + 1] ELSE b.mem[i]],
   len |-> len, top |-> Max({b.top, b.len + Len(text) - 1})]
Write(b, text) == Store(b, text, b.len + Len(text))
Terminate(b) == Store(b, <<NUL>>, b.len)
SetLen(b, len) == [mem |-> b.mem, len |-> len, top |-> b.top]

\* ulog_strcpy at b.len: it stops at LineSize.
ulog_strcpy(b, text) ==
  Write(b, SubSeq(text, 1, Max({0, Min({Len(text), LineSize - b.len})})))

\* The C library's vsnprintf(log_buf + b.len, size, ...), of a format that makes
\* text.  A failed one, with a negative result, leaves the memory as it was.
vsnprintf(b, size, text) ==
  IF size = 0 THEN b
  ELSE Store(b, SubSeq(text, 1, Min({Len(text), size - 1})) \o <<NUL>>, b.len)

\* ulog_ultoa: the digits, last one first, and then turned round.
ulog_ultoa(n) ==
  LET digits[k \in 0 .. n] ==
        <<<<"digit", k % 10>>>> \o (IF k < 10 THEN << >> ELSE digits[k \div 10])
  IN Reverse(digits[n])

Time(tick) == Text("bracket", 1) \o ulog_ultoa(tick) \o Text("bracket", 1)
Colour(level) == Text("colour", Colours[level])

\* ulog_head_formater.  The time is stored without a bound.
ulog_head_formater(b, level, tag, tick) ==
  LET coloured == IF Colours[level] = 0 THEN b
                  ELSE ulog_strcpy(ulog_strcpy(b, CSI_START), Colour(level))
      timed == Write(Terminate(coloured), Time(tick))
      levelled == ulog_strcpy(ulog_strcpy(Terminate(timed), Space), Text("level", 2))
  IN ulog_strcpy(ulog_strcpy(levelled, tag), Text("colon", 2))

\* Mutant of TailFits: the NUL behind the line is forgotten.
TailFits_without_NUL(len) == len + Len(CSI_END) + Len(ULOG_NEWLINE_SIGN) <= LineSize

TailFits(len) == len + Len(CSI_END) + Len(ULOG_NEWLINE_SIGN) + 1 <= LineSize

\* ulog_tail_formater: room for the whole tail is kept, colour or not.
ulog_tail_formater(b, newline, level) ==
  LET cut == IF TailFits(b.len) THEN b
             ELSE SetLen(b, LineSize - Len(CSI_END) - Len(ULOG_NEWLINE_SIGN) - 1)
      ended == IF newline THEN ulog_strcpy(cut, ULOG_NEWLINE_SIGN) ELSE cut
  IN Terminate(IF Colours[level] = 0 THEN ended ELSE ulog_strcpy(ended, CSI_END))

\* The length after vsnprintf returned result: LineSize when it failed, with a
\* negative result, or did not fit.
LengthAfter(len, result) ==
  IF result > -1 /\ len + result <= LineSize THEN len + result ELSE LineSize

-----------------------------------------------------------------------------
\* ulog_formater, where vsnprintf returns result.
ulog_formater(mem, level, tag, tick, newline, result) ==
  LET head == ulog_head_formater(Buffer(mem), level, tag, tick)
      done == IF result = -1 THEN head
              ELSE vsnprintf(head, LineSize - head.len, Text("body", result))
      len == LengthAfter(head.len, result)
  IN ulog_tail_formater(SetLen(done, len), newline, level)

\* The cell of byte j in a row of the bytes from .. from + size - 1 of a hexdump.
Cell(from, size, j) ==
  (IF j < size THEN <<<<"high", from + j>>, <<"low", from + j>>, <<"space", 1>>>>
   ELSE <<<<"space", 1>>, <<"space", 1>>, <<"space", 1>>>>)
  \o (IF (j + 1) % 8 = 0 THEN Space ELSE << >>)

\* ulog_hex_format.  snprintf of the address is given the whole LineSize, though
\* the head is already there; the level is LOG_LVL_DBG, Colours has it last.
LOG_LVL_DBG == Max(DOMAIN Colours)

ulog_hex_format(mem, tag, tick, from, size, width) ==
  LET head == ulog_head_formater(Buffer(mem), LOG_LVL_DBG, tag, tick)
      addr == vsnprintf(head, LineSize, Text("addr", AddrLen))
      cells[j \in 0 .. width] ==
        IF j = 0 THEN SetLen(addr, head.len + LengthAfter(0, AddrLen))
        ELSE ulog_strcpy(cells[j - 1], Cell(from, size, j - 1))
      chars[j \in 0 .. size] ==
        IF j = 0 THEN ulog_strcpy(cells[width], Space)
        ELSE ulog_strcpy(chars[j - 1], <<<<"char", from + j - 1>>>>)
  IN ulog_tail_formater(chars[size], TRUE, LOG_LVL_DBG)

\* The rows of ulog_hexdump, by their first byte and their size.
Rows(width, size) ==
  {[from |-> i, size |-> IF i + width > size THEN size - i ELSE width]
     : i \in {k \in 0 .. size - 1 : k % width = 0}}

\* The line of ulog_raw.
RawLine(mem, result) ==
  LET b == IF result = -1 THEN Buffer(mem)
           ELSE vsnprintf(Buffer(mem), LineSize, Text("body", result))
  IN SetLen(b, LengthAfter(0, result))

-----------------------------------------------------------------------------
\* The calls, one after the other into the same buffer.  line keeps what was asked
\* for; its text is worked out below without the operators above.
Keep(kind, args, b) ==
  /\ lines < MaxLines
  /\ lines' = lines + 1
  /\ log_buf_th' = b.mem
  /\ line' = [kind |-> kind, args |-> args, len |-> b.len, top |-> b.top]

Formatted ==
  \E level \in DOMAIN Colours, tag \in TagLens, tick \in Ticks, newline \in BOOLEAN,
     result \in Results :
    Keep("log", [level |-> level, tag |-> tag, tick |-> tick, newline |-> newline,
                 result |-> result],
         ulog_formater(log_buf_th, level, Text("tag", tag), tick, newline, result))

Dumped ==
  \E tag \in TagLens, tick \in Ticks, width \in Widths, size \in Sizes :
    \E row \in Rows(width, size) :
      Keep("hex", [level |-> LOG_LVL_DBG, tag |-> tag, tick |-> tick, newline |-> TRUE,
                   width |-> width, size |-> size, row |-> row],
           ulog_hex_format(log_buf_th, Text("tag", tag), tick, row.from, row.size, width))

Raw ==
  \E result \in Results :
    Keep("raw", [result |-> result], RawLine(log_buf_th, result))

LInit ==
  /\ log_buf_th = [i \in Memory |-> NUL]
  /\ line = [kind |-> "none", len |-> 0, top |-> -1]
  /\ lines = 0

LNext == Formatted \/ Dumped \/ Raw

LSpec == LInit /\ [][LNext]_lvars

-----------------------------------------------------------------------------
\* What a reader of the line finds, told without the operators above.
Line == [i \in 1 .. line.len |-> log_buf_th[i - 1]]
Limit == LineSize - 7      \* newline, end of colour, NUL

\* How many digits n has.
Digits(n) == Min({k \in 1 .. 10 : n \div 10^(k - 1) < 10})

ColourLen(a) == IF Colours[a.level] = 0 THEN 0 ELSE 2 + Colours[a.level]
HeadLen(a) == ColourLen(a) + 2 + Digits(a.tick) + 1 + 2 + a.tag + 2

\* The columns of a hexdump: a byte in hex, the same byte as a character.
HexAt(a, j) == HeadLen(a) + AddrLen + 3 * j + j \div 8
CharAt(a, j) == HexAt(a, a.width) + 1 + j

AskedLen(a) ==
  IF line.kind = "log" THEN HeadLen(a) + a.result ELSE CharAt(a, a.row.size)
Shown(a) ==
  IF line.kind = "log" /\ a.result = -1 THEN Limit ELSE Min({AskedLen(a), Limit})

\* As much of text class as is shown stands behind place first.
Stands(a, class, first, n) ==
  \A i \in 1 .. n : first + i <= Shown(a) => Line[first + i] = <<class, i>>

HeadStands(a) ==
  LET time == ColourLen(a) + 1
  IN /\ Stands(a, "csi_start", 0, IF ColourLen(a) = 0 THEN 0 ELSE 2)
     /\ Stands(a, "colour", 2, Colours[a.level])
     /\ \A i \in 1 .. Digits(a.tick) :
          Line[time + i] = <<"digit", (a.tick \div 10^(Digits(a.tick) - i)) % 10>>
     /\ Stands(a, "tag", HeadLen(a) - 2 - a.tag, a.tag)

RowStands(a) ==
  \A j \in 0 .. a.row.size - 1 :
    /\ HexAt(a, j) + 1 <= Shown(a) => Line[HexAt(a, j) + 1] = <<"high", a.row.from + j>>
    /\ HexAt(a, j) + 2 <= Shown(a) => Line[HexAt(a, j) + 2] = <<"low", a.row.from + j>>
    /\ CharAt(a, j) + 1 <= Shown(a) => Line[CharAt(a, j) + 1] = <<"char", a.row.from + j>>

\* The tail stands behind what is shown and nothing behind the tail.
TailStands(a) ==
  LET newline == IF a.newline THEN 2 ELSE 0
      colour == IF Colours[a.level] = 0 THEN 0 ELSE 4
  IN /\ line.len = Shown(a) + newline + colour
     /\ \A i \in 1 .. newline : Line[Shown(a) + i] = <<"newline", i>>
     /\ \A i \in 1 .. colour : Line[Shown(a) + newline + i] = <<"csi_end", i>>
     /\ log_buf_th[line.len] = NUL

\* Whatever the buffer held and however long tag, format and row are: a line is its
\* head and its text, cut where the tail would not fit, and the tail; no NUL and
\* nothing of an earlier line is in it, unless the format failed.  Nothing is
\* written behind log_buf_th, but by the address of a hexdump behind a head that
\* leaves no room for it.
FormattedIntact ==
  line.kind \in {"log", "hex"} =>
    LET a == line.args
    IN /\ HeadStands(a) /\ TailStands(a)
       /\ line.kind = "hex" => RowStands(a)
       /\ line.kind = "log" /\ a.result # -1 =>
            /\ Stands(a, "body", HeadLen(a), a.result)
            /\ \A i \in 1 .. line.len : Line[i] # NUL
       /\ line.top > LineSize <=>
            line.kind = "hex" /\ Min({HeadLen(a), LineSize}) + AddrLen > LineSize

\* A raw line is output as it was made, but the last byte of one that fills or
\* overfills the buffer is a NUL.
RawIntact ==
  line.kind = "raw" /\ line.args.result # -1 =>
    LET body == line.args.result
    IN /\ line.len = Min({body, LineSize}) /\ line.top < LineSize
       /\ \A i \in 1 .. Min({body, LineSize - 1}) : Line[i] = <<"body", i>>
       /\ body >= LineSize => Line[LineSize] = NUL

\* Every byte of a hexdump is in one of its rows.
RowsCover ==
  line.kind = "hex" =>
    LET rows == Rows(line.args.width, line.args.size)
    IN \A i \in 0 .. line.args.size - 1 :
         Cardinality({r \in rows : i \in r.from .. r.from + r.size - 1}) = 1

\* Lines of all kinds, one after the other through one buffer.
LinesIntact == FormattedIntact /\ RawIntact /\ RowsCover
=============================================================================
