----------------------------- MODULE MCSequential -----------------------------
(* Instances for TLC of the parts that one task uses at a time: lines of        *)
(* LineFormat, or one call of UlService, or else calls of RingBuffer.           *)
EXTENDS LineFormat, UlService, RingBuffer

ColourLens == 6 :> 3 @@ 7 :> 0
ResultsUsed == {-1, 0, 1, 5, 6, 12, 13, 19, 20, 26, 27, 39, 40, 41}

\* Two letters, so far apart that a signed char does not hold their difference.
StringsUsed == {s \o <<0>> : s \in UNION {[1 .. n -> {97, 228}] : n \in 0 .. 3}}

\* Numbers of 8 bits at their ends, in all fields; precision None is the build
\* without UL_PRINTF_PRECISION.
Numbers ==
  [conv : {"d", "u", "x", "X", "o", "p"},
   flags : SUBSET {"LEFT", "ZEROPAD", "PLUS", "SPACE"},
   width : {-5, -1, 0, 3, 5}, precision : {None, -1, 0, 4}, qualifier : {"", "h"},
   arg : {0, 7, 10, 127, 128, 255}]
Others ==
  [conv : {"c"}, flags : SUBSET {"LEFT", "ZEROPAD"}, width : {-3, -1, 0, 1, 3},
   precision : {None}, qualifier : {""}, arg : {97}]
  \cup [conv : {"s"}, flags : SUBSET {"LEFT"}, width : {-3, -1, 0, 1, 3},
        precision : {None, -1, 0, 1}, qualifier : {""}, arg : {None, <<97, 98, 0>>}]
Letter == [conv |-> "text", flags |-> {}, width |-> -1, precision |-> None,
           qualifier |-> "", arg |-> 98]
Percent == [Letter EXCEPT !.conv = "%"]
Unknown == [Letter EXCEPT !.conv = "unknown"]
FormatsUsed ==
  {<<Percent, Letter, Unknown>>} \cup {<<spec, Letter>> : spec \in Numbers \cup Others}

\* "%d" of 7, and "%4o" of 8, as the repository is built.
Decimal == [Letter EXCEPT !.conv = "d", !.arg = 7]
Octal == [Letter EXCEPT !.conv = "o", !.width = 4, !.arg = 8]
DocumentedFormats == {<<Decimal, Octal>>}

CountsUsed == 0 .. 4

RingUntouched == Init /\ \A o \in Offsets : pool[o] = 0
TextUntouched == call.fn = "none" /\ lines = 0

SequentialInit == LInit /\ SInit /\ Init
SequentialNext ==
  \/ RingUntouched /\ call.fn = "none" /\ LNext /\ UNCHANGED <<call, vars>>
  \/ RingUntouched /\ TextUntouched /\ SNext /\ UNCHANGED <<lvars, vars>>
  \/ TextUntouched /\ Next /\ UNCHANGED <<lvars, call>>
SequentialSpec == SequentialInit /\ [][SequentialNext]_<<lvars, call, vars>>
===============================================================================
