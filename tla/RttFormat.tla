----------------------------- MODULE RttFormat -----------------------------
(***************************************************************************)
(* The numbers in a printf: the characters that the conversions d, u and x *)
(* of SEGGER_RTT_vprintf store, for a field width, a precision (NumDigits) *)
(* and flags.  An unsigned int has WORD values and its products wrap       *)
(* around.  The precision is one whose weight an unsigned int holds.       *)
(***************************************************************************)
EXTENDS Integers, Sequences, FiniteSetsExt

CONSTANT WORD    \* 2^32

ASSUME RttFormatAssumption == WORD \in Nat /\ WORD > 16 /\ WORD % 2 = 0

AllFlags == {"LEFT_JUSTIFY", "PAD_ZERO", "PRINT_SIGN"}

aV2C == <<"0", "1", "2", "3", "4", "5", "6", "7", "8", "9",
          "A", "B", "C", "D", "E", "F">>

Repeated(c, n) == [k \in 1 .. n |-> c]

\* The characters that are missing to the field width.
Fill(Width, FieldWidth) == IF Width < FieldWidth THEN FieldWidth - Width ELSE 0

\* "Get actual field width": the digits of Number, and at least NumDigits.
ActualWidth(Number, Base, NumDigits) ==
    LET w[n \in Int] == IF n < Base THEN 1 ELSE w[n \div Base] + 1
    IN  Max({w[Number], NumDigits})

\* "Compute Digit": the weight of the first digit to be printed.
HighestDigit(v, Base, NumDigits) ==
    LET up[Digit \in Nat, n \in Nat] ==
            IF n > 1 THEN up[(Digit * Base) % WORD, n - 1]
            ELSE IF v \div Digit < Base THEN Digit
            ELSE up[(Digit * Base) % WORD, n]
    IN  up[1, NumDigits]

\* "Output digits", from the weight Digit down.
OutputDigits(v, Base, Digit) ==
    LET out[x \in Nat, d \in Nat] ==
            IF d = 0 THEN <<>>
            ELSE <<aV2C[x \div d + 1]>> \o out[x % d, d \div Base]
    IN  out[v, Digit]

PrintUnsigned(v, Base, NumDigits, FieldWidth, FormatFlags) ==
    LET fill == Fill(ActualWidth(v, Base, NumDigits), FieldWidth)
        c    == IF "PAD_ZERO" \in FormatFlags /\ NumDigits = 0 THEN "0" ELSE " "
        digits == OutputDigits(v, Base, HighestDigit(v, Base, NumDigits))
    IN  IF "LEFT_JUSTIFY" \in FormatFlags
        THEN digits \o Repeated(" ", fill)
        ELSE Repeated(c, fill) \o digits

Sign(v, FormatFlags) ==
    IF v < 0 THEN <<"-">>
    ELSE IF "PRINT_SIGN" \in FormatFlags THEN <<"+">> ELSE <<>>

\* Mutant of WidthLeft: the sign is not counted.
WidthLeftUnsigned(v, FieldWidth, FormatFlags) == FieldWidth

\* The field width, less the sign.
WidthLeft(v, FieldWidth, FormatFlags) ==
    IF FieldWidth > 0 THEN FieldWidth - Len(Sign(v, FormatFlags)) ELSE 0

\* The negation of the lowest int wraps around to itself.
Negated(v) == IF v = -(WORD \div 2) THEN v ELSE -v

PrintInt(v, Base, NumDigits, FieldWidth, FormatFlags) ==
    LET Number == IF v < 0 THEN Negated(v) ELSE v
        left   == WidthLeft(v, FieldWidth, FormatFlags)
        fill   == IF "LEFT_JUSTIFY" \in FormatFlags THEN 0
                  ELSE Fill(ActualWidth(Number, Base, NumDigits), left)
        zeros  == "PAD_ZERO" \in FormatFlags /\ NumDigits = 0
    IN  Repeated(" ", IF zeros THEN 0 ELSE fill)
          \o Sign(v, FormatFlags)
          \o Repeated("0", IF zeros THEN fill ELSE 0)
          \o PrintUnsigned(Number % WORD, Base, NumDigits, left - fill,
                           FormatFlags)
---------------------------------------------------------------------------
(***************************************************************************)
(* What the description of SEGGER_RTT_printf says.                         *)
(***************************************************************************)

\* The numeral of v in a base: as many digits as it takes, at least n.
Numeral(v, Base, n) ==
    LET len == CHOOSE k \in 1 .. WORD :
                  /\ k >= n /\ v < Base ^ k
                  /\ k > 1 /\ k > n => v >= Base ^ (k - 1)
    IN  [k \in 1 .. len |-> aV2C[((v \div Base ^ (len - k)) % Base) + 1]]

\* "-: Left justify within the field width", "0: Pad with 0 instead of spaces.
\* Ignored when using '-'-flag or precision".
Justified(sign, numeral, NumDigits, FieldWidth, FormatFlags) ==
    LET fill == Fill(Len(sign) + Len(numeral), FieldWidth)
    IN  IF "LEFT_JUSTIFY" \in FormatFlags
        THEN sign \o numeral \o Repeated(" ", fill)
        ELSE IF "PAD_ZERO" \in FormatFlags /\ NumDigits = 0
        THEN sign \o Repeated("0", fill) \o numeral
        ELSE Repeated(" ", fill) \o sign \o numeral

\* The conversions print the numeral of their argument, with its sign,
\* justified and padded as the format says.  (The lowest int only where no
\* field width is given: its negation, which the width is counted of, is
\* undefined.)
ConversionsRight(widths, precisions) ==
    \A FormatFlags \in SUBSET AllFlags, FieldWidth \in widths :
    \A Base \in {10, 16} : \A NumDigits \in precisions :
        Base ^ NumDigits < WORD * Base =>
        /\ \A v \in 0 .. WORD - 1 :
              PrintUnsigned(v, Base, NumDigits, FieldWidth, FormatFlags) =
              Justified(<<>>, Numeral(v, Base, NumDigits), NumDigits,
                        FieldWidth, FormatFlags)
        /\ Base = 10 =>
           \A v \in -(WORD \div 2) .. WORD \div 2 - 1 :
              v > -(WORD \div 2) \/ FieldWidth = 0 =>
              PrintInt(v, Base, NumDigits, FieldWidth, FormatFlags) =
              Justified(Sign(v, FormatFlags),
                        Numeral(IF v < 0 THEN -v ELSE v, Base, NumDigits),
                        NumDigits, FieldWidth, FormatFlags)
===========================================================================
