--------------------------- MODULE MCRttUpBuffer ---------------------------
(***************************************************************************)
(* The up-buffer for the model checker, with the number formats of what is *)
(* printed to it checked for a small word.                                 *)
(***************************************************************************)
EXTENDS RttUpBuffer, RttFormat

CONSTANTS MAX_FIELD_WIDTH, MAX_PRECISION

\* Evaluated once.
FormatsChecked ==
    ConversionsRight(0 .. MAX_FIELD_WIDTH, 0 .. MAX_PRECISION)

\* What a printf stores for the conversions d, u and x is what the description
\* of SEGGER_RTT_printf says, for every value of a word, flag, field width and
\* precision.
NumbersPrinted == pc = "store" => FormatsChecked
===========================================================================
