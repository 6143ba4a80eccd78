------------------------- MODULE TransferFunctions -------------------------
(***************************************************************************)
(* Guacamole.Client.DefaultTransferFunction: how a "transfer" instruction  *)
(* combines a source with a destination pixel.  A pixel is <<>>, fully     *)
(* transparent, or <<c>>, opaque of colour c; a colour is the set of its   *)
(* bits that are one, so that ~, &, | and ^ are operations on sets.        *)
(***************************************************************************)
EXTENDS Integers

CONSTANT Bits   \* the bits of red, green and blue

Colours == SUBSET Bits
Clear   == <<>>
Pixels  == {Clear} \cup {<<c>> : c \in Colours}

Rgb(p) == IF p = Clear THEN {} ELSE p[1]

\* Red, green and blue are assigned, alpha is not: nothing is to be seen of what
\* is written into a transparent pixel.
WithRgb(p, c) == IF p = Clear THEN Clear ELSE <<c>>

Xor(s, d) == (s \ d) \cup (d \ s)

\* The functions of the table that touch the colour only.  0x5 does nothing.
BitwiseTransfer(f, s, d) ==
  CASE f = 0  -> {}
    [] f = 15 -> Bits
    [] f = 5  -> d
    [] f = 10 -> Bits \ d
    [] f = 1  -> s \cap d
    [] f = 14 -> Bits \ (s \cap d)
    [] f = 7  -> s \cup d
    [] f = 8  -> Bits \ (s \cup d)
    [] f = 6  -> Xor(s, d)
    [] f = 9  -> Bits \ Xor(s, d)
    [] f = 4  -> (Bits \ s) \cap d
    [] f = 13 -> (Bits \ s) \cup d
    [] f = 2  -> s \cap (Bits \ d)
    [] f = 11 -> s \cup (Bits \ d)

\* SRC and its inverse also copy alpha.
DefaultTransferFunction(f, src, dst) ==
  CASE f = 3  -> src
    [] f = 12 -> WithRgb(src, Bits \ Rgb(src))
    [] OTHER  -> WithRgb(dst, BitwiseTransfer(f, Rgb(src), Rgb(dst)))

-----------------------------------------------------------------------------
(* What the index of a function means: its binary digits are the truth      *)
(* table of the function, from (0, 0), the highest, to (1, 1), the lowest.  *)

Place(s, d)   == IF s THEN IF d THEN 1 ELSE 2 ELSE IF d THEN 4 ELSE 8
Digit(f, s, d) == (f \div Place(s, d)) % 2 = 1

TruthTable(f, s, d) == {b \in Bits : Digit(f, b \in s, b \in d)}
=============================================================================
