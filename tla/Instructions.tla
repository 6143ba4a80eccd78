---------------------------- MODULE Instructions ----------------------------
(***************************************************************************)
(* Guacamole instructions as both ends of a connection write them: every   *)
(* element (the opcode, then the arguments) is preceded by its length and  *)
(* a dot, elements are separated by commas, a semicolon ends the whole.    *)
(*                                                                         *)
(* The ends differ in what they count: the browser counts the characters   *)
(* of an element, the server the octets of its UTF-8 form.                 *)
(***************************************************************************)
EXTENDS Integers, Sequences, SequencesExt

CONSTANT Base   \* of the numerals; 10 in the code, less to have long ones early

ASSUME InstructionsAssumption == Base \in Nat \ {0, 1}

\* Characters are numbers: the digits, then the ones the notation gives a
\* meaning, then one of each kind that is only ever content.
Digit     == 0..(Base - 1)
Dot       == Base
Comma     == Base + 1
Semicolon == Base + 2
Letter    == Base + 3
Wide      == Base + 4     \* stands for every character beyond ASCII
Character == 0..Wide

Octets(c) == IF c = Wide THEN <<Wide, Wide + 1>> ELSE <<c>>

Utf8(text) == FlattenSeq([i \in DOMAIN text |-> Octets(text[i])])

Numeral[n \in Nat] ==
  IF n < Base THEN <<n>> ELSE Append(Numeral[n \div Base], n % Base)

\* strconv.Atoi of a string of digits.
Value(numeral) ==
  LET value[n \in 0..Len(numeral)] ==
        IF n = 0 THEN 0 ELSE value[n - 1] * Base + numeral[n]
  IN value[Len(numeral)]

\* An instruction is the sequence of its elements; lengths are what the end that
\* writes it counts of them.
Encode(instruction, lengths) ==
  FlattenSeq([i \in DOMAIN instruction |->
    Numeral[lengths[i]] \o <<Dot>> \o instruction[i]
      \o <<IF i = Len(instruction) THEN Semicolon ELSE Comma>>])

\* WebSocketTunnel.sendMessage, and the octets of it that arrive.
FromBrowser(instruction) ==
  Utf8(Encode(instruction, [i \in DOMAIN instruction |-> Len(instruction[i])]))

OctetLength(text) == Len(Utf8(text))

\* Instruction.String, as the characters the browser makes of it.
FromServer(instruction) ==
  Encode(instruction, [i \in DOMAIN instruction |-> OctetLength(instruction[i])])
=============================================================================
