------------------------------ MODULE Messages ------------------------------
(***************************************************************************)
(* What the two directions of a connection share: a sender writes whole    *)
(* instructions, each as a WebSocket message, and a receiver takes the     *)
(* messages one at a time and puts together the elements of an instruction *)
(* before it gives it on.                                                  *)
(***************************************************************************)
EXTENDS Instructions

CONSTANTS
  Vocabulary,   \* the instructions that are sent
  MaxSent       \* bound: instructions sent

ASSUME MessagesAssumption ==
  /\ Vocabulary \subseteq Seq(Seq(Character)) /\ <<>> \notin Vocabulary
  /\ MaxSent \in Nat

VARIABLES
  sent,       \* the instructions sent so far
  socket,     \* the messages on their way
  message,    \* what the receiver goes through: <<>>, or <<a message>>
  elements,   \* the complete elements of the instruction it is at
  received    \* the instructions given on so far
=============================================================================
