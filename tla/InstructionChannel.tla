------------------------- MODULE InstructionChannel -------------------------
(***************************************************************************)
(* What either direction of a connection promises: the instructions sent   *)
(* arrive whole, once each and in order.                                   *)
(***************************************************************************)
EXTENDS Sequences

CONSTANT Instruction

VARIABLES inFlight, received

vars == <<inFlight, received>>

Init == inFlight = <<>> /\ received = <<>>

Send == /\ \E i \in Instruction : inFlight' = Append(inFlight, i)
        /\ UNCHANGED received

Receive ==
  /\ inFlight # <<>>
  /\ received' = Append(received, Head(inFlight))
  /\ inFlight' = Tail(inFlight)

Next == Send \/ Receive

Spec == Init /\ [][Next]_vars
=============================================================================
