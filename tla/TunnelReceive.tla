--------------------------- MODULE TunnelReceive ---------------------------
(***************************************************************************)
(* From the server to the browser.  The server writes every instruction as *)
(* a WebSocket text message; WebSocketTunnel's onmessage goes through the  *)
(* message element by element.  The server's lengths count octets, the     *)
(* indices of the browser characters.                                      *)
(*                                                                         *)
(* Some names begin with TR: InstructionReader, the other direction, is    *)
(* next to this module in CodecProofs.                                     *)
(***************************************************************************)
EXTENDS Messages

CONSTANT Id   \* the session's identifier, a text; the first thing that is sent

ASSUME TunnelReceiveAssumption == Id \in Seq(Character)

NaN == -1   \* what JavaScript makes of undefined and of parseInt("")

\* Messages are texts here, and message is the whole of the one onmessage is at.
VARIABLES
  at,                       \* where its loop is
  startIndex, elementEnd,   \* its local variables, besides elements
  state, uuid               \* of the tunnel; uuid is <<>> for null, or <<text>>

loop   == <<message, at, startIndex, elementEnd, elements>>
trVars == <<sent, socket, loop, state, uuid, received>>

TRInit ==
  /\ sent = <<>> /\ socket = <<>> /\ message = <<>>
  /\ at = "length" /\ startIndex = 0 /\ elementEnd = NaN /\ elements = <<>>
  /\ state = "connecting" /\ uuid = <<>> /\ received = <<>>

Min2(a, b) == IF a < b THEN a ELSE b

\* String.substring: the indices are brought into the text and into order.
Substring(text, a, b) ==
  LET from == Min2(Min2(a, b), Len(text))
      to   == Min2(IF a < b THEN b ELSE a, Len(text))
  IN SubSeq(text, (IF from < 0 THEN 0 ELSE from) + 1, to)

\* String.indexOf: the first dot at or after an index.
DotsFrom(text, index) ==
  {i \in 0..(Len(text) - 1) : i >= index /\ text[i + 1] = Dot}

IndexOfDot(text, index) ==
  CHOOSE i \in DotsFrom(text, index) : \A j \in DotsFrom(text, index) : i <= j

\* parseInt: the value of the digits a text begins with.
ParseInt(text) ==
  LET digits == {n \in 1..Len(text) : \A i \in 1..n : text[i] \in Digit}
  IN IF digits = {} THEN NaN
     ELSE Value(SubSeq(text, 1, CHOOSE n \in digits : \A k \in digits : k <= n))

-----------------------------------------------------------------------------
Hello == <<<<>>, Id>>

ServerSends(i) ==
  /\ Len(sent) < MaxSent
  /\ sent = <<>> => i = Hello
  /\ sent' = Append(sent, i)
  /\ socket' = Append(socket, FromServer(i))
  /\ UNCHANGED <<loop, state, uuid, received>>

OnMessage ==
  /\ message = <<>> /\ socket # <<>>
  /\ message' = <<Head(socket)>> /\ socket' = Tail(socket)
  /\ at' = "length"
  /\ startIndex' = 0 /\ elementEnd' = NaN /\ elements' = <<>>
  /\ UNCHANGED <<sent, state, uuid, received>>

\* The terminator of an element is the semicolon.
Ends(text, end) == end # NaN /\ Substring(text, end, end + 1) = <<Semicolon>>

\* Faulty: the loop goes on at the terminator.
AdvanceToTerminator(size) ==
  /\ startIndex' = elementEnd
  /\ message' = IF elementEnd # NaN /\ elementEnd < size THEN message ELSE <<>>

\* The loop goes on behind the terminator while there is text.
Advance(size) ==
  /\ startIndex' = elementEnd + 1
  /\ message' = IF elementEnd # NaN /\ elementEnd + 1 < size THEN message ELSE <<>>

\* Faulty: the tunnel's own instructions are given to the client.
DeliverAll(opcode, arguments) ==
  /\ uuid' = IF uuid = <<>> THEN arguments ELSE uuid
  /\ state' = IF uuid = <<>> THEN "open" ELSE state
  /\ received' = Append(received, <<opcode>> \o arguments)

\* A complete instruction; the ones with the empty opcode are the tunnel's own.
Deliver(opcode, arguments) ==
  /\ uuid' = IF uuid = <<>> /\ opcode = <<>> /\ Len(arguments) = 1
             THEN arguments ELSE uuid
  /\ state' = IF uuid = <<>> THEN "open" ELSE state
  /\ received' = IF opcode = <<>> THEN received
                 ELSE Append(received, <<opcode>> \o arguments)

\* An iteration first looks for the next length.  When there is no further dot
\* the tunnel is closed, and the iteration goes on with the indices it has.
FindLength ==
  /\ message # <<>> /\ at = "length" /\ at' = "element"
  /\ IF DotsFrom(message[1], startIndex) = {}
     THEN state' = "closed" /\ UNCHANGED <<startIndex, elementEnd>>
     ELSE \E lengthEnd \in {IndexOfDot(message[1], startIndex)} :
          \E digits \in {Substring(message[1], elementEnd + 1, lengthEnd)} :
            /\ startIndex' = lengthEnd + 1
            /\ elementEnd' = IF ParseInt(digits) = NaN THEN NaN
                             ELSE lengthEnd + 1 + ParseInt(digits)
            /\ UNCHANGED state
  /\ UNCHANGED <<sent, socket, message, elements, uuid, received>>

\* Then it takes the element, with the instruction when it was its last.
TakeElement ==
  /\ message # <<>> /\ at = "element" /\ at' = "length"
  /\ \E all \in {Append(elements, Substring(message[1], startIndex, elementEnd))} :
       IF Ends(message[1], elementEnd)
       THEN Deliver(all[1], Tail(all)) /\ elements' = <<>>
       ELSE elements' = all /\ UNCHANGED <<state, uuid, received>>
  /\ Advance(Len(message[1]))
  /\ UNCHANGED <<sent, socket, elementEnd>>

TRNext == \/ \E i \in Vocabulary \cup {Hello} : ServerSends(i)
          \/ OnMessage \/ FindLength \/ TakeElement

TRSpec == TRInit /\ [][TRNext]_trVars

\* The event loop of the browser runs.
TRFairSpec == TRSpec /\ WF_trVars(OnMessage \/ FindLength \/ TakeElement)

-----------------------------------------------------------------------------
TRTypeOK ==
  /\ sent \in Seq(Vocabulary \cup {Hello}) /\ Len(sent) <= MaxSent
  /\ Len(message) <= 1
  /\ startIndex \in Nat /\ elementEnd \in Nat \cup {NaN}
  /\ at \in {"length", "element"}
  /\ message # <<>> => startIndex < Len(message[1]) /\ elementEnd < Len(message[1])
  /\ state \in {"connecting", "open", "closed"}

ForClient(instructions) ==
  LET given[n \in 0..Len(instructions)] ==
        IF n = 0 THEN <<>>
        ELSE IF instructions[n][1] = <<>> THEN given[n - 1]
        ELSE Append(given[n - 1], instructions[n])
  IN given[Len(instructions)]

\* When onmessage returns, the client was given every instruction of the
\* messages taken so far, whole, once, and in order.
ReceivedAsSent ==
  message = <<>> =>
    received = ForClient(SubSeq(sent, 1, Len(sent) - Len(socket)))

\* onmessage returns.
LoopEnds == message # <<>> ~> message = <<>>
=============================================================================
