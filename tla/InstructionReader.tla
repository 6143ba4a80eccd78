------------------------- MODULE InstructionReader -------------------------
(***************************************************************************)
(* From the browser to the server.  The browser sends every instruction as *)
(* a WebSocket message.  The server reads octets: wsReader makes one       *)
(* stream of the messages, a bufio.Reader fills its buffer with what a     *)
(* read returns, any part of the rest of a message, and Parser goes        *)
(* through the buffer, wherever the messages and the reads end.            *)
(***************************************************************************)
EXTENDS Messages

CONSTANT BufferSize   \* octets of the bufio.Reader

ASSUME InstructionReaderAssumption == BufferSize \in Nat \ {0}

\* Messages are octets here, and message, wsReader.r, is the rest of one; <<>> is nil.
VARIABLES
  buffer,     \* what bufio holds of the stream
  stage,      \* what ReadInstruction reads: "length", "content", "delimiter"
  token,      \* the octets of it read so far
  length,     \* of the content to read
  failed      \* ErrProtocolError was returned

parser == <<stage, token, length, elements, received, failed>>
vars   == <<sent, socket, message, buffer, parser>>

Init ==
  /\ sent = <<>> /\ socket = <<>> /\ message = <<>> /\ buffer = <<>>
  /\ stage = "length" /\ token = <<>> /\ length = 0 /\ elements = <<>>
  /\ received = <<>> /\ failed = FALSE

-----------------------------------------------------------------------------
(* The browser and the stream of octets                                    *)

SendMessage(i) ==
  /\ Len(sent) < MaxSent
  /\ sent' = Append(sent, i)
  /\ socket' = Append(socket, FromBrowser(i))
  /\ UNCHANGED <<message, buffer, parser>>

\* bufio reads when it has nothing left, as long as ReadInstruction is called.
Filling == buffer = <<>> /\ ~failed

NextReader ==
  /\ Filling /\ message = <<>> /\ socket # <<>>
  /\ message' = <<Head(socket)>> /\ socket' = Tail(socket)
  /\ UNCHANGED <<sent, buffer, parser>>

\* Faulty: what arrives with the end of the message is dropped.
ReadLosesLast(n) ==
  /\ Filling /\ message # <<>> /\ n <= Len(message[1])
  /\ LET rest == SubSeq(message[1], n + 1, Len(message[1])) IN
       \/ /\ n > 0 /\ buffer' = SubSeq(message[1], 1, n) /\ message' = <<rest>>
       \/ /\ rest = <<>> /\ buffer' = <<>> /\ message' = <<>>
  /\ UNCHANGED <<sent, socket, parser>>

\* A read of n octets; the end of the message may come with the last of them or
\* alone.
Read(n) ==
  /\ Filling /\ message # <<>> /\ n <= Len(message[1])
  /\ LET rest == SubSeq(message[1], n + 1, Len(message[1])) IN
       /\ \/ n > 0 /\ message' = <<rest>>
          \/ rest = <<>> /\ message' = <<>>
       /\ buffer' = SubSeq(message[1], 1, n)
  /\ UNCHANGED <<sent, socket, parser>>

-----------------------------------------------------------------------------
(* ReadInstruction, an octet at a time                                     *)

Octet == Head(buffer)

Consume == buffer # <<>> /\ ~failed /\ buffer' = Tail(buffer)

ToStage(s) == stage' = s /\ token' = <<>>

\* Faulty: waits for an octet of content even if there is none.
LengthSkipsEmpty ==
  /\ stage = "length" /\ Consume
  /\ IF Octet # Dot
     THEN token' = Append(token, Octet) /\ UNCHANGED <<stage, length, failed>>
     ELSE IF token # <<>> /\ \A i \in DOMAIN token : token[i] \in Digit
     THEN ToStage("content") /\ length' = Value(token) /\ UNCHANGED failed
     ELSE failed' = TRUE /\ UNCHANGED <<stage, token, length>>
  /\ UNCHANGED <<sent, socket, message, elements, received>>

\* ReadString('.') and Atoi.  Atoi reads a sign too, and make panics at a length
\* it cannot allocate; the browser writes neither (the panic is
\* ReaderPanics of module Gateway).
ReadLength ==
  /\ stage = "length" /\ Consume
  /\ IF Octet # Dot
     THEN token' = Append(token, Octet) /\ UNCHANGED <<stage, length, failed>>
     ELSE IF token # <<>> /\ \A i \in DOMAIN token : token[i] \in Digit
     THEN /\ length' = Value(token)
          /\ ToStage(IF Value(token) = 0 THEN "delimiter" ELSE "content")
          /\ UNCHANGED failed
     ELSE failed' = TRUE /\ UNCHANGED <<stage, token, length>>
  /\ IF stage' = "delimiter" THEN elements' = Append(elements, <<>>)
                             ELSE UNCHANGED elements
  /\ UNCHANGED <<sent, socket, message, received>>

\* io.ReadFull.
ReadContent ==
  /\ stage = "content" /\ Consume
  /\ IF Len(token) + 1 = length
     THEN ToStage("delimiter") /\ elements' = Append(elements, Append(token, Octet))
     ELSE token' = Append(token, Octet) /\ UNCHANGED <<stage, elements>>
  /\ UNCHANGED <<sent, socket, message, length, received, failed>>

\* Faulty: the elements are kept for the next instruction.
DelimiterKeepsElements ==
  /\ stage = "delimiter" /\ Consume /\ ToStage("length")
  /\ failed' = (Octet \notin {Comma, Semicolon})
  /\ received' = IF Octet = Semicolon THEN Append(received, elements) ELSE received
  /\ UNCHANGED elements
  /\ UNCHANGED <<sent, socket, message, length>>

ReadDelimiter ==
  /\ stage = "delimiter" /\ Consume /\ ToStage("length")
  /\ failed' = (Octet \notin {Comma, Semicolon})
  /\ IF Octet = Semicolon
     THEN received' = Append(received, elements) /\ elements' = <<>>
     ELSE UNCHANGED <<received, elements>>
  /\ UNCHANGED <<sent, socket, message, length>>

Stream == NextReader \/ \E n \in 0..BufferSize : Read(n)
Parse  == ReadLength \/ ReadContent \/ ReadDelimiter
Next   == Stream \/ Parse \/ \E i \in Vocabulary : SendMessage(i)

Spec == Init /\ [][Next]_vars

\* What was sent arrives, and the reading goroutine reads on.
FairSpec == Spec /\ WF_vars(Stream \/ Parse)

-----------------------------------------------------------------------------
TypeOK ==
  /\ sent \in Seq(Vocabulary) /\ Len(sent) <= MaxSent
  /\ Len(message) <= 1 /\ Len(buffer) <= BufferSize
  /\ stage \in {"length", "content", "delimiter"}
  /\ stage = "content" => Len(token) < length
  /\ stage = "delimiter" => token = <<>>
  /\ failed \in BOOLEAN

Channel == INSTANCE InstructionChannel WITH
  Instruction <- Vocabulary,
  inFlight    <- SubSeq(sent, Len(received) + 1, Len(sent))

\* Whatever the content, delimiters and digits in it included, and wherever the
\* reads cut the messages, ReadInstruction returns what was sent, in order.
ImplementsChannel == Channel!Spec

\* The stream and the parser end an instruction together: with nothing left to
\* read, nothing of an instruction is left in the parser.
NoResidue ==
  socket = <<>> /\ message \in {<<>>, <<<<>>>>} /\ buffer = <<>> =>
    stage = "length" /\ token = <<>> /\ elements = <<>> /\ received = sent

\* All that was sent is returned in the end.
AllReceived == \A n \in 1..MaxSent : Len(sent) >= n ~> Len(received) >= n
=============================================================================
