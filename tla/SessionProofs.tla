--------------------------- MODULE SessionProofs ---------------------------
(***************************************************************************)
(* Proofs about Session for every channel and socket capacity and every    *)
(* number of frames and chunks: the inductive invariant IInv, the safety   *)
(* properties that follow from it, and that Session implements             *)
(* SessionLifecycle.                                                       *)
(***************************************************************************)
EXTENDS Session, SequenceTheorems, TLAPS

\* The parts of a captured frame, by their place (the sends of one pass of the
\* capture loop).
LEMMA FrameParts ==
  ASSUME NEW n \in 0..MaxFrames, NEW b \in Nat
  PROVE  /\ FrameInstructions(n, b) \in Seq(Instruction)
         /\ FrameInstructions(n, b) # <<>>
         /\ Len(FrameInstructions(n, b)) = b + 3
         /\ FrameInstructions(n, b)[1] = Part("img", n)
         /\ \A i \in 2..(b + 1) : FrameInstructions(n, b)[i] = Part("blob", n)
         /\ FrameInstructions(n, b)[b + 2] = Part("end", n)
         /\ FrameInstructions(n, b)[b + 3] = Plain("sync")
<1> DEFINE head == <<Part("img", n)>>
           body == [i \in 1..b |-> Part("blob", n)]
           tail == <<Part("end", n), Plain("sync")>>
<1>1. Part("img", n) \in Instruction /\ Part("blob", n) \in Instruction
      /\ Part("end", n) \in Instruction /\ Plain("sync") \in Instruction
  BY SessionAssumption DEF Part, Plain, Instruction, Opcodes
<1>2. head \in Seq(Instruction) /\ Len(head) = 1 /\ head[1] = Part("img", n)
  BY <1>1
<1>3. body \in Seq(Instruction) /\ Len(body) = b
      /\ \A i \in 1..b : body[i] = Part("blob", n)
  <2>1. body \in [1..b -> Instruction]
    BY <1>1
  <2> QED BY <2>1, SeqDef
<1>4. tail \in Seq(Instruction) /\ Len(tail) = 2 /\ tail[1] = Part("end", n)
      /\ tail[2] = Plain("sync")
  BY <1>1
<1> HIDE DEF head, body, tail
<1> DEFINE front == head \o body
<1>5. front \in Seq(Instruction) /\ Len(front) = 1 + b
      /\ \A i \in 1..(1 + b) : front[i] = IF i <= 1 THEN head[i] ELSE body[i - 1]
  BY <1>2, <1>3, ConcatProperties
<1> HIDE DEF front
<1> DEFINE frame == front \o tail
<1>6. frame \in Seq(Instruction) /\ Len(frame) = (1 + b) + 2
      /\ \A i \in 1..((1 + b) + 2) :
           frame[i] = IF i <= 1 + b THEN front[i] ELSE tail[i - (1 + b)]
  <2>1. front \in Seq(Instruction) /\ tail \in Seq(Instruction)
    BY <1>4, <1>5
  <2>2. frame \in Seq(Instruction) /\ Len(frame) = Len(front) + Len(tail)
        /\ \A i \in 1..Len(front) + Len(tail) :
             frame[i] = IF i <= Len(front) THEN front[i] ELSE tail[i - Len(front)]
    BY <2>1, ConcatProperties
  <2> HIDE DEF frame
  <2> QED BY <1>4, <1>5, <2>2
<1> HIDE DEF frame
<1>7. frame[1] = Part("img", n) /\ \A i \in 2..(b + 1) : frame[i] = Part("blob", n)
  <2>1. frame[1] = head[1]
    BY <1>5, <1>6
  <2>2. ASSUME NEW i \in 2..(b + 1) PROVE frame[i] = Part("blob", n)
    <3>1. i - 1 \in 1..b /\ i \in 1..(1 + b) /\ i \in 1..((1 + b) + 2) /\ ~(i <= 1) /\ i <= 1 + b
      OBVIOUS
    <3> QED BY <1>3, <1>5, <1>6, <3>1
  <2> QED BY <1>2, <2>1, <2>2
<1>8. frame[b + 2] = Part("end", n) /\ frame[b + 3] = Plain("sync")
  <2>1. (b + 2) - (1 + b) = 1 /\ (b + 3) - (1 + b) = 2 /\ ~(b + 2 <= 1 + b) /\ ~(b + 3 <= 1 + b)
        /\ b + 2 \in 1..((1 + b) + 2) /\ b + 3 \in 1..((1 + b) + 2)
    OBVIOUS
  <2> QED BY <1>4, <1>6, <2>1
<1>9. FrameInstructions(n, b) = frame
  BY DEF FrameInstructions, frame, front, head, body, tail
<1>10. frame # <<>> /\ Len(frame) = b + 3
  <2>1. (1 + b) + 2 = b + 3 /\ b + 3 # 0
    OBVIOUS
  <2> QED BY <1>6, <2>1, EmptySeq
<1>11. frame \in Seq(Instruction)
  BY <1>6
<1> QED BY <1>7, <1>8, <1>9, <1>10, <1>11, Zenon

\* The invariant holds before the request goroutine has done anything.
LEMMA InitIInv == Init => IInv
<1> SUFFICES ASSUME Init PROVE IInv
  OBVIOUS
<1>1. ControlType
  BY DEF Init, ControlType, HandlerPcs, ReaderPcs, WriterPcs, RendererPcs
<1>2. FlagType /\ HandlerHolds
  BY DEF Init, FlagType, HandlerHolds
<1>3. QueueType
  BY SessionAssumption DEF Init, QueueType
<1>4. PeerType
  BY SessionAssumption DEF Init, PeerType
<1>5. WorkersCounted /\ HandlerStages /\ ProcessWatched /\ EarlyChannel /\ HandsEmpty
  BY DEF Init, WorkersCounted, Counted, HandlerStages, ProcessWatched, EarlyChannel,
         HandsEmpty
<1>6. Spoken
  <2>1. Ops(Pipeline) = {}
    BY DEF Init, Pipeline, Ops
  <2> QED BY <2>1 DEF Init, Spoken
<1> QED BY <1>1, <1>2, <1>3, <1>4, <1>5, <1>6 DEF IInv, TypeOK

\* The counters, program counters and stages move together.
LEMMA ControlStep ==
  ASSUME IInv, Next
  PROVE  (ControlType /\ WorkersCounted /\ HandlerStages /\ ProcessWatched)'
<1> USE DEF IInv, TypeOK, ControlType, WorkersCounted, Counted, HandlerStages, ProcessWatched,
            HandlerPcs, ReaderPcs, WriterPcs, RendererPcs, serverVars
<1>1. CASE Handler
  BY <1>1, SessionAssumption DEF Handler, Register, StartWorkers, SendHello, Launch, ReportFailure,
               CancelFailed, SpawnRenderer, Wait, Remove
<1>2. CASE Reader
  BY <1>2 DEF Reader, ReaderCheck, ReaderRead, ReaderFail, ReaderCancel, ReaderLeave
<1>3. CASE Writer
  BY <1>3 DEF Writer, WriterStop, WriterTake, WriterHeartbeat, WriterWrite,
              WriterFail, WriterLeave
<1>4. CASE Renderer
  BY <1>4 DEF Renderer, RendererSend, RendererCancelled, SendErrorAndStop, BackendExited,
              WindowTimeout, WindowFound, CaptureFrame, Disconnect, RendererLeave, QueueType
<1>5. CASE BackendDies \/ Reap
  BY <1>5 DEF BackendDies, Reap
<1>6. CASE Client
  BY <1>6 DEF Client, ClientReceive, ClientSend, ClientLeave
<1> QED BY <1>1, <1>2, <1>3, <1>4, <1>5, <1>6 DEF Next

\* The flags stay flags; the session is in the table, and its connection open,
\* from its registration to its removal.
LEMMA FlagStep ==
  ASSUME IInv, Next
  PROVE  (FlagType /\ HandlerHolds)'
<1> USE DEF IInv, TypeOK, FlagType, HandlerHolds, serverVars, peerVars
<1>1. CASE Handler
  BY <1>1 DEF Handler, Register, StartWorkers, SendHello, Launch, ReportFailure,
              CancelFailed, SpawnRenderer, Wait, Remove
<1>2. CASE Reader
  <2>1. /\ UNCHANGED <<handler, registered, connOpen, gone>>
        /\ UNCHANGED ctxDone \/ ctxDone' = TRUE
    BY <1>2 DEF Reader, ReaderCheck, ReaderRead, ReaderFail, ReaderCancel, ReaderLeave
  <2> QED BY <2>1
<1>3. CASE Writer
  BY <1>3 DEF Writer, WriterStop, WriterTake, WriterHeartbeat, WriterWrite,
              WriterFail, WriterLeave
<1>4. CASE Renderer
  BY <1>4 DEF Renderer, RendererSend, RendererCancelled, SendErrorAndStop, BackendExited,
              WindowTimeout, WindowFound, CaptureFrame, Disconnect, RendererLeave
<1>5. CASE BackendDies \/ Reap
  BY <1>5 DEF BackendDies, Reap
<1>6. CASE Client
  <2>1. CASE ClientReceive
    BY <2>1 DEF ClientReceive
  <2>2. CASE ClientLeave \/ \E op \in ClientOps : ClientSend(op)
    <3>1. /\ UNCHANGED <<handler, registered, ctxDone, connOpen>>
          /\ UNCHANGED gone \/ gone' = TRUE
      BY <2>2 DEF ClientLeave, ClientSend
    <3> QED BY <3>1
  <2> QED BY <1>6, <2>1, <2>2 DEF Client
<1> QED BY <1>1, <1>2, <1>3, <1>4, <1>5, <1>6 DEF Next

\* The channel never holds more than Capacity instructions.
LEMMA QueueStep ==
  ASSUME IInv, Next
  PROVE  (QueueType /\ EarlyChannel)'
<1> USE SessionAssumption
    DEF IInv, TypeOK, ControlType, QueueType, HandlerStages, EarlyChannel,
        HandlerPcs, RendererPcs, queueVars
<1>0. \A op \in Opcodes : Plain(op) \in Instruction
  BY DEF Plain, Instruction
<1>1. CASE Handler
  <2>1. CASE SendHello \/ ReportFailure
    <3>1. PICK op \in {"uuid", "error"} : Send(Plain(op))
      BY <2>1 DEF SendHello, ReportFailure
    <3>2. Plain(op) \in Instruction
      BY <1>0 DEF Opcodes
    <3>3. /\ writeCh' \in Seq(Instruction) /\ Len(writeCh') <= Capacity
          /\ Len(writeCh') <= Len(writeCh) + 1
      <4>1. \/ UNCHANGED writeCh
            \/ Len(writeCh) < Capacity /\ writeCh' = Append(writeCh, Plain(op))
        BY <3>1 DEF Send
      <4>2. CASE UNCHANGED writeCh
        BY <4>2
      <4>3. CASE Len(writeCh) < Capacity /\ writeCh' = Append(writeCh, Plain(op))
        BY <3>2, <4>3, AppendProperties
      <4> QED BY <4>1, <4>2, <4>3
    <3>4. QueueType'
      BY <2>1, <3>3 DEF SendHello, ReportFailure
    <3> QED BY <2>1, <3>3, <3>4 DEF SendHello, ReportFailure
  <2>2. CASE SpawnRenderer
    BY <2>2, <1>0 DEF SpawnRenderer, Opcodes
  <2>3. CASE ~(SendHello \/ ReportFailure \/ SpawnRenderer)
    BY <1>1, <2>3 DEF Handler, Register, StartWorkers, Launch, CancelFailed, Wait, Remove
  <2> QED BY <2>1, <2>2, <2>3
<1>2. CASE Reader
  BY <1>2 DEF Reader, ReaderCheck, ReaderRead, ReaderFail, ReaderCancel, ReaderLeave
<1>3. CASE Writer
  <2>1. CASE WriterTake
    BY <2>1 DEF WriterTake
  <2>2. CASE WriterHeartbeat
    BY <2>2, <1>0 DEF WriterHeartbeat, Opcodes
  <2>3. CASE WriterWrite
    BY <2>3 DEF WriterWrite
  <2>4. CASE WriterStop \/ WriterFail \/ WriterLeave
    BY <2>4 DEF WriterStop, WriterFail, WriterLeave
  <2> QED BY <1>3, <2>1, <2>2, <2>3, <2>4 DEF Writer
<1>4. CASE Renderer
  <2>1. CASE RendererSend
    BY <2>1 DEF RendererSend
  <2>2. CASE SendErrorAndStop /\ renderer \in {"poll", "capture"}
    BY <2>2, <1>0 DEF SendErrorAndStop, Opcodes
  <2>3. ASSUME NEW b \in 1..MaxBlobs, CaptureFrame(b) PROVE (QueueType /\ EarlyChannel)'
    <3>1. frames' \in 0..MaxFrames /\ b \in Nat
      BY <2>3 DEF CaptureFrame
    <3>2. todo' \in Seq(Instruction) /\ todo' # <<>>
      BY <2>3, <3>1, FrameParts DEF CaptureFrame
    <3> QED BY <2>3, <3>1, <3>2 DEF CaptureFrame
  <2>4. CASE RendererCancelled \/ WindowFound \/ Disconnect \/ RendererLeave
    BY <2>4 DEF RendererCancelled, WindowFound, Disconnect, RendererLeave
  <2> QED BY <1>4, <2>1, <2>2, <2>3, <2>4 DEF Renderer, BackendExited, WindowTimeout
<1>5. CASE BackendDies \/ Reap
  BY <1>5 DEF BackendDies, Reap, serverVars
<1>6. CASE Client
  BY <1>6 DEF Client, ClientReceive, ClientSend, ClientLeave, serverVars
<1> QED BY <1>1, <1>2, <1>3, <1>4, <1>5, <1>6 DEF Next

\* The sockets hold what was written to them and the browser follows what it reads.
LEMMA PeerStep ==
  ASSUME IInv, Next
  PROVE  PeerType'
<1> USE SessionAssumption DEF IInv, TypeOK, QueueType, PeerType, peerVars
<1>1. CASE WriterWrite
  <2>1. down' \in Seq(Instruction) /\ Len(down') = Len(down) + Len(inHand)
    BY <1>1, ConcatProperties DEF WriterWrite
  <2> QED BY <1>1, <2>1 DEF WriterWrite
<1>2. CASE ReaderRead
  BY <1>2 DEF ReaderRead
<1>3. CASE ClientReceive
  <2>1. Head(down) \in Instruction /\ down' \in Seq(Instruction) /\ Len(down') <= SocketCap
    BY <1>3 DEF ClientReceive
  <2>2. client' \in [hello : BOOLEAN, open : 0..MaxFrames,
                    shown : 0..MaxFrames, failed : BOOLEAN]
    <3> DEFINE ins == Head(down)
    <3>1. client' = Received(client, ins) /\ ins.stream \in 0..MaxFrames
      BY <1>3, <2>1 DEF ClientReceive, Instruction
    <3> DEFINE hello  == client.hello \/ ins.op = "uuid"
               open   == CASE ins.op = "img" -> ins.stream
                           [] ins.op = "end" -> 0
                           [] OTHER -> client.open
               shown  == IF ins.op = "end" /\ client.open = ins.stream
                         THEN ins.stream ELSE client.shown
               failed == client.failed \/ ins.op = "error"
    <3>2. open \in 0..MaxFrames /\ shown \in 0..MaxFrames
      BY <3>1
    <3>3. hello \in BOOLEAN /\ failed \in BOOLEAN
      OBVIOUS
    <3>4. client' = [client EXCEPT !.hello = hello, !.open = open,
                                   !.shown = shown, !.failed = failed]
      BY <3>1 DEF Received
    <3> HIDE DEF hello, open, shown, failed
    <3> QED BY <3>2, <3>3, <3>4
  <2> QED BY <1>3, <2>1, <2>2 DEF ClientReceive
<1>4. CASE ClientLeave \/ \E op \in ClientOps : ClientSend(op)
  <2>1. UNCHANGED <<down, client>>
    BY <1>4 DEF ClientLeave, ClientSend
  <2>2. up' \in Seq(ClientOps) /\ Len(up') <= SocketCap
    <3>1. CASE ClientLeave
      BY <3>1 DEF ClientLeave
    <3>2. ASSUME NEW op \in ClientOps, ClientSend(op)
          PROVE  up' \in Seq(ClientOps) /\ Len(up') <= SocketCap
      <4>1. up' = Append(up, op) /\ Len(up) < SocketCap
        BY <3>2 DEF ClientSend
      <4> QED BY <4>1
    <3> QED BY <1>4, <3>1, <3>2
  <2> QED BY <2>1, <2>2
<1>5. CASE UNCHANGED <<down, up, client>>
  BY <1>5
<1>6. Next => \/ WriterWrite \/ ReaderRead \/ ClientReceive
              \/ ClientLeave \/ \E op \in ClientOps : ClientSend(op)
              \/ UNCHANGED <<down, up, client>>
  <2>1. Handler => UNCHANGED <<down, up, client>>
    BY DEF Handler, Register, StartWorkers, SendHello, Launch, ReportFailure,
           CancelFailed, SpawnRenderer, Wait, Remove
  <2>2. Reader => ReaderRead \/ UNCHANGED <<down, up, client>>
    BY DEF Reader, ReaderCheck, ReaderFail, ReaderCancel, ReaderLeave
  <2>3. Writer => WriterWrite \/ UNCHANGED <<down, up, client>>
    BY DEF Writer, WriterStop, WriterTake, WriterHeartbeat, WriterFail, WriterLeave
  <2>4. Renderer => UNCHANGED <<down, up, client>>
    BY DEF Renderer, RendererSend, RendererCancelled, SendErrorAndStop, BackendExited,
           WindowTimeout, WindowFound, CaptureFrame, Disconnect, RendererLeave
  <2> QED BY <2>1, <2>2, <2>3, <2>4 DEF Next, Client, BackendDies, Reap
<1> QED BY <1>1, <1>2, <1>3, <1>4, <1>5, <1>6

-----------------------------------------------------------------------------
(* What a step does to the instructions on their way                       *)

\* A sequence that is not empty is its head followed by its tail.
LEMMA HeadAndTail ==
  ASSUME NEW S, NEW s \in Seq(S), s # <<>>
  PROVE  /\ Head(s) \in S /\ Tail(s) \in Seq(S)
         /\ s = <<Head(s)>> \o Tail(s)
<1>1. Head(s) \in S /\ Tail(s) \in Seq(S) /\ Len(Tail(s)) = Len(s) - 1
      /\ \A i \in 1..Len(Tail(s)) : Tail(s)[i] = s[i + 1]
  BY HeadTailProperties
<1>2. <<Head(s)>> \in Seq(S) /\ Len(<<Head(s)>>) = 1 /\ <<Head(s)>>[1] = s[1]
  BY <1>1
<1> DEFINE t == <<Head(s)>> \o Tail(s)
<1>3. t \in Seq(S) /\ Len(t) = Len(s)
      /\ \A i \in 1..Len(s) : t[i] = IF i <= 1 THEN s[1] ELSE Tail(s)[i - 1]
  <2>1. Len(s) \in Nat
    BY LenProperties
  <2>2. /\ t \in Seq(S)
        /\ Len(t) = Len(<<Head(s)>>) + Len(Tail(s))
        /\ \A i \in 1..Len(<<Head(s)>>) + Len(Tail(s)) :
             t[i] = IF i <= Len(<<Head(s)>>) THEN <<Head(s)>>[i]
                    ELSE Tail(s)[i - Len(<<Head(s)>>)]
    <3> HIDE DEF t
    <3>1. t = <<Head(s)>> \o Tail(s)
      BY DEF t
    <3> QED BY <1>1, <1>2, <3>1, ConcatProperties
  <2> HIDE DEF t
  <2>3. Len(t) = Len(s)
    BY <1>1, <1>2, <2>1, <2>2
  <2>4. ASSUME NEW i \in 1..Len(s) PROVE t[i] = IF i <= 1 THEN s[1] ELSE Tail(s)[i - 1]
    BY <1>1, <1>2, <2>1, <2>2
  <2> QED BY <2>2, <2>3, <2>4
<1>4. Len(s) \in Nat
  BY LenProperties
<1> HIDE DEF t
<1>5. ASSUME NEW i \in 1..Len(s) PROVE t[i] = s[i]
  <2>1. CASE i = 1
    BY <2>1, <1>3, <1>4
  <2>2. CASE i # 1
    <3>1. i - 1 \in 1..Len(Tail(s)) /\ (i - 1) + 1 = i /\ ~(i <= 1)
      BY <2>2, <1>1, <1>4
    <3> QED BY <3>1, <1>1, <1>3
  <2> QED BY <2>1, <2>2
<1>6. t = s
  BY <1>3, <1>5, SeqEqual
<1> QED BY <1>1, <1>6 DEF t

\* ConcatAssociative, of instructions.
LEMMA Regroup ==
  \A r, s, t \in Seq(Instruction) : (r \o s) \o t = r \o (s \o t)
<1> SUFFICES ASSUME NEW r \in Seq(Instruction), NEW s \in Seq(Instruction),
                    NEW t \in Seq(Instruction)
             PROVE  (r \o s) \o t = r \o (s \o t)
  OBVIOUS
<1> QED BY ConcatAssociative, SMTT(30)

\* An element moved from the front of one part to the end of the part before
\* leaves the whole as it was.
LEMMA MoveOver ==
  ASSUME NEW S, NEW s \in Seq(S), NEW t \in Seq(S), t # <<>>
  PROVE  s \o t = Append(s, Head(t)) \o Tail(t)
<1>1. Head(t) \in S /\ Tail(t) \in Seq(S) /\ t = <<Head(t)>> \o Tail(t)
  BY HeadAndTail
<1>2. <<Head(t)>> \in Seq(S) /\ Append(s, Head(t)) = s \o <<Head(t)>>
  BY <1>1, AppendIsConcat
<1>3. (s \o <<Head(t)>>) \o Tail(t) = s \o (<<Head(t)>> \o Tail(t))
  BY <1>1, <1>2, ConcatAssociative
<1> QED BY <1>1, <1>2, <1>3

\* The first element of two sequences in a row, and what comes after it.
LEMMA FrontOfTwo ==
  ASSUME NEW S, NEW s \in Seq(S), s # <<>>, NEW t \in Seq(S)
  PROVE  /\ s \o t # <<>>
         /\ Head(s \o t) = Head(s)
         /\ Tail(s \o t) = Tail(s) \o t
<1> DEFINE h == Head(s)  w == s \o t  r == Tail(s) \o t
<1>1. h \in S /\ Tail(s) \in Seq(S) /\ s = <<h>> \o Tail(s)
  BY HeadAndTail
<1>2. w \in Seq(S) /\ r \in Seq(S) /\ <<h>> \in Seq(S) /\ Len(s) \in Nat \ {0}
      /\ Len(w) = Len(s) + Len(t) /\ Len(t) \in Nat
  BY <1>1, ConcatProperties, LenProperties, EmptySeq
<1>3. w = <<h>> \o r
  <2>1. (<<h>> \o Tail(s)) \o t = <<h>> \o (Tail(s) \o t)
    <3> HIDE DEF h
    <3> QED BY <1>1, <1>2, ConcatAssociative
  <2> QED BY <1>1, <2>1
<1> HIDE DEF h, w, r
<1>4. w # <<>>
  BY <1>2, EmptySeq
<1>5. Len(<<h>> \o r) = 1 + Len(r) /\ (<<h>> \o r)[1] = h
      /\ \A i \in 1..Len(r) : (<<h>> \o r)[i + 1] = r[i]
  <2>1. Len(r) \in Nat /\ Len(<<h>>) = 1 /\ <<h>>[1] = h
    BY <1>2, LenProperties
  <2>2. Len(<<h>> \o r) = Len(<<h>>) + Len(r)
        /\ \A i \in 1..Len(<<h>>) + Len(r) :
             (<<h>> \o r)[i] = IF i <= Len(<<h>>) THEN <<h>>[i] ELSE r[i - Len(<<h>>)]
    BY <1>2, ConcatProperties
  <2>3. (<<h>> \o r)[1] = h
    BY <2>1, <2>2
  <2>4. ASSUME NEW i \in 1..Len(r) PROVE (<<h>> \o r)[i + 1] = r[i]
    <3>1. i + 1 \in 1..Len(<<h>>) + Len(r) /\ ~(i + 1 <= 1) /\ (i + 1) - 1 = i
      BY <2>1
    <3> QED BY <2>1, <2>2, <3>1
  <2> QED BY <2>1, <2>2, <2>3, <2>4
<1>6. Tail(w) \in Seq(S) /\ Len(Tail(w)) = Len(w) - 1
      /\ \A i \in 1..Len(Tail(w)) : Tail(w)[i] = w[i + 1]
  BY <1>2, <1>4, HeadTailProperties
<1>7. Tail(w) = r
  <2>1. Len(Tail(w)) = Len(r) /\ Len(r) \in Nat
    BY <1>2, <1>3, <1>5, <1>6, LenProperties
  <2>2. \A i \in 1..Len(Tail(w)) : Tail(w)[i] = r[i]
    BY <1>3, <1>5, <1>6, <2>1
  <2> QED BY <1>2, <1>6, <2>1, <2>2, SeqEqual
<1>8. Head(w) = h
  BY <1>3, <1>5
<1> QED BY <1>4, <1>7, <1>8 DEF h, w, r

\* What is said is added to what is on its way; the browser has not heard it yet.
Says(s) == Pipeline' = Pipeline \o s /\ UNCHANGED client

\* A heartbeat is written before what waits in the channel.
Beats ==
  /\ \E u, v \in Seq(Instruction) : /\ Pipeline = u \o v
                                    /\ Pipeline' = (u \o <<Plain("nop")>>) \o v
  /\ UNCHANGED <<client, frames>>

\* The browser reads the oldest instruction.
Hears ==
  /\ Pipeline # <<>> /\ Pipeline' = Tail(Pipeline)
  /\ client' = Received(client, Head(Pipeline))
  /\ UNCHANGED frames

LEMMA PipelineType ==
  ASSUME IInv
  PROVE  /\ Pipeline \in Seq(Instruction)
         /\ down \o inHand \in Seq(Instruction)
         /\ down \o inHand \o writeCh \in Seq(Instruction)
BY ConcatProperties DEF IInv, TypeOK, QueueType, PeerType, Pipeline

\* Send adds at most the one instruction, or drops it.
LEMMA SendSays ==
  ASSUME IInv, NEW ins \in Instruction, Send(ins), todo = <<>>, UNCHANGED <<todo, inHand, peerVars>>
  PROVE  Says(<<ins>>) \/ UNCHANGED <<Pipeline, client>>
<1>1. UNCHANGED writeCh \/ writeCh' = Append(writeCh, ins)
  BY DEF Send
<1>2. CASE UNCHANGED writeCh
  BY <1>2 DEF Pipeline, peerVars
<1>3. CASE writeCh' = Append(writeCh, ins)
  <2> DEFINE x == down \o inHand
  <2>1. x \in Seq(Instruction) /\ writeCh \in Seq(Instruction) /\ <<ins>> \in Seq(Instruction)
        /\ x \o writeCh \in Seq(Instruction)
    BY PipelineType DEF IInv, TypeOK, QueueType
  <2>2. writeCh' = writeCh \o <<ins>>
    BY <1>3, <2>1, AppendIsConcat
  <2>3. Pipeline = x \o writeCh /\ Pipeline' = x \o writeCh' /\ UNCHANGED client
    <3>1. Pipeline = (x \o writeCh) \o <<>> /\ Pipeline' = (x \o writeCh') \o <<>>
      BY DEF Pipeline, peerVars
    <3>2. writeCh' \in Seq(Instruction)
      BY <2>1, <2>2, ConcatProperties
    <3>3. x \o writeCh' \in Seq(Instruction)
      <4> HIDE DEF x
      <4> QED BY <2>1, <3>2, ConcatProperties
    <3> HIDE DEF x
    <3>4. (x \o writeCh) \o <<>> = x \o writeCh /\ (x \o writeCh') \o <<>> = x \o writeCh'
      BY <2>1, <3>3, ConcatEmptySeq
    <3> QED BY <3>1, <3>4 DEF peerVars
  <2> HIDE DEF x
  <2>4. x \o (writeCh \o <<ins>>) = (x \o writeCh) \o <<ins>>
    BY <2>1, ConcatAssociative
  <2> QED BY <2>2, <2>3, <2>4 DEF Says
<1> QED BY <1>1, <1>2, <1>3

\* The renderer's next instructions are said when it takes them up.
LEMMA TodoSays ==
  ASSUME IInv, todo = <<>>, NEW s \in Seq(Instruction), todo' = s,
         UNCHANGED <<writeCh, inHand, peerVars>>
  PROVE  Says(s)
<1> DEFINE x == down \o inHand \o writeCh
<1>1. x \in Seq(Instruction) /\ Pipeline = x \o <<>> /\ Pipeline' = x \o s
  BY PipelineType DEF Pipeline, peerVars
<1> HIDE DEF x
<1>2. Pipeline = x
  BY <1>1, ConcatEmptySeq
<1> QED BY <1>1, <1>2 DEF Says, peerVars

\* The writer and the renderer move instructions on without changing what is on
\* its way, nor their order.
LEMMA MovesKeep ==
  ASSUME IInv, WriterTake \/ WriterWrite \/ RendererSend
  PROVE  UNCHANGED <<Pipeline, client, frames>>
<1> USE DEF peerVars
<1>1. /\ down \in Seq(Instruction) /\ inHand \in Seq(Instruction)
      /\ writeCh \in Seq(Instruction) /\ todo \in Seq(Instruction)
      /\ down \o inHand \in Seq(Instruction) /\ (down \o inHand) \o writeCh \in Seq(Instruction)
  BY PipelineType DEF IInv, TypeOK, QueueType, PeerType
<1>2. CASE WriterTake
  <2>1. inHand = <<>> /\ inHand' = <<Head(writeCh)>> /\ writeCh # <<>>
        /\ writeCh' = Tail(writeCh) /\ UNCHANGED <<down, todo, client, frames>>
    BY <1>2 DEF WriterTake, IInv, HandsEmpty
  <2>2. Head(writeCh) \in Instruction
    BY <1>1, <2>1, HeadAndTail
  <2>3. down \o inHand = down /\ down \o inHand' = Append(down, Head(writeCh))
    BY <1>1, <2>1, <2>2, ConcatEmptySeq, AppendIsConcat
  <2>4. down \o writeCh = Append(down, Head(writeCh)) \o Tail(writeCh)
    BY <1>1, <2>1, MoveOver
  <2> QED BY <2>1, <2>3, <2>4 DEF Pipeline
<1>3. CASE WriterWrite
  <2>1. down' = down \o inHand /\ inHand' = <<>>
        /\ UNCHANGED <<writeCh, todo, client, frames>>
    BY <1>3 DEF WriterWrite
  <2>2. (down \o inHand) \o <<>> = down \o inHand
    BY <1>1, ConcatEmptySeq
  <2> QED BY <2>1, <2>2 DEF Pipeline
<1>4. CASE RendererSend
  <2>1. todo # <<>> /\ writeCh' = Append(writeCh, Head(todo)) /\ todo' = Tail(todo)
        /\ UNCHANGED <<down, inHand, client, frames>>
    BY <1>4 DEF RendererSend, IInv, TypeOK, QueueType
  <2> DEFINE x == down \o inHand
  <2>2. Tail(todo) \in Seq(Instruction) /\ writeCh' \in Seq(Instruction)
    BY <1>1, <2>1, HeadAndTail, AppendProperties
  <2>3. writeCh \o todo = writeCh' \o Tail(todo)
    BY <1>1, <2>1, MoveOver
  <2>4. Pipeline = (x \o writeCh) \o todo /\ Pipeline' = (x \o writeCh') \o todo'
    BY <2>1 DEF Pipeline
  <2>5. x \in Seq(Instruction)
    BY <1>1
  <2> HIDE DEF x
  <2>6. (x \o writeCh) \o todo = x \o (writeCh \o todo)
    BY <1>1, <2>5, Regroup, SMTT(30)
  <2>7. (x \o writeCh') \o Tail(todo) = x \o (writeCh' \o Tail(todo))
    BY <2>2, <2>5, Regroup, SMTT(30)
  <2> QED BY <2>1, <2>4, <2>6, <2>7, <2>3
<1> QED BY <1>2, <1>3, <1>4

\* A heartbeat is put before the channel.
LEMMA HeartbeatBeats == ASSUME IInv, WriterHeartbeat PROVE Beats
<1> DEFINE beat == <<Plain("nop")>>
<1>1. /\ down \in Seq(Instruction) /\ writeCh \in Seq(Instruction)
      /\ todo \in Seq(Instruction) /\ beat \in Seq(Instruction)
  BY SessionAssumption DEF IInv, TypeOK, QueueType, PeerType, Plain, Instruction, Opcodes
<1>2. inHand = <<>> /\ inHand' = beat /\ UNCHANGED <<down, writeCh, todo, client, frames>>
  BY DEF WriterHeartbeat, IInv, HandsEmpty, peerVars
<1>3. Pipeline = ((down \o <<>>) \o writeCh) \o todo
      /\ Pipeline' = ((down \o beat) \o writeCh) \o todo
  BY <1>2 DEF Pipeline
<1> HIDE DEF beat
<1>4. down \o <<>> = down /\ down \o beat \in Seq(Instruction)
      /\ writeCh \o todo \in Seq(Instruction)
  BY <1>1, ConcatEmptySeq, ConcatProperties
<1>5. (down \o writeCh) \o todo = down \o (writeCh \o todo)
  BY <1>1, Regroup, SMTT(30)
<1>6. ((down \o beat) \o writeCh) \o todo = (down \o beat) \o (writeCh \o todo)
  <2> DEFINE x == down \o beat
  <2>1. x \in Seq(Instruction)
    BY <1>4
  <2> HIDE DEF x
  <2>2. writeCh \in Seq(Instruction) /\ todo \in Seq(Instruction)
    BY <1>1
  <2>3. (x \o writeCh) \o todo = x \o (writeCh \o todo)
    BY <2>1, <2>2, Regroup, SMTT(30)
  <2> QED BY <2>3 DEF x
<1> QED BY <1>1, <1>2, <1>3, <1>4, <1>5, <1>6 DEF Beats, beat

\* The browser reads from the front of what is on its way.
LEMMA ReceiveHears == ASSUME IInv, ClientReceive PROVE Hears
<1> DEFINE rest == inHand \o (writeCh \o todo)
<1>1. /\ down \in Seq(Instruction) /\ inHand \in Seq(Instruction)
      /\ writeCh \in Seq(Instruction) /\ todo \in Seq(Instruction)
      /\ rest \in Seq(Instruction)
  BY ConcatProperties DEF IInv, TypeOK, QueueType, PeerType
<1>2. down # <<>> /\ down' = Tail(down) /\ client' = Received(client, Head(down))
      /\ UNCHANGED <<inHand, writeCh, todo, frames>>
  BY DEF ClientReceive, queueVars
<1>3. Tail(down) \in Seq(Instruction)
  BY <1>1, <1>2, HeadAndTail
<1>4. \A d \in Seq(Instruction) : ((d \o inHand) \o writeCh) \o todo = d \o rest
  <2> TAKE d \in Seq(Instruction)
  <2> DEFINE x == d \o inHand  y == writeCh \o todo
  <2>1. x \in Seq(Instruction) /\ y \in Seq(Instruction)
    BY <1>1, ConcatProperties
  <2>2. (d \o inHand) \o y = d \o (inHand \o y)
    <3> HIDE DEF y
    <3> QED BY <1>1, <2>1, Regroup, SMTT(30)
  <2> HIDE DEF x
  <2>3. (x \o writeCh) \o todo = x \o (writeCh \o todo)
    BY <1>1, <2>1, Regroup, SMTT(30)
  <2> QED BY <2>2, <2>3 DEF x
<1>5. Pipeline = down \o rest /\ Pipeline' = Tail(down) \o rest
  BY <1>1, <1>2, <1>3, <1>4 DEF Pipeline
<1> HIDE DEF rest
<1> QED BY <1>1, <1>2, <1>5, FrontOfTwo DEF Hears

\* What every step does to the instructions on their way: somebody says
\* something, a heartbeat is put in, the browser reads, or nothing changes.
LEMMA PipelineStep ==
  ASSUME IInv, Next
  PROVE  \/ SendHello /\ Says(<<Plain("uuid")>>)
         \/ ReportFailure /\ Says(<<Plain("error")>>)
         \/ SpawnRenderer /\ Says(<<Plain("size")>>)
         \/ /\ renderer \in {"poll", "capture"} /\ SendErrorAndStop
            /\ Says(<<Plain("error")>>)
         \/ \E b \in 1..MaxBlobs :
              CaptureFrame(b) /\ Says(FrameInstructions(frames + 1, b))
         \/ WriterHeartbeat /\ Beats
         \/ ClientReceive /\ Hears
         \/ UNCHANGED <<Pipeline, client, frames>>
<1>0. \A op \in Opcodes : Plain(op) \in Instruction /\ <<Plain(op)>> \in Seq(Instruction)
  BY SessionAssumption DEF Plain, Instruction
<1>1. UNCHANGED <<down, inHand, writeCh, todo, client, frames>>
        => UNCHANGED <<Pipeline, client, frames>>
  BY DEF Pipeline
<1>2. CASE Handler
  <2>1. CASE SendHello \/ ReportFailure
    <3>1. todo = <<>> /\ UNCHANGED <<todo, inHand, frames, peerVars>>
      BY <2>1 DEF SendHello, ReportFailure, IInv, HandlerStages, HandsEmpty
    <3>2. CASE SendHello
      BY <1>0, <3>1, <3>2, SendSays DEF SendHello, Opcodes
    <3>3. CASE ReportFailure
      BY <1>0, <3>1, <3>3, SendSays DEF ReportFailure, Opcodes
    <3> QED BY <2>1, <3>2, <3>3
  <2>2. CASE SpawnRenderer
    <3>1. todo = <<>> /\ todo' = <<Plain("size")>> /\ UNCHANGED <<writeCh, inHand, peerVars>>
      BY <2>2 DEF SpawnRenderer, IInv, HandlerStages, HandsEmpty
    <3> QED BY <1>0, <2>2, <3>1, TodoSays DEF Opcodes
  <2>3. CASE Register \/ StartWorkers \/ Launch \/ CancelFailed \/ Wait \/ Remove
    BY <1>1, <2>3 DEF Register, StartWorkers, Launch, CancelFailed, Wait, Remove,
                      queueVars, peerVars
  <2> QED BY <1>2, <2>1, <2>2, <2>3 DEF Handler
<1>3. CASE Reader
  BY <1>1, <1>3 DEF Reader, ReaderCheck, ReaderRead, ReaderFail, ReaderCancel, ReaderLeave,
                    queueVars, peerVars
<1>4. CASE Writer
  <2>1. CASE WriterTake \/ WriterWrite
    BY <2>1, MovesKeep
  <2>2. CASE WriterHeartbeat
    BY <2>2, HeartbeatBeats
  <2>3. CASE WriterStop \/ WriterFail \/ WriterLeave
    BY <1>1, <2>3 DEF WriterStop, WriterFail, WriterLeave, queueVars, peerVars
  <2> QED BY <1>4, <2>1, <2>2, <2>3 DEF Writer
<1>5. CASE Renderer
  <2>1. CASE RendererSend
    BY <2>1, MovesKeep
  <2>2. CASE renderer \in {"poll", "capture"} /\ SendErrorAndStop
    <3>1. todo = <<>> /\ todo' = <<Plain("error")>> /\ UNCHANGED <<writeCh, inHand, peerVars>>
      BY <2>2 DEF SendErrorAndStop, IInv, HandsEmpty
    <3> QED BY <1>0, <2>2, <3>1, TodoSays DEF Opcodes
  <2>3. ASSUME NEW b \in 1..MaxBlobs, CaptureFrame(b)
        PROVE  Says(FrameInstructions(frames + 1, b))
    <3>1. todo = <<>> /\ todo' = FrameInstructions(frames + 1, b)
          /\ UNCHANGED <<writeCh, inHand, peerVars>>
      BY <2>3 DEF CaptureFrame, IInv, HandsEmpty
    <3>2. frames + 1 \in 0..MaxFrames /\ b \in Nat
      BY <2>3, SessionAssumption DEF CaptureFrame, IInv, TypeOK, QueueType
    <3>3. FrameInstructions(frames + 1, b) \in Seq(Instruction)
      BY <3>2, FrameParts
    <3> QED BY <3>1, <3>3, TodoSays
  <2>4. CASE RendererCancelled \/ WindowFound \/ Disconnect \/ RendererLeave
    BY <1>1, <2>4 DEF RendererCancelled, WindowFound, Disconnect, RendererLeave,
                      queueVars, peerVars
  <2> QED BY <1>5, <2>1, <2>2, <2>3, <2>4 DEF Renderer, BackendExited, WindowTimeout
<1>6. CASE BackendDies \/ Reap
  BY <1>1, <1>6 DEF BackendDies, Reap, queueVars, peerVars
<1>7. CASE Client
  <2>1. CASE ClientReceive
    BY <2>1, ReceiveHears
  <2>2. CASE ClientLeave \/ \E op \in ClientOps : ClientSend(op)
    BY <1>1, <2>2 DEF ClientLeave, ClientSend, queueVars
  <2> QED BY <1>7, <2>1, <2>2 DEF Client
<1> QED BY <1>2, <1>3, <1>4, <1>5, <1>6, <1>7 DEF Next

\* A goroutine that has sent all it had to holds nothing.
LEMMA HandsStep ==
  ASSUME IInv, Next
  PROVE  HandsEmpty'
<1> USE DEF IInv, TypeOK, ControlType, QueueType, HandsEmpty, HandlerStages,
            HandlerPcs, WriterPcs, RendererPcs, queueVars, serverVars
<1>1. CASE Handler
  BY <1>1 DEF Handler, Register, StartWorkers, SendHello, Launch, ReportFailure,
              CancelFailed, SpawnRenderer, Wait, Remove
<1>2. CASE Reader
  BY <1>2 DEF Reader, ReaderCheck, ReaderRead, ReaderFail, ReaderCancel, ReaderLeave
<1>3. CASE Writer
  BY <1>3 DEF Writer, WriterStop, WriterTake, WriterHeartbeat, WriterWrite,
              WriterFail, WriterLeave
<1>4. CASE Renderer
  <2>1. CASE RendererSend
    BY <2>1 DEF RendererSend
  <2>2. CASE ~RendererSend
    BY <1>4, <2>2 DEF Renderer, RendererCancelled, SendErrorAndStop, BackendExited,
                WindowTimeout, WindowFound, CaptureFrame, Disconnect, RendererLeave
  <2> QED BY <2>1, <2>2
<1>5. CASE BackendDies \/ Reap
  BY <1>5 DEF BackendDies, Reap
<1>6. CASE Client
  BY <1>6 DEF Client, ClientReceive, ClientSend, ClientLeave
<1> QED BY <1>1, <1>2, <1>3, <1>4, <1>5, <1>6 DEF Next

\* What two sequences say in a row.
LEMMA OpsOfTwo ==
  ASSUME NEW s \in Seq(Instruction), NEW t \in Seq(Instruction)
  PROVE  Ops(s \o t) = Ops(s) \cup Ops(t)
<1> DEFINE w == s \o t
<1>1. /\ Len(s) \in Nat /\ DOMAIN s = 1..Len(s) /\ Len(t) \in Nat /\ DOMAIN t = 1..Len(t)
      /\ DOMAIN w = 1..(Len(s) + Len(t))
      /\ \A i \in 1..Len(s) + Len(t) : w[i] = IF i <= Len(s) THEN s[i] ELSE t[i - Len(s)]
  BY ConcatProperties, LenProperties
<1> HIDE DEF w
<1>2. ASSUME NEW i \in DOMAIN w PROVE w[i].op \in Ops(s) \cup Ops(t)
  <2>1. CASE i <= Len(s)
    <3>1. i \in DOMAIN s /\ w[i] = s[i]
      BY <1>1, <2>1
    <3> QED BY <3>1 DEF Ops
  <2>2. CASE ~(i <= Len(s))
    <3>1. i - Len(s) \in DOMAIN t /\ w[i] = t[i - Len(s)]
      BY <1>1, <2>2
    <3> QED BY <3>1 DEF Ops
  <2> QED BY <2>1, <2>2
<1>3. ASSUME NEW i \in DOMAIN s PROVE s[i].op \in Ops(w)
  <2>1. i \in DOMAIN w /\ w[i] = s[i]
    BY <1>1
  <2> QED BY <2>1 DEF Ops
<1>4. ASSUME NEW i \in DOMAIN t PROVE t[i].op \in Ops(w)
  <2>1. i + Len(s) \in DOMAIN w /\ ~(i + Len(s) <= Len(s)) /\ (i + Len(s)) - Len(s) = i
    BY <1>1
  <2>2. w[i + Len(s)] = t[i]
    BY <1>1, <2>1
  <2> QED BY <2>1, <2>2 DEF Ops
<1>5. Ops(w) \subseteq Ops(s) \cup Ops(t)
  BY <1>2 DEF Ops
<1>6. Ops(s) \subseteq Ops(w) /\ Ops(t) \subseteq Ops(w)
  BY <1>3, <1>4 DEF Ops
<1> QED BY <1>5, <1>6 DEF w

\* What one instruction says.
LEMMA OpsOfOne ==
  ASSUME NEW ins
  PROVE  Ops(<<ins>>) = {ins.op}
<1>1. DOMAIN <<ins>> = {1} /\ <<ins>>[1] = ins
  OBVIOUS
<1> QED BY <1>1 DEF Ops

\* What is left says nothing new.
LEMMA OpsOfTail ==
  ASSUME NEW s \in Seq(Instruction), s # <<>>
  PROVE  Ops(Tail(s)) \subseteq Ops(s) /\ Head(s).op \in Ops(s)
<1>1. <<Head(s)>> \in Seq(Instruction) /\ Tail(s) \in Seq(Instruction)
      /\ s = <<Head(s)>> \o Tail(s)
  BY HeadAndTail
<1>2. Ops(s) = Ops(<<Head(s)>>) \cup Ops(Tail(s))
  BY <1>1, OpsOfTwo
<1> QED BY <1>2, OpsOfOne

\* A frame has nothing but parts of pictures and a sync to say.
LEMMA FrameOps ==
  ASSUME NEW n \in 0..MaxFrames, NEW b \in Nat
  PROVE  Ops(FrameInstructions(n, b)) \subseteq {"img", "blob", "end", "sync"}
<1> DEFINE frame == FrameInstructions(n, b)
<1>1. frame \in Seq(Instruction) /\ DOMAIN frame = 1..(b + 3)
      /\ frame[1] = Part("img", n) /\ (\A i \in 2..(b + 1) : frame[i] = Part("blob", n))
      /\ frame[b + 2] = Part("end", n) /\ frame[b + 3] = Plain("sync")
  BY FrameParts, LenProperties
<1> HIDE DEF frame
<1>2. ASSUME NEW i \in 1..(b + 3) PROVE frame[i].op \in {"img", "blob", "end", "sync"}
  <2>1. i = 1 \/ i \in 2..(b + 1) \/ i = b + 2 \/ i = b + 3
    OBVIOUS
  <2> QED BY <1>1, <2>1 DEF Part, Plain
<1>3. Ops(frame) \subseteq {"img", "blob", "end", "sync"}
  BY <1>1, <1>2 DEF Ops
<1> QED BY <1>3 DEF frame

\* A heartbeat adds nothing but itself.
LEMMA BeatsOps ==
  ASSUME Beats
  PROVE  Ops(Pipeline') = Ops(Pipeline) \cup {"nop"}
<1>1. PICK u, v \in Seq(Instruction) :
        Pipeline = u \o v /\ Pipeline' = (u \o <<Plain("nop")>>) \o v
  BY DEF Beats
<1>2. <<Plain("nop")>> \in Seq(Instruction) /\ Ops(<<Plain("nop")>>) = {"nop"}
  BY OpsOfOne, SessionAssumption DEF Plain, Instruction, Opcodes
<1> DEFINE w == u \o <<Plain("nop")>>
<1>3. w \in Seq(Instruction) /\ Ops(w) = Ops(u) \cup {"nop"}
  BY <1>2, ConcatProperties, OpsOfTwo
<1> HIDE DEF w
<1>4. Ops(w \o v) = Ops(w) \cup Ops(v) /\ Ops(u \o v) = Ops(u) \cup Ops(v)
  BY <1>3, OpsOfTwo
<1> QED BY <1>1, <1>3, <1>4 DEF w

\* What is said is in addition to what was on its way.
LEMMA SaysOps ==
  ASSUME IInv, NEW s \in Seq(Instruction), Says(s)
  PROVE  Ops(Pipeline') = Ops(Pipeline) \cup Ops(s)
BY PipelineType, OpsOfTwo DEF Says

\* The goroutines only move forward: nobody who has stopped speaking resumes.
LEMMA StageStep ==
  ASSUME IInv, Next
  PROVE  /\ handler' \in {"create", "start", "hello"}
              => handler \in {"create", "start", "hello"}
         /\ handler' \in {"launch", "report", "spawn"}
              => handler \in {"hello", "launch", "report", "spawn"}
         /\ MayStillSpeak' => MayStillSpeak
<1> USE DEF IInv, TypeOK, ControlType, QueueType, HandlerStages, MayStillSpeak,
            HandlerPcs, WriterPcs, RendererPcs, queueVars, serverVars
<1>1. CASE Handler
  BY <1>1 DEF Handler, Register, StartWorkers, SendHello, Launch, ReportFailure,
              CancelFailed, SpawnRenderer, Wait, Remove
<1>2. CASE Reader
  BY <1>2 DEF Reader, ReaderCheck, ReaderRead, ReaderFail, ReaderCancel, ReaderLeave
<1>3. CASE Writer
  BY <1>3 DEF Writer, WriterStop, WriterTake, WriterHeartbeat, WriterWrite,
              WriterFail, WriterLeave
<1>4. CASE Renderer
  BY <1>4 DEF Renderer, RendererSend, RendererCancelled, SendErrorAndStop, BackendExited,
              WindowTimeout, WindowFound, CaptureFrame, Disconnect, RendererLeave
<1>5. CASE BackendDies \/ Reap
  BY <1>5 DEF BackendDies, Reap
<1>6. CASE Client
  BY <1>6 DEF Client, ClientReceive, ClientSend, ClientLeave
<1> QED BY <1>1, <1>2, <1>3, <1>4, <1>5, <1>6 DEF Next

\* Before the browser is told it knows of no error.
LEMMA SpokenStep ==
  ASSUME IInv, Next
  PROVE  Spoken'
<1> USE DEF Spoken
<1>0. Spoken /\ PeerType
  BY DEF IInv, TypeOK
<1>1. ASSUME NEW op \in Opcodes
      PROVE  <<Plain(op)>> \in Seq(Instruction) /\ Ops(<<Plain(op)>>) = {op}
  BY OpsOfOne, SessionAssumption DEF Plain, Instruction
<1>2. CASE SendHello /\ Says(<<Plain("uuid")>>)
  <2>1. Ops(Pipeline') = Ops(Pipeline) \cup {"uuid"} /\ UNCHANGED client
    BY <1>1, <1>2, SaysOps DEF Opcodes, Says
  <2>2. handler = "hello" /\ handler' = "launch"
    BY <1>2 DEF SendHello
  <2> QED BY <1>0, <2>1, <2>2 DEF MayStillSpeak
<1>3. CASE ReportFailure /\ Says(<<Plain("error")>>)
  BY <1>3 DEF ReportFailure, MayStillSpeak, IInv, HandlerStages
<1>4. CASE SpawnRenderer /\ Says(<<Plain("size")>>)
  <2>1. Ops(Pipeline') = Ops(Pipeline) \cup {"size"} /\ UNCHANGED client
    BY <1>1, <1>4, SaysOps DEF Opcodes, Says
  <2>2. handler = "spawn" /\ handler' = "wait"
    BY <1>4 DEF SpawnRenderer
  <2> QED BY <1>0, <2>1, <2>2 DEF MayStillSpeak
<1>5. CASE renderer \in {"poll", "capture"} /\ SendErrorAndStop
  BY <1>5 DEF SendErrorAndStop, MayStillSpeak, IInv, HandlerStages
<1>6. ASSUME NEW b \in 1..MaxBlobs, CaptureFrame(b), Says(FrameInstructions(frames + 1, b))
      PROVE  Spoken'
  <2>1. frames + 1 \in 0..MaxFrames /\ b \in Nat
    BY <1>6, SessionAssumption DEF CaptureFrame, IInv, TypeOK, QueueType
  <2> DEFINE s == FrameInstructions(frames + 1, b)
  <2>2. s \in Seq(Instruction) /\ Ops(s) \subseteq {"img", "blob", "end", "sync"} /\ Says(s)
    BY <1>6, <2>1, FrameParts, FrameOps
  <2> HIDE DEF s
  <2>3. Ops(Pipeline') \subseteq Ops(Pipeline) \cup {"img", "blob", "end", "sync"}
        /\ UNCHANGED client
    BY <2>2, SaysOps DEF Says
  <2>4. renderer = "capture" /\ UNCHANGED handler
        /\ handler \notin {"create", "start", "hello", "launch", "report", "spawn"}
    BY <1>6 DEF CaptureFrame, IInv, HandlerStages
  <2> QED BY <1>0, <2>3, <2>4 DEF MayStillSpeak
<1>7. CASE Beats
  <2>1. Ops(Pipeline') = Ops(Pipeline) \cup {"nop"} /\ UNCHANGED client
    BY <1>7, BeatsOps DEF Beats
  <2> QED BY <1>0, <2>1, StageStep
<1>8. CASE Hears
  <2>1. Ops(Pipeline') \subseteq Ops(Pipeline) /\ Head(Pipeline).op \in Ops(Pipeline)
    BY <1>8, PipelineType, OpsOfTail DEF Hears
  <2>2. "error" \notin Ops(Pipeline) => client'.failed = client.failed
    <3>1. client' = Received(client, Head(Pipeline))
      BY <1>8 DEF Hears
    <3>2. client.failed \in BOOLEAN /\ client'.failed = (client.failed \/ Head(Pipeline).op = "error")
      BY <1>0, <3>1 DEF PeerType, Received
    <3> QED BY <2>1, <3>2
  <2> QED BY <1>0, <2>1, <2>2, StageStep
<1>9. CASE UNCHANGED <<Pipeline, client, frames>>
  <2>1. Ops(Pipeline') = Ops(Pipeline) /\ UNCHANGED client
    BY <1>9
  <2> QED BY <1>0, <2>1, StageStep
<1> QED BY <1>2, <1>3, <1>4, <1>5, <1>6, <1>7, <1>8, <1>9, PipelineStep

LEMMA Inductive == IInv /\ [Next]_vars => IInv'
<1>1. CASE IInv /\ Next
  BY <1>1, ControlStep, FlagStep, QueueStep, PeerStep, HandsStep, SpokenStep
     DEF IInv, TypeOK
<1>2. CASE IInv /\ UNCHANGED vars
  BY <1>2 DEF vars, serverVars, queueVars, peerVars, IInv, TypeOK, ControlType, FlagType,
      QueueType, PeerType, WorkersCounted, HandlerStages, HandlerHolds, ProcessWatched,
      EarlyChannel, HandsEmpty, Spoken, Pipeline, MayStillSpeak
<1> QED BY <1>1, <1>2

\* IInv is an invariant of every session.
THEOREM InvariantHolds == Spec => []IInv
BY InitIInv, Inductive, PTL DEF Spec

\* Every goroutine stays at one of its points and no queue grows beyond its
\* capacity.
THEOREM TypeCorrect == Spec => []TypeOK
<1>1. IInv => TypeOK
  BY DEF IInv
<1> QED BY <1>1, InvariantHolds, PTL

\* ServeHTTP removes a session only when none of its workers runs.
THEOREM TeardownSafe == Spec => []TeardownAfterWorkers
<1>1. IInv => TeardownAfterWorkers
  BY DEF IInv, TypeOK, ControlType, WorkersCounted, Counted, HandlerStages,
         TeardownAfterWorkers, LiveWorkers, Workers, WorkerPc
<1> QED BY <1>1, InvariantHolds, PTL

\* No RDP client process survives its session.
THEOREM NoOrphans == Spec => []NoOrphanBackend
<1>1. IInv => NoOrphanBackend
  BY DEF IInv, TypeOK, ControlType, WorkersCounted, Counted, HandlerStages, ProcessWatched,
         NoOrphanBackend
<1> QED BY <1>1, InvariantHolds, PTL

\* With room for two instructions Send never drops the session's identifier or
\* its connect error (the code has room for a hundred).
THEOREM ControlNeverDropped ==
  ASSUME Capacity >= 2
  PROVE  Spec => []ControlFindsRoom
<1>1. IInv => ControlFindsRoom
  BY SessionAssumption DEF IInv, TypeOK, QueueType, EarlyChannel, ControlFindsRoom
<1> QED BY <1>1, InvariantHolds, PTL

-----------------------------------------------------------------------------
(* The order of the conversation                                           *)

\* Two sequences in a row are in order when each is and all of the first may
\* come before all of the second.
LEMMA InOrderOfTwo ==
  ASSUME NEW s \in Seq(Instruction), NEW t \in Seq(Instruction)
  PROVE  InOrder(s \o t) <=> /\ InOrder(s) /\ InOrder(t)
                             /\ \A x \in Ops(s), y \in Ops(t) : Precedes(x, y)
<1> DEFINE w == s \o t
           n == Len(s)  m == Len(t)
<1>1. /\ n \in Nat /\ DOMAIN s = 1..n /\ m \in Nat /\ DOMAIN t = 1..m
      /\ DOMAIN w = 1..(n + m)
      /\ \A i \in 1..(n + m) : w[i] = IF i <= n THEN s[i] ELSE t[i - n]
  BY ConcatProperties, LenProperties
<1> HIDE DEF w, n, m
<1>2. /\ \A i \in 1..n : i \in DOMAIN w /\ w[i] = s[i]
      /\ \A i \in 1..m : i + n \in DOMAIN w /\ w[i + n] = t[i]
      /\ \A i \in DOMAIN w : i \in 1..n \/ (i - n \in 1..m /\ w[i] = t[i - n])
  <2>1. \A i \in 1..m : i + n \in 1..(n + m) /\ ~(i + n <= n) /\ (i + n) - n = i
    BY <1>1
  <2>2. \A i \in 1..m : w[i + n] = t[i]
    BY <1>1, <2>1
  <2> QED BY <1>1, <2>1, <2>2
<1>3. ASSUME InOrder(w)
      PROVE  /\ InOrder(s) /\ InOrder(t)
             /\ \A x \in Ops(s), y \in Ops(t) : Precedes(x, y)
  <2>1. InOrder(s)
    BY <1>1, <1>2, <1>3 DEF InOrder
  <2>2. ASSUME NEW i \in 1..m, NEW j \in 1..m, i < j PROVE Precedes(t[i].op, t[j].op)
    <3>1. i + n < j + n
      BY <1>1, <2>2
    <3> QED BY <1>2, <1>3, <3>1 DEF InOrder
  <2>3. ASSUME NEW i \in 1..n, NEW j \in 1..m PROVE Precedes(s[i].op, t[j].op)
    <3>1. i < j + n
      BY <1>1
    <3> QED BY <1>2, <1>3, <3>1 DEF InOrder
  <2> QED BY <1>1, <2>1, <2>2, <2>3 DEF InOrder, Ops
<1>4. ASSUME InOrder(s), InOrder(t), \A x \in Ops(s), y \in Ops(t) : Precedes(x, y)
      PROVE  InOrder(w)
  <2> SUFFICES ASSUME NEW i \in DOMAIN w, NEW j \in DOMAIN w, i < j
               PROVE  Precedes(w[i].op, w[j].op)
    BY DEF InOrder
  <2>1. CASE i \in 1..n /\ j \in 1..n
    BY <1>1, <1>2, <1>4, <2>1 DEF InOrder
  <2>2. CASE i \in 1..n /\ j \notin 1..n
    <3>1. w[i].op \in Ops(s)
      BY <1>1, <1>2, <2>2 DEF Ops
    <3>2. w[j].op \in Ops(t)
      BY <1>1, <1>2, <2>2 DEF Ops
    <3> QED BY <1>4, <3>1, <3>2
  <2>3. CASE i \notin 1..n
    <3>1. i - n \in 1..m /\ w[i] = t[i - n]
      BY <1>2, <2>3
    <3>2. j \notin 1..n /\ i - n < j - n
      BY <1>1, <2>3
    <3>3. j - n \in 1..m /\ w[j] = t[j - n]
      BY <1>2, <3>2
    <3> QED BY <1>1, <1>4, <3>1, <3>2, <3>3 DEF InOrder
  <2> QED BY <2>1, <2>2, <2>3
<1> QED BY <1>3, <1>4 DEF w

\* One instruction is in order.
LEMMA InOrderOfOne == ASSUME NEW ins PROVE InOrder(<<ins>>)
<1>1. DOMAIN <<ins>> = {1}
  OBVIOUS
<1> QED BY <1>1 DEF InOrder

\* All instructions of a frame are of one rank.
LEMMA InOrderOfFrame ==
  ASSUME NEW n \in 0..MaxFrames, NEW b \in Nat
  PROVE  InOrder(FrameInstructions(n, b))
<1> DEFINE frame == FrameInstructions(n, b)
<1>1. \A i \in DOMAIN frame : frame[i].op \in {"img", "blob", "end", "sync"}
  BY FrameOps DEF Ops
<1>2. \A x, y \in {"img", "blob", "end", "sync"} : Precedes(x, y)
  BY DEF Precedes, Rank
<1> HIDE DEF frame
<1>3. InOrder(frame)
  BY <1>1, <1>2 DEF InOrder
<1> QED BY <1>3 DEF frame

\* An instruction sequence speaks in opcodes.
LEMMA OpsType == ASSUME NEW s \in Seq(Instruction) PROVE Ops(s) \subseteq Opcodes
<1>1. \A i \in DOMAIN s : s[i] \in Instruction
  BY LenProperties, ElementOfSeq
<1> QED BY <1>1 DEF Ops, Instruction

\* Whoever says something says it in its turn.
LEMMA SaysInOrder ==
  ASSUME IInv, ConversationOrder, NEW s \in Seq(Instruction), Says(s), InOrder(s),
         ~client.failed, \A x \in Ops(Pipeline), y \in Ops(s) : Precedes(x, y)
  PROVE  ConversationOrder'
<1>1. InOrder(Pipeline \o s)
  BY PipelineType, InOrderOfTwo DEF ConversationOrder
<1> QED BY <1>1 DEF ConversationOrder, Says

LEMMA ConversationStep ==
  ASSUME IInv, ConversationOrder, Next
  PROVE  ConversationOrder'
<1>0. /\ Spoken /\ PeerType /\ Pipeline \in Seq(Instruction) /\ Ops(Pipeline) \subseteq Opcodes
      /\ InOrder(Pipeline) /\ (client.failed => Ops(Pipeline) \subseteq {"nop"})
  BY PipelineType, OpsType DEF IInv, TypeOK, ConversationOrder
<1>1. ASSUME NEW op \in Opcodes
      PROVE  <<Plain(op)>> \in Seq(Instruction) /\ Ops(<<Plain(op)>>) = {op}
             /\ InOrder(<<Plain(op)>>)
  BY OpsOfOne, InOrderOfOne, SessionAssumption DEF Plain, Instruction
<1>2. CASE SendHello /\ Says(<<Plain("uuid")>>)
  <2>1. Ops(Pipeline) \subseteq {"nop"} /\ ~client.failed
    BY <1>0, <1>2 DEF SendHello, Spoken, MayStillSpeak
  <2>2. \A x \in Ops(Pipeline) : Precedes(x, "uuid")
    BY <2>1 DEF Precedes
  <2>3. <<Plain("uuid")>> \in Seq(Instruction) /\ Ops(<<Plain("uuid")>>) = {"uuid"}
        /\ InOrder(<<Plain("uuid")>>)
    BY <1>1 DEF Opcodes
  <2>4. \A x \in Ops(Pipeline), y \in Ops(<<Plain("uuid")>>) : Precedes(x, y)
    BY <2>2, <2>3
  <2> QED BY <1>2, <2>1, <2>3, <2>4, SaysInOrder
<1>3. CASE ReportFailure /\ Says(<<Plain("error")>>)
  <2>1. Ops(Pipeline) \subseteq {"uuid", "nop"} /\ ~client.failed
    BY <1>0, <1>3 DEF ReportFailure, Spoken, MayStillSpeak
  <2>2. \A x \in Ops(Pipeline) : Precedes(x, "error")
    BY <2>1 DEF Precedes, Rank
  <2>3. <<Plain("error")>> \in Seq(Instruction) /\ Ops(<<Plain("error")>>) = {"error"}
        /\ InOrder(<<Plain("error")>>)
    BY <1>1 DEF Opcodes
  <2>4. \A x \in Ops(Pipeline), y \in Ops(<<Plain("error")>>) : Precedes(x, y)
    BY <2>2, <2>3
  <2> QED BY <1>3, <2>1, <2>3, <2>4, SaysInOrder
<1>4. CASE SpawnRenderer /\ Says(<<Plain("size")>>)
  <2>1. Ops(Pipeline) \subseteq {"uuid", "nop"} /\ ~client.failed
    BY <1>0, <1>4 DEF SpawnRenderer, Spoken, MayStillSpeak
  <2>2. \A x \in Ops(Pipeline) : Precedes(x, "size")
    BY <2>1 DEF Precedes, Rank
  <2>3. <<Plain("size")>> \in Seq(Instruction) /\ Ops(<<Plain("size")>>) = {"size"}
        /\ InOrder(<<Plain("size")>>)
    BY <1>1 DEF Opcodes
  <2>4. \A x \in Ops(Pipeline), y \in Ops(<<Plain("size")>>) : Precedes(x, y)
    BY <2>2, <2>3
  <2> QED BY <1>4, <2>1, <2>3, <2>4, SaysInOrder
<1>5. CASE renderer \in {"poll", "capture"} /\ Says(<<Plain("error")>>)
  <2>1. "error" \notin Ops(Pipeline) /\ ~client.failed
    BY <1>0, <1>5 DEF Spoken, MayStillSpeak
  <2>2. \A x \in Opcodes \ {"error"} : Precedes(x, "error")
    BY DEF Opcodes, Precedes, Rank
  <2>3. <<Plain("error")>> \in Seq(Instruction) /\ Ops(<<Plain("error")>>) = {"error"}
        /\ InOrder(<<Plain("error")>>)
    BY <1>1 DEF Opcodes
  <2>4. \A x \in Ops(Pipeline), y \in Ops(<<Plain("error")>>) : Precedes(x, y)
    BY <1>0, <2>1, <2>2, <2>3
  <2> QED BY <1>5, <2>1, <2>3, <2>4, SaysInOrder
<1>6. ASSUME NEW b \in 1..MaxBlobs, CaptureFrame(b), Says(FrameInstructions(frames + 1, b))
      PROVE  ConversationOrder'
  <2>1. frames + 1 \in 0..MaxFrames /\ b \in Nat
    BY <1>6, SessionAssumption DEF CaptureFrame, IInv, TypeOK, QueueType
  <2>2. "error" \notin Ops(Pipeline) /\ ~client.failed
    BY <1>0, <1>6 DEF CaptureFrame, Spoken, MayStillSpeak
  <2> DEFINE s == FrameInstructions(frames + 1, b)
  <2>3. s \in Seq(Instruction) /\ Ops(s) \subseteq {"img", "blob", "end", "sync"} /\ Says(s)
        /\ InOrder(s)
    BY <1>6, <2>1, FrameParts, FrameOps, InOrderOfFrame
  <2> HIDE DEF s
  <2>4. \A x \in Opcodes \ {"error"}, y \in {"img", "blob", "end", "sync"} : Precedes(x, y)
    BY DEF Opcodes, Precedes, Rank
  <2>5. \A x \in Ops(Pipeline), y \in Ops(s) : Precedes(x, y)
    BY <1>0, <2>2, <2>3, <2>4
  <2> QED BY <2>2, <2>3, <2>5, SaysInOrder
<1>7. CASE Beats
  <2>1. PICK u, v \in Seq(Instruction) :
          Pipeline = u \o v /\ Pipeline' = (u \o <<Plain("nop")>>) \o v
    BY <1>7 DEF Beats
  <2>2. InOrder(u) /\ InOrder(v) /\ \A x \in Ops(u), y \in Ops(v) : Precedes(x, y)
    BY <1>0, <2>1, InOrderOfTwo
  <2> DEFINE w == u \o <<Plain("nop")>>
  <2>3. \A x \in Opcodes : Precedes(x, "nop") /\ Precedes("nop", x)
    BY DEF Precedes
  <2>4. Ops(u) \subseteq Opcodes /\ Ops(v) \subseteq Opcodes
    BY OpsType
  <2>5. w \in Seq(Instruction) /\ Ops(w) = Ops(u) \cup {"nop"}
    <3>1. <<Plain("nop")>> \in Seq(Instruction) /\ Ops(<<Plain("nop")>>) = {"nop"}
      BY <1>1 DEF Opcodes
    <3>2. w \in Seq(Instruction)
      BY <3>1, ConcatProperties
    <3>3. Ops(w) = Ops(u) \cup Ops(<<Plain("nop")>>)
      <4> DEFINE beat == <<Plain("nop")>>
      <4>1. beat \in Seq(Instruction)
        BY <3>1
      <4> HIDE DEF beat
      <4>2. Ops(u \o beat) = Ops(u) \cup Ops(beat)
        BY <4>1, OpsOfTwo
      <4> QED BY <4>2 DEF beat
    <3> HIDE DEF w
    <3> QED BY <3>1, <3>2, <3>3, Zenon
  <2>6. InOrder(w)
    <3>1. <<Plain("nop")>> \in Seq(Instruction) /\ Ops(<<Plain("nop")>>) = {"nop"}
          /\ InOrder(<<Plain("nop")>>)
      BY <1>1 DEF Opcodes
    <3>2. \A x \in Ops(u), y \in Ops(<<Plain("nop")>>) : Precedes(x, y)
      BY <2>3, <2>4, <3>1
    <3> QED BY <2>2, <3>1, <3>2, InOrderOfTwo
  <2> HIDE DEF w
  <2>7. InOrder(w \o v)
    BY <2>2, <2>3, <2>4, <2>5, <2>6, InOrderOfTwo
  <2>8. Ops(Pipeline') = Ops(Pipeline) \cup {"nop"}
    BY <1>7, BeatsOps
  <2>9. client' = client
    BY <1>7 DEF Beats
  <2> QED BY <1>0, <2>1, <2>7, <2>8, <2>9 DEF w, ConversationOrder
<1>8. CASE Hears
  <2> DEFINE h == Head(Pipeline)  t == Tail(Pipeline)
  <2>1. h \in Instruction /\ t \in Seq(Instruction) /\ Pipeline = <<h>> \o t
        /\ Pipeline' = t /\ client' = Received(client, h)
    BY <1>0, <1>8, HeadAndTail DEF Hears
  <2> HIDE DEF h, t
  <2>2. <<h>> \in Seq(Instruction) /\ Ops(<<h>>) = {h.op} /\ Ops(t) \subseteq Opcodes
    BY <2>1, OpsOfOne, OpsType
  <2>3. InOrder(t) /\ (\A y \in Ops(t) : Precedes(h.op, y)) /\ Ops(t) \subseteq Ops(Pipeline)
    <3>1. InOrder(<<h>> \o t)
      BY <1>0, <2>1
    <3>2. InOrder(t) /\ \A x \in Ops(<<h>>), y \in Ops(t) : Precedes(x, y)
      BY <2>1, <2>2, <3>1, InOrderOfTwo
    <3>3. Ops(<<h>> \o t) = Ops(<<h>>) \cup Ops(t)
      BY <2>1, <2>2, OpsOfTwo
    <3> QED BY <2>1, <2>2, <3>2, <3>3
  <2>4. h.op = "error" => Ops(t) \subseteq {"nop"}
    <3>1. \A y \in Opcodes \ {"nop"} : ~Precedes("error", y)
      BY DEF Opcodes, Precedes, Rank
    <3> QED BY <2>2, <2>3, <3>1
  <2>5. client'.failed => client.failed \/ h.op = "error"
    <3>1. client'.failed = (client.failed \/ h.op = "error")
      BY <1>0, <2>1 DEF PeerType, Received
    <3> QED BY <3>1
  <2> QED BY <1>0, <2>1, <2>3, <2>4, <2>5 DEF ConversationOrder
<1>9. CASE UNCHANGED <<Pipeline, client, frames>>
  BY <1>9 DEF ConversationOrder
<1> QED BY <1>2, <1>3, <1>4, <1>5, <1>6, <1>7, <1>8, <1>9, PipelineStep

\* Whoever of the four goroutines sends, and whatever Send drops or a dying
\* process cuts short: the identifier, the size, the pictures, an error.
THEOREM ConversationInOrder == Spec => []ConversationOrder
<1>1. Init => ConversationOrder
  <2>1. ASSUME Init PROVE DOMAIN Pipeline = {} /\ client.failed = FALSE
    BY <2>1 DEF Init, Pipeline
  <2> QED BY <2>1 DEF ConversationOrder, InOrder
<1>2. IInv /\ ConversationOrder /\ [Next]_vars => ConversationOrder'
  <2>1. CASE UNCHANGED vars
    BY <2>1 DEF vars, queueVars, peerVars, ConversationOrder, Pipeline
  <2> QED BY <2>1, ConversationStep
<1> QED BY <1>1, <1>2, InvariantHolds, PTL DEF Spec

-----------------------------------------------------------------------------
(* The discipline of the picture streams                                   *)

\* The parts of r are, by f and in their order, the last parts of s, or stand for
\* them: what may follow the one may follow the other, and p is not replaced.
StandsFor(r, s, f, m, n, p) ==
  /\ DOMAIN r = 1..m /\ DOMAIN s = 1..n
  /\ \A i \in 1..m : IsFramePart(r[i]) =>
       /\ f[i] \in 1..n /\ IsFramePart(s[f[i]])
       /\ s[f[i]] = p => r[i] = p
  /\ \A i, j \in 1..m : IsFramePart(r[i]) /\ IsFramePart(r[j]) =>
       /\ i < j <=> f[i] < f[j]
       /\ i < j /\ Follows(s[f[i]], s[f[j]]) => Follows(r[i], r[j])
  /\ \A k \in 1..n : IsFramePart(s[k]) =>
       \/ \E i \in 1..m : IsFramePart(r[i]) /\ f[i] = k
       \/ \A i \in 1..m : IsFramePart(r[i]) => k < f[i]
  /\ \E i \in 1..m : IsFramePart(r[i])

\* Then r keeps to the discipline when s does.
LEMMA SameParts ==
  ASSUME NEW s, NEW r, NEW f, NEW n \in Nat, NEW m \in Nat, NEW p,
         StandsFor(r, s, f, m, n, p), Unbroken(s), EndsWith(s, p), IsFramePart(p)
  PROVE  Unbroken(r) /\ EndsWith(r, p)
<1> USE DEF StandsFor
<1>1. ASSUME NEW i \in 1..m, NEW j \in 1..m, NextPart(r, i, j)
      PROVE  Follows(r[i], r[j])
  <2>1. i < j /\ IsFramePart(r[i]) /\ IsFramePart(r[j])
        /\ \A k \in (i + 1)..(j - 1) : ~IsFramePart(r[k])
    BY <1>1 DEF NextPart
  <2>2. f[i] \in 1..n /\ f[j] \in 1..n /\ f[i] < f[j]
        /\ IsFramePart(s[f[i]]) /\ IsFramePart(s[f[j]])
    BY <2>1
  <2>3. ASSUME NEW k \in (f[i] + 1)..(f[j] - 1), IsFramePart(s[k]) PROVE FALSE
    <3>1. k \in 1..n /\ f[i] < k /\ k < f[j] /\ ~(k < f[i])
      BY <2>2
    <3>2. PICK q \in 1..m : IsFramePart(r[q]) /\ f[q] = k
      BY <2>1, <2>3, <3>1
    <3>3. i < q /\ q < j
      BY <2>1, <3>1, <3>2
    <3>4. q \in (i + 1)..(j - 1)
      BY <3>3
    <3> QED BY <2>1, <3>2, <3>4
  <2>4. NextPart(s, f[i], f[j])
    BY <2>2, <2>3 DEF NextPart
  <2>5. Follows(s[f[i]], s[f[j]])
    BY <2>2, <2>4 DEF Unbroken
  <2> QED BY <2>1, <2>5
<1>2. EndsWith(r, p)
  <2>1. PICK l \in 1..n : s[l] = p /\ \A k \in 1..n : k > l => ~IsFramePart(s[k])
    BY DEF EndsWith
  <2>2. PICK e \in 1..m : IsFramePart(r[e])
    OBVIOUS
  <2>3. f[e] \in 1..n /\ ~(f[e] > l)
    BY <2>1, <2>2
  <2>4. PICK i \in 1..m : IsFramePart(r[i]) /\ f[i] = l
    BY <2>1, <2>2, <2>3
  <2>5. r[i] = p
    BY <2>1, <2>4
  <2>6. ASSUME NEW k \in 1..m, k > i, IsFramePart(r[k]) PROVE FALSE
    <3>1. f[k] \in 1..n /\ f[k] > l /\ IsFramePart(s[f[k]])
      BY <2>4, <2>6
    <3> QED BY <2>1, <3>1
  <2> QED BY <2>5, <2>6 DEF EndsWith
<1> QED BY <1>1, <1>2 DEF Unbroken

\* A frame captured after the last one ended goes on where that left off.
LEMMA AddFrame ==
  ASSUME NEW s \in Seq(Instruction), NEW n \in 0..MaxFrames, NEW b \in Nat, n + 1 <= MaxFrames,
         Unbroken(s), EndsWith(s, Part("end", n))
  PROVE  /\ Unbroken(s \o FrameInstructions(n + 1, b))
         /\ EndsWith(s \o FrameInstructions(n + 1, b), Part("end", n + 1))
<1> DEFINE t == FrameInstructions(n + 1, b)
           r == s \o t
           z == Len(s)
<1>1. /\ t \in Seq(Instruction) /\ Len(t) = b + 3
      /\ t[1] = Part("img", n + 1)
      /\ \A i \in 2..(b + 1) : t[i] = Part("blob", n + 1)
      /\ t[b + 2] = Part("end", n + 1)
      /\ t[b + 3] = Plain("sync")
  <2>1. n + 1 \in 0..MaxFrames
    BY SessionAssumption
  <2> QED BY <2>1, FrameParts
<1> HIDE DEF t
<1>2. /\ z \in Nat /\ DOMAIN s = 1..z /\ DOMAIN r = 1..(z + (b + 3))
      /\ \A i \in 1..(z + (b + 3)) : r[i] = IF i <= z THEN s[i] ELSE t[i - z]
  <2>1. t \in Seq(Instruction)
    BY <1>1
  <2>2. r \in Seq(Instruction) /\ Len(r) = Len(s) + Len(t)
        /\ \A i \in 1..Len(s) + Len(t) : r[i] = IF i <= Len(s) THEN s[i] ELSE t[i - Len(s)]
    BY <2>1, ConcatProperties
  <2> HIDE DEF r
  <2>3. DOMAIN r = 1..Len(r) /\ z \in Nat /\ DOMAIN s = 1..z
    BY <2>2, LenProperties
  <2> QED BY <1>1, <2>2, <2>3
<1> HIDE DEF r, z
<1>3. /\ \A i \in 1..z : r[i] = s[i]
      /\ r[z + 1] = Part("img", n + 1)
      /\ \A i \in (z + 2)..(z + b + 1) : r[i] = Part("blob", n + 1)
      /\ r[z + b + 2] = Part("end", n + 1)
      /\ r[z + b + 3] = Plain("sync")
  <2>1. \A i \in 1..z : r[i] = s[i]
    BY <1>2
  <2>2. ASSUME NEW i \in 1..(b + 3) PROVE r[z + i] = t[i]
    <3>1. z + i \in 1..(z + (b + 3)) /\ ~(z + i <= z) /\ (z + i) - z = i
      BY <1>2
    <3> QED BY <1>2, <3>1
  <2>3. r[z + 1] = t[1]
    BY <2>2
  <2>4. r[z + b + 2] = t[b + 2] /\ r[z + b + 3] = t[b + 3]
    <3>1. z + b + 2 = z + (b + 2) /\ z + b + 3 = z + (b + 3)
      BY <1>2
    <3> QED BY <2>2, <3>1
  <2>5. ASSUME NEW i \in (z + 2)..(z + b + 1) PROVE r[i] = Part("blob", n + 1)
    <3>1. i - z \in 2..(b + 1) /\ i - z \in 1..(b + 3) /\ z + (i - z) = i
      BY <1>2
    <3>2. r[z + (i - z)] = t[i - z]
      BY <2>2, <3>1
    <3> QED BY <1>1, <3>1, <3>2
  <2> QED BY <1>1, <2>1, <2>3, <2>4, <2>5
<1>4. PICK l \in 1..z : s[l] = Part("end", n) /\ \A k \in 1..z : k > l => ~IsFramePart(s[k])
  BY <1>2 DEF EndsWith
<1>5. /\ IsFramePart(r[z + 1]) /\ IsFramePart(r[z + b + 2]) /\ ~IsFramePart(r[z + b + 3])
      /\ (\A i \in (z + 2)..(z + b + 1) : IsFramePart(r[i])) /\ IsFramePart(r[l])
  BY <1>3, <1>4 DEF IsFramePart, Part, Plain
<1>6. EndsWith(r, Part("end", n + 1))
  <2>1. z + b + 2 \in DOMAIN r
    BY <1>2
  <2>2. \A k \in DOMAIN r : k > z + b + 2 => k = z + b + 3
    BY <1>2
  <2> QED BY <1>3, <1>5, <2>1, <2>2 DEF EndsWith
<1>7. ASSUME NEW i \in DOMAIN r, NEW j \in DOMAIN r, NextPart(r, i, j)
      PROVE  Follows(r[i], r[j])
  <2>1. i \in 1..(z + (b + 3)) /\ j \in 1..(z + (b + 3)) /\ i < j
        /\ IsFramePart(r[i]) /\ IsFramePart(r[j])
        /\ \A k \in (i + 1)..(j - 1) : ~IsFramePart(r[k])
    BY <1>2, <1>7 DEF NextPart
  <2>0. i \in Int /\ j \in Int /\ z \in Nat /\ i < j
    BY <1>2, <2>1
  <2>2. CASE j <= z
    <3>1. i \in 1..z /\ j \in 1..z /\ \A k \in (i + 1)..(j - 1) : k \in 1..z
      BY <1>2, <2>1, <2>2
    <3>2. NextPart(s, i, j)
      BY <1>3, <2>1, <3>1 DEF NextPart
    <3> QED BY <1>2, <1>3, <3>1, <3>2 DEF Unbroken
  <2>3. CASE j = z + 1
    <3>1. i \in 1..z
      BY <1>2, <2>1, <2>3
    <3>2. ~(i < l)
      <4>1. i < l => l \in (i + 1)..(j - 1)
        BY <1>2, <1>4, <2>1, <2>3, <3>1
      <4> QED BY <1>5, <2>1, <4>1
    <3>3. ~(i > l)
      BY <1>3, <1>4, <2>1, <3>1
    <3>4. r[i] = Part("end", n) /\ r[j] = Part("img", n + 1)
      <4>1. i = l
        BY <1>2, <1>4, <3>1, <3>2, <3>3
      <4> QED BY <1>3, <1>4, <2>3, <4>1
    <3>5. (n + 1) - 1 = n
      OBVIOUS
    <3> QED BY <3>4, <3>5 DEF Follows, Part
  <2>4. CASE j \in (z + 2)..(z + b + 2)
    <3>1. i = j - 1
      <4>1. j - 1 \in (z + 1)..(z + b + 1) /\ (i # j - 1 => j - 1 \in (i + 1)..(j - 1))
        BY <2>0, <2>4
      <4>2. j - 1 = z + 1 \/ j - 1 \in (z + 2)..(z + b + 1)
        BY <1>2, <4>1
      <4>3. IsFramePart(r[j - 1])
        BY <1>5, <4>2
      <4> QED BY <2>1, <4>1, <4>3
    <3>2. r[i] = Part("img", n + 1) \/ r[i] = Part("blob", n + 1)
      <4>1. i = z + 1 \/ i \in (z + 2)..(z + b + 1)
        BY <1>2, <2>4, <3>1
      <4> QED BY <1>3, <4>1
    <3>3. r[j] = Part("blob", n + 1) \/ r[j] = Part("end", n + 1)
      <4>1. j = z + b + 2 \/ j \in (z + 2)..(z + b + 1)
        BY <2>0, <2>4
      <4> QED BY <1>3, <4>1
    <3> QED BY <3>2, <3>3 DEF Follows, Part
  <2>5. CASE j > z + b + 2
    <3>1. j = z + b + 3
      <4>1. j <= z + (b + 3)
        BY <2>0, <2>1
      <4> QED BY <2>0, <2>5, <4>1
    <3> QED BY <1>5, <2>1, <3>1
  <2>6. j <= z \/ j = z + 1 \/ j \in (z + 2)..(z + b + 2) \/ j > z + b + 2
    BY <1>2, <2>1
  <2> QED BY <2>2, <2>3, <2>4, <2>5, <2>6
<1> QED BY <1>6, <1>7 DEF Unbroken, r, t

\* What has been told is where the browser is, then what is on its way.
LEMMA ToldByPlace ==
  ASSUME NEW c \in Instruction, NEW q \in Seq(Instruction)
  PROVE  /\ <<c>> \o q \in Seq(Instruction)
         /\ Len(q) \in Nat /\ DOMAIN q = 1..Len(q)
         /\ DOMAIN (<<c>> \o q) = 1..(Len(q) + 1)
         /\ (<<c>> \o q)[1] = c
         /\ \A i \in 2..(Len(q) + 1) : (<<c>> \o q)[i] = q[i - 1]
<1> DEFINE w == <<c>> \o q
<1>1. <<c>> \in Seq(Instruction) /\ Len(<<c>>) = 1 /\ <<c>>[1] = c
  OBVIOUS
<1>2. w \in Seq(Instruction) /\ Len(w) = Len(<<c>>) + Len(q)
      /\ \A i \in 1..Len(<<c>>) + Len(q) :
           w[i] = IF i <= Len(<<c>>) THEN <<c>>[i] ELSE q[i - Len(<<c>>)]
  <2> HIDE DEF w
  <2>1. w = <<c>> \o q
    BY DEF w
  <2> QED BY <1>1, <2>1, ConcatProperties
<1> HIDE DEF w
<1>3. Len(q) \in Nat /\ DOMAIN q = 1..Len(q) /\ DOMAIN w = 1..Len(w)
  BY <1>2, LenProperties
<1>4. w[1] = c /\ \A i \in 2..(Len(q) + 1) : w[i] = q[i - 1]
  BY <1>1, <1>2, <1>3
<1>5. Len(w) = Len(q) + 1
  BY <1>1, <1>2, <1>3
<1> QED BY <1>2, <1>3, <1>4, <1>5 DEF w

\* The browser's place is a part of a picture stream.
LEMMA ClientAtType ==
  ASSUME IInv
  PROVE  /\ ClientAt \in Instruction /\ IsFramePart(ClientAt)
         /\ Told = <<ClientAt>> \o Pipeline
         /\ Pipeline \in Seq(Instruction) /\ Told \in Seq(Instruction)
<1>1. ClientAt \in Instruction /\ IsFramePart(ClientAt)
  BY DEF IInv, TypeOK, PeerType, ClientAt, Part, Instruction, Opcodes, IsFramePart
<1> QED BY <1>1, PipelineType, ToldByPlace DEF Told

\* The parts of r are, by f and in their order, the parts of s.
SamePartsBy(r, s, f, m, n) ==
  /\ DOMAIN r = 1..m /\ DOMAIN s = 1..n
  /\ \A i \in 1..m : IsFramePart(r[i]) => f[i] \in 1..n /\ r[i] = s[f[i]]
  /\ \A i, j \in 1..m : IsFramePart(r[i]) /\ IsFramePart(r[j]) => (i < j <=> f[i] < f[j])
  /\ \A k \in 1..n : IsFramePart(s[k]) => \E i \in 1..m : r[i] = s[k] /\ f[i] = k

\* Taking in or leaving out what is not a part changes nothing of the discipline.
LEMMA QuietParts ==
  ASSUME NEW s, NEW r, NEW f, NEW n \in Nat, NEW m \in Nat, NEW p,
         SamePartsBy(r, s, f, m, n), Unbroken(s), EndsWith(s, p), IsFramePart(p)
  PROVE  Unbroken(r) /\ EndsWith(r, p)
<1>1. PICK l \in 1..n : IsFramePart(s[l])
  BY DEF EndsWith, SamePartsBy
<1>2. \E i \in 1..m : IsFramePart(r[i])
  BY <1>1 DEF SamePartsBy
<1>3. StandsFor(r, s, f, m, n, p)
  BY <1>2 DEF SamePartsBy, StandsFor
<1> QED BY <1>3, SameParts

\* What is not a part of a picture does not break the discipline when it is said...
LEMMA SaysQuietly ==
  ASSUME IInv, StreamDiscipline, NEW ins \in Instruction, ~IsFramePart(ins),
         Says(<<ins>>), UNCHANGED frames
  PROVE  StreamDiscipline'
<1> DEFINE n == Len(Pipeline)
           f == [i \in 1..(n + 2) |-> i]
           p == Part("end", frames)
<1>1. ClientAt \in Instruction /\ IsFramePart(ClientAt) /\ Told = <<ClientAt>> \o Pipeline
      /\ Pipeline \in Seq(Instruction) /\ n \in Nat /\ IsFramePart(p)
  BY ClientAtType, LenProperties DEF IsFramePart, Part
<1> HIDE DEF n, p
<1>2. DOMAIN Told = 1..(n + 1) /\ Told[1] = ClientAt
      /\ \A i \in 2..(n + 1) : Told[i] = Pipeline[i - 1]
  BY <1>1, ToldByPlace DEF n
<1>3. /\ Pipeline' \in Seq(Instruction) /\ Len(Pipeline') = n + 1
      /\ \A i \in 1..n : Pipeline'[i] = Pipeline[i]
      /\ Pipeline'[n + 1] = ins
  <2>1. Pipeline' = Append(Pipeline, ins)
    BY <1>1, AppendIsConcat DEF Says
  <2> QED BY <1>1, <2>1, AppendProperties DEF n
<1>4. Told' = <<ClientAt>> \o Pipeline'
  BY DEF Says, Told, ClientAt
<1>5. DOMAIN Told' = 1..(n + 2) /\ Told'[1] = ClientAt
      /\ \A i \in 2..(n + 2) : Told'[i] = Pipeline'[i - 1]
  <2>1. DOMAIN Told' = 1..((n + 1) + 1) /\ Told'[1] = ClientAt
        /\ \A i \in 2..((n + 1) + 1) : Told'[i] = Pipeline'[i - 1]
    BY <1>1, <1>3, <1>4, ToldByPlace
  <2>2. (n + 1) + 1 = n + 2
    BY <1>1
  <2> QED BY <2>1, <2>2
<1>6. (\A i \in 1..(n + 1) : Told'[i] = Told[i]) /\ Told'[n + 2] = ins
  <2>1. ASSUME NEW i \in 2..(n + 1) PROVE Told'[i] = Told[i]
    <3>1. i - 1 \in 1..n /\ i \in 2..(n + 2)
      BY <1>1
    <3> QED BY <1>2, <1>3, <1>5, <3>1
  <2>2. \A i \in 1..(n + 1) : i = 1 \/ i \in 2..(n + 1)
    BY <1>1
  <2>3. n + 2 \in 2..(n + 2) /\ (n + 2) - 1 = n + 1
    BY <1>1
  <2> QED BY <1>2, <1>3, <1>5, <2>1, <2>2, <2>3
<1>7. Unbroken(Told) /\ EndsWith(Told, p)
  BY DEF StreamDiscipline, p
<1>8. /\ \A i \in 1..(n + 2) : i \in 1..(n + 1) \/ i = n + 2
      /\ \A i \in 1..(n + 1) : i \in 1..(n + 2)
      /\ \A i \in 1..(n + 2) : f[i] = i
      /\ n + 1 \in Nat /\ n + 2 \in Nat
  BY <1>1
<1> HIDE DEF f
<1>9. Unbroken(Told') /\ EndsWith(Told', p)
  <2>1. \A i \in 1..(n + 2) : IsFramePart(Told'[i]) => f[i] \in 1..(n + 1) /\ Told'[i] = Told[f[i]]
    BY <1>6, <1>8
  <2>2. \A i, j \in 1..(n + 2) :
          IsFramePart(Told'[i]) /\ IsFramePart(Told'[j]) => (i < j <=> f[i] < f[j])
    BY <1>8
  <2>3. \A k \in 1..(n + 1) : IsFramePart(Told[k]) =>
          \E i \in 1..(n + 2) : Told'[i] = Told[k] /\ f[i] = k
    BY <1>6, <1>8
  <2>4. SamePartsBy(Told', Told, f, n + 2, n + 1)
    BY <1>2, <1>5, <2>1, <2>2, <2>3 DEF SamePartsBy
  <2> QED BY <1>1, <1>7, <1>8, <2>4, QuietParts
<1> QED BY <1>9 DEF StreamDiscipline, p

\* ... nor when a heartbeat is put before the channel.
LEMMA BeatsQuietly ==
  ASSUME IInv, StreamDiscipline, Beats
  PROVE  StreamDiscipline'
<1>1. PICK u, v \in Seq(Instruction) :
        Pipeline = u \o v /\ Pipeline' = (u \o <<Plain("nop")>>) \o v
  BY DEF Beats
<1> DEFINE ins == Plain("nop")  w == u \o <<ins>>  x == u \o v  y == w \o v
           a == Len(u) + 1  n == Len(u) + Len(v) + 1
           f == [i \in 1..(n + 1) |-> IF i <= a THEN i ELSE i - 1]
           p == Part("end", frames)
<1>2. ClientAt \in Instruction /\ IsFramePart(ClientAt) /\ Told = <<ClientAt>> \o x
      /\ x \in Seq(Instruction) /\ IsFramePart(p)
  BY <1>1, ClientAtType DEF IsFramePart, Part
<1>3. ins \in Instruction /\ ~IsFramePart(ins) /\ <<ins>> \in Seq(Instruction)
      /\ Len(<<ins>>) = 1 /\ <<ins>>[1] = ins
  BY SessionAssumption DEF Plain, Instruction, Opcodes, IsFramePart
<1> HIDE DEF ins, p
<1>4. Len(u) \in Nat /\ Len(v) \in Nat
  BY LenProperties
<1>5. Len(x) = Len(u) + Len(v)
      /\ \A i \in 1..Len(u) + Len(v) : x[i] = IF i <= Len(u) THEN u[i] ELSE v[i - Len(u)]
  BY ConcatProperties
<1>6. w \in Seq(Instruction) /\ Len(w) = a
      /\ \A i \in 1..a : w[i] = IF i <= Len(u) THEN u[i] ELSE ins
  <2>1. w \in Seq(Instruction) /\ Len(w) = Len(u) + Len(<<ins>>)
        /\ \A i \in 1..Len(u) + Len(<<ins>>) :
             w[i] = IF i <= Len(u) THEN u[i] ELSE <<ins>>[i - Len(u)]
    BY <1>3, ConcatProperties
  <2> HIDE DEF w
  <2>2. \A i \in 1..a : i <= Len(u) \/ i - Len(u) = 1
    BY <1>4
  <2> QED BY <1>3, <2>1, <2>2
<1> HIDE DEF w, x
<1>7. y \in Seq(Instruction) /\ Len(y) = a + Len(v)
      /\ \A i \in 1..a + Len(v) : y[i] = IF i <= a THEN w[i] ELSE v[i - a]
  <2>1. y \in Seq(Instruction) /\ Len(y) = Len(w) + Len(v)
        /\ \A i \in 1..Len(w) + Len(v) : y[i] = IF i <= Len(w) THEN w[i] ELSE v[i - Len(w)]
    BY <1>6, ConcatProperties
  <2> HIDE DEF y, a
  <2> QED BY <1>6, <2>1
<1> HIDE DEF y
<1>8. Told' = <<ClientAt>> \o y
  BY <1>1 DEF Beats, Told, ClientAt, y, w, ins
<1>9. /\ DOMAIN Told = 1..n /\ Told[1] = ClientAt
      /\ \A i \in 2..n : Told[i] = x[i - 1]
  <2>1. DOMAIN Told = 1..(Len(x) + 1) /\ Told[1] = ClientAt
        /\ \A i \in 2..(Len(x) + 1) : Told[i] = x[i - 1]
    BY <1>2, ToldByPlace
  <2>2. Len(x) + 1 = n
    BY <1>4, <1>5
  <2> QED BY <2>1, <2>2
<1>10. /\ DOMAIN Told' = 1..(n + 1) /\ Told'[1] = ClientAt
       /\ \A i \in 2..(n + 1) : Told'[i] = y[i - 1]
  <2>1. DOMAIN Told' = 1..((a + Len(v)) + 1) /\ Told'[1] = ClientAt
        /\ \A i \in 2..((a + Len(v)) + 1) : Told'[i] = y[i - 1]
    <3> HIDE DEF a
    <3> QED BY <1>2, <1>7, <1>8, ToldByPlace
  <2>2. (a + Len(v)) + 1 = n + 1
    BY <1>4
  <2> QED BY <2>1, <2>2
<1>11. /\ \A i \in 1..a : Told'[i] = Told[i]
       /\ Told'[a + 1] = ins
       /\ \A i \in (a + 2)..(n + 1) : Told'[i] = Told[i - 1]
  <2>1. ASSUME NEW i \in 2..a PROVE Told'[i] = Told[i]
    <3>1. i \in 2..n /\ i \in 2..(n + 1) /\ i - 1 \in 1..a /\ i - 1 <= a /\ i - 1 <= Len(u)
          /\ i - 1 \in 1..Len(u) + Len(v) /\ i - 1 \in 1..a + Len(v)
      BY <1>4
    <3>2. Told'[i] = y[i - 1] /\ y[i - 1] = w[i - 1] /\ w[i - 1] = u[i - 1]
      BY <1>6, <1>7, <1>10, <3>1
    <3>3. Told[i] = x[i - 1] /\ x[i - 1] = u[i - 1]
      BY <1>5, <1>9, <3>1
    <3> QED BY <3>2, <3>3
  <2>2. Told'[a + 1] = ins
    <3>1. a + 1 \in 2..(n + 1) /\ (a + 1) - 1 = a /\ a \in 1..a /\ a \in 1..a + Len(v)
          /\ a <= a /\ ~(a <= Len(u))
      BY <1>4
    <3> QED BY <1>6, <1>7, <1>10, <3>1
  <2>3. ASSUME NEW i \in (a + 2)..(n + 1) PROVE Told'[i] = Told[i - 1]
    <3>1. i \in 2..(n + 1) /\ i - 1 \in 2..n /\ i - 1 \in 1..a + Len(v) /\ ~(i - 1 <= a)
          /\ (i - 1) - 1 \in 1..Len(u) + Len(v) /\ ~((i - 1) - 1 <= Len(u))
          /\ (i - 1) - a = ((i - 1) - 1) - Len(u)
      BY <1>4
    <3>2. Told'[i] = y[i - 1] /\ y[i - 1] = v[(i - 1) - a]
      BY <1>7, <1>10, <3>1
    <3>3. Told[i - 1] = x[(i - 1) - 1] /\ x[(i - 1) - 1] = v[((i - 1) - 1) - Len(u)]
      BY <1>5, <1>9, <3>1
    <3> QED BY <3>1, <3>2, <3>3
  <2>4. \A i \in 1..a : i = 1 \/ i \in 2..a
    BY <1>4
  <2> QED BY <1>9, <1>10, <2>1, <2>2, <2>3, <2>4
<1>12. a \in Nat /\ n \in Nat /\ a >= 1 /\ a <= n
  BY <1>4
<1> HIDE DEF a, n
<1>13. Unbroken(Told) /\ EndsWith(Told, p)
  BY DEF StreamDiscipline, p
<1>14. /\ \A i \in 1..a : f[i] = i
       /\ \A i \in (a + 2)..(n + 1) : f[i] = i - 1
       /\ \A i \in 1..(n + 1) : i \in 1..a \/ i = a + 1 \/ i \in (a + 2)..(n + 1)
       /\ \A i \in 1..a : i \in 1..n /\ i \in 1..(n + 1)
       /\ \A i \in (a + 2)..(n + 1) : i - 1 \in 1..n
  BY <1>12
<1> HIDE DEF f
<1>15. Unbroken(Told') /\ EndsWith(Told', p)
  <2>1. \A i \in 1..(n + 1) : IsFramePart(Told'[i]) => i \in 1..a \/ i \in (a + 2)..(n + 1)
    BY <1>3, <1>11, <1>14
  <2>2. \A i \in 1..(n + 1) : IsFramePart(Told'[i]) => f[i] \in 1..n /\ Told'[i] = Told[f[i]]
    BY <1>11, <1>14, <2>1
  <2>3. \A i, j \in 1..(n + 1) :
          IsFramePart(Told'[i]) /\ IsFramePart(Told'[j]) => (i < j <=> f[i] < f[j])
    <3>1. ASSUME NEW i \in 1..(n + 1), NEW j \in 1..(n + 1),
                 i \in 1..a \/ i \in (a + 2)..(n + 1), j \in 1..a \/ j \in (a + 2)..(n + 1)
          PROVE  i < j <=> f[i] < f[j]
      BY <1>12, <1>14, <3>1
    <3> QED BY <2>1, <3>1
  <2>4. \A k \in 1..n : \E i \in 1..(n + 1) : Told'[i] = Told[k] /\ f[i] = k
    <3> TAKE k \in 1..n
    <3>1. CASE k \in 1..a
      BY <1>11, <1>14, <3>1
    <3>2. CASE k \notin 1..a
      <4>1. k + 1 \in (a + 2)..(n + 1) /\ k + 1 \in 1..(n + 1) /\ (k + 1) - 1 = k
        BY <1>12, <3>2
      <4> QED BY <1>11, <1>14, <4>1
    <3> QED BY <3>1, <3>2
  <2>5. n + 1 \in Nat
    BY <1>12
  <2>6. SamePartsBy(Told', Told, f, n + 1, n)
    BY <1>9, <1>10, <2>2, <2>3, <2>4 DEF SamePartsBy
  <2> QED BY <1>2, <1>12, <1>13, <2>5, <2>6, QuietParts
<1>16. Part("end", frames') = p
  BY DEF Beats, p
<1> QED BY <1>15, <1>16 DEF StreamDiscipline

\* The browser that reads a part is where that part says.
LEMMA ClientFollows ==
  ASSUME IInv, NEW h \in Instruction, client' = Received(client, h),
         IsFramePart(h) => Follows(ClientAt, h)
  PROVE  /\ ~IsFramePart(h) => ClientAt' = ClientAt
         /\ IsFramePart(h) => /\ IsFramePart(ClientAt')
                              /\ \A ins : Follows(h, ins) => Follows(ClientAt', ins)
                              /\ h.op = "end" => ClientAt' = h
<1>1. /\ client.open \in Nat /\ client.shown \in Nat
      /\ client'.open = CASE h.op = "img" -> h.stream
                          [] h.op = "end" -> 0
                          [] OTHER -> client.open
      /\ client'.shown = IF h.op = "end" /\ client.open = h.stream
                         THEN h.stream ELSE client.shown
  BY SessionAssumption DEF IInv, TypeOK, PeerType, Received
<1>2. h = Part(h.op, h.stream) /\ h.stream \in Nat
  BY SessionAssumption DEF Instruction, Part
<1>3. CASE ~IsFramePart(h)
  BY <1>1, <1>3 DEF IsFramePart, ClientAt
<1>4. CASE h.op = "img"
  <2>1. client.open = 0 /\ h.stream = client.shown + 1
    <3>1. ClientAt = Part("end", h.stream - 1)
      BY <1>4 DEF Follows, IsFramePart
    <3>2. client.open = 0 /\ ClientAt = Part("end", client.shown)
      BY <1>1, <3>1 DEF ClientAt, Part
    <3>3. client.shown = h.stream - 1
      BY <3>1, <3>2 DEF Part
    <3> QED BY <1>1, <1>2, <3>2, <3>3
  <2>2. ClientAt' = Part("blob", h.stream)
    BY <1>1, <1>4, <2>1 DEF ClientAt
  <2>3. \A ins : Follows(h, ins) => Follows(ClientAt', ins)
    BY <1>2, <1>4, <2>2 DEF Follows, Part
  <2> QED BY <1>4, <2>2, <2>3 DEF IsFramePart, Part
<1>5. CASE h.op \in {"blob", "end"}
  <2>1. client.open > 0 /\ client.open = h.stream
    <3>1. ClientAt.stream = h.stream /\ ClientAt.op # "end"
      BY <1>5 DEF Follows, IsFramePart
    <3> QED BY <1>1, <3>1 DEF ClientAt, Part
  <2>2. ClientAt' = h
    BY <1>1, <1>2, <1>5, <2>1 DEF ClientAt
  <2> QED BY <1>5, <2>2 DEF IsFramePart
<1> QED BY <1>3, <1>4, <1>5 DEF IsFramePart

\* The browser's reading takes it along the streams.
LEMMA HearsOn ==
  ASSUME IInv, StreamDiscipline, Hears
  PROVE  StreamDiscipline'
<1> DEFINE h == Head(Pipeline)  t == Tail(Pipeline)  n == Len(t) + 2  m == Len(t) + 1
           p == Part("end", frames)
<1>1. ClientAt \in Instruction /\ IsFramePart(ClientAt) /\ Told = <<ClientAt>> \o Pipeline
      /\ Pipeline \in Seq(Instruction) /\ Pipeline # <<>> /\ IsFramePart(p)
      /\ client' = Received(client, h) /\ Pipeline' = t
  BY ClientAtType DEF Hears, IsFramePart, Part
<1> HIDE DEF p
<1>2. h \in Instruction /\ t \in Seq(Instruction) /\ Len(t) = Len(Pipeline) - 1
      /\ (\A i \in 1..Len(t) : t[i] = Pipeline[i + 1]) /\ h = Pipeline[1]
      /\ Len(t) \in Nat /\ Len(Pipeline) \in Nat
  BY <1>1, HeadTailProperties, LenProperties
<1> HIDE DEF h, t
<1>3. DOMAIN Told = 1..n /\ Told[1] = ClientAt /\ \A i \in 2..n : Told[i] = Pipeline[i - 1]
  <2>1. DOMAIN Told = 1..(Len(Pipeline) + 1) /\ Told[1] = ClientAt
        /\ \A i \in 2..(Len(Pipeline) + 1) : Told[i] = Pipeline[i - 1]
    BY <1>1, ToldByPlace
  <2>2. Len(Pipeline) + 1 = n
    BY <1>2
  <2> QED BY <2>1, <2>2
<1>4. n \in Nat /\ m \in Nat /\ n = m + 1 /\ m >= 1 /\ Told[2] = h
  BY <1>2, <1>3
<1>5. IsFramePart(h) => Follows(ClientAt, h)
  <2>1. IsFramePart(h) => NextPart(Told, 1, 2)
    BY <1>1, <1>3, <1>4 DEF NextPart
  <2> QED BY <1>3, <1>4, <2>1 DEF StreamDiscipline, Unbroken
<1>6. /\ ~IsFramePart(h) => ClientAt' = ClientAt
      /\ IsFramePart(h) => /\ IsFramePart(ClientAt')
                           /\ \A ins : Follows(h, ins) => Follows(ClientAt', ins)
                           /\ h.op = "end" => ClientAt' = h
  BY <1>1, <1>2, <1>5, ClientFollows
<1>7. DOMAIN Told' = 1..m /\ Told'[1] = ClientAt' /\ \A i \in 2..m : Told'[i] = t[i - 1]
  <2>1. Told' = <<ClientAt'>> \o t
    BY <1>1 DEF Told
  <2>2. ClientAt' \in Instruction
    BY <1>1, <1>2, <1>6, SessionAssumption DEF ClientAt, Part, Instruction, Opcodes, IInv,
           TypeOK, PeerType, Received
  <2> QED BY <1>2, <2>1, <2>2, ToldByPlace
<1>8. \A i \in 2..m : Told'[i] = Told[i + 1]
  <2> TAKE i \in 2..m
  <2>1. i - 1 \in 1..Len(t) /\ i + 1 \in 2..n /\ (i - 1) + 1 = i /\ (i + 1) - 1 = i
    BY <1>2
  <2>2. Told'[i] = t[i - 1] /\ t[i - 1] = Pipeline[i]
    BY <1>2, <1>7, <2>1
  <2>3. Told[i + 1] = Pipeline[i]
    BY <1>3, <2>1
  <2> QED BY <2>2, <2>3
<1>9. Unbroken(Told) /\ EndsWith(Told, p)
  BY DEF StreamDiscipline, p
<1> HIDE DEF n, m
<1>10. /\ \A i \in 1..m : i = 1 \/ i \in 2..m
       /\ \A i \in 2..m : i + 1 \in 1..n
       /\ 1 \in 1..m /\ 1 \in 1..n /\ 2 \in 1..n
  BY <1>4
<1>11. Unbroken(Told') /\ EndsWith(Told', p)
  <2>1. CASE ~IsFramePart(h)
    <3> DEFINE f == [i \in 1..m |-> IF i = 1 THEN 1 ELSE i + 1]
    <3>1. f[1] = 1 /\ \A i \in 2..m : f[i] = i + 1
      BY <1>4, <1>10
    <3> HIDE DEF f
    <3>2. \A i \in 1..m : IsFramePart(Told'[i]) => f[i] \in 1..n /\ Told'[i] = Told[f[i]]
      BY <1>3, <1>6, <1>7, <1>8, <1>10, <2>1, <3>1
    <3>3. \A i, j \in 1..m : IsFramePart(Told'[i]) /\ IsFramePart(Told'[j])
                               => (i < j <=> f[i] < f[j])
      <4> TAKE i, j \in 1..m
      <4>1. i < j <=> f[i] < f[j]
        BY <1>4, <1>10, <3>1
      <4> QED BY <4>1
    <3>4. \A k \in 1..n : IsFramePart(Told[k]) =>
            \E i \in 1..m : Told'[i] = Told[k] /\ f[i] = k
      <4> TAKE k \in 1..n
      <4>1. CASE k = 1
        BY <1>3, <1>6, <1>7, <1>10, <2>1, <3>1, <4>1
      <4>2. CASE k = 2
        BY <1>4, <2>1, <4>2
      <4>3. CASE k # 1 /\ k # 2
        <5>1. k - 1 \in 2..m /\ k - 1 \in 1..m /\ (k - 1) + 1 = k
          BY <1>4, <4>3
        <5> QED BY <1>8, <3>1, <5>1
      <4> QED BY <4>1, <4>2, <4>3
    <3>5. SamePartsBy(Told', Told, f, m, n)
      BY <1>3, <1>7, <3>2, <3>3, <3>4 DEF SamePartsBy
    <3> QED BY <1>1, <1>4, <1>9, <3>5, QuietParts
  <2>2. CASE IsFramePart(h)
    <3> DEFINE f == [i \in 1..m |-> i + 1]
    <3>1. (\A i \in 1..m : f[i] = i + 1 /\ f[i] \in 1..n)
          /\ \A i \in 2..m : Told'[i] = Told[f[i]]
      BY <1>4, <1>8
    <3>2. f[1] = 2
      BY <1>10
    <3> HIDE DEF f
    <3>3. \A i \in 1..m : IsFramePart(Told'[i]) =>
             /\ f[i] \in 1..n /\ IsFramePart(Told[f[i]])
             /\ Told[f[i]] = p => Told'[i] = p
      <4> TAKE i \in 1..m
      <4>1. CASE i = 1
        <5>1. h = p => ClientAt' = p
          BY <1>6, <2>2 DEF p, Part
        <5> QED BY <1>4, <1>7, <2>2, <3>1, <3>2, <4>1, <5>1
      <4>2. CASE i \in 2..m
        BY <3>1, <4>2
      <4> QED BY <1>10, <4>1, <4>2
    <3>4. \A i, j \in 1..m : IsFramePart(Told'[i]) /\ IsFramePart(Told'[j]) =>
             /\ i < j <=> f[i] < f[j]
             /\ i < j /\ Follows(Told[f[i]], Told[f[j]]) => Follows(Told'[i], Told'[j])
      <4> TAKE i, j \in 1..m
      <4>1. i < j <=> f[i] < f[j]
        BY <1>4, <3>1
      <4>2. ASSUME i < j, Follows(Told[f[i]], Told[f[j]]) PROVE Follows(Told'[i], Told'[j])
        <5>1. j \in 2..m /\ Told'[j] = Told[f[j]]
          BY <1>4, <3>1, <4>2
        <5>2. CASE i = 1
          BY <1>4, <1>6, <1>7, <2>2, <3>2, <4>2, <5>1, <5>2
        <5>3. CASE i \in 2..m
          BY <3>1, <4>2, <5>1, <5>3
        <5> QED BY <1>10, <5>2, <5>3
      <4> QED BY <4>1, <4>2
    <3>5. \A k \in 1..n : IsFramePart(Told[k]) =>
             \/ \E i \in 1..m : IsFramePart(Told'[i]) /\ f[i] = k
             \/ \A i \in 1..m : IsFramePart(Told'[i]) => k < f[i]
      <4> TAKE k \in 1..n
      <4>1. CASE k = 1
        BY <1>4, <3>1, <4>1
      <4>2. CASE k = 2
        BY <1>6, <1>7, <1>10, <2>2, <3>2, <4>2
      <4>3. CASE k # 1 /\ k # 2
        <5>1. k - 1 \in 2..m /\ k - 1 \in 1..m /\ (k - 1) + 1 = k
          BY <1>4, <4>3
        <5>2. f[k - 1] = k /\ Told'[k - 1] = Told[k]
          BY <3>1, <5>1
        <5> QED BY <5>1, <5>2
      <4> QED BY <4>1, <4>2, <4>3
    <3>6. \E i \in 1..m : IsFramePart(Told'[i])
      BY <1>6, <1>7, <1>10, <2>2
    <3>7. StandsFor(Told', Told, f, m, n, p)
      BY <1>3, <1>7, <3>3, <3>4, <3>5, <3>6 DEF StandsFor
    <3> QED BY <1>1, <1>4, <1>9, <3>7, SameParts
  <2> QED BY <2>1, <2>2
<1>12. Part("end", frames') = p
  BY DEF Hears, p
<1> QED BY <1>11, <1>12 DEF StreamDiscipline

LEMMA StreamStep ==
  ASSUME IInv, StreamDiscipline, Next
  PROVE  StreamDiscipline'
<1>1. ASSUME NEW op \in {"uuid", "size", "error"}, Says(<<Plain(op)>>), UNCHANGED frames
      PROVE  StreamDiscipline'
  <2>1. Plain(op) \in Instruction /\ ~IsFramePart(Plain(op))
    BY SessionAssumption DEF Plain, Instruction, Opcodes, IsFramePart
  <2> QED BY <1>1, <2>1, SaysQuietly
<1>2. ASSUME NEW b \in 1..MaxBlobs, CaptureFrame(b), Says(FrameInstructions(frames + 1, b))
      PROVE  StreamDiscipline'
  <2>1. frames \in 0..MaxFrames /\ frames + 1 <= MaxFrames /\ b \in Nat /\ frames' = frames + 1
    BY <1>2, SessionAssumption DEF CaptureFrame, IInv, TypeOK, QueueType
  <2> DEFINE s == FrameInstructions(frames + 1, b)
  <2>2. Told \in Seq(Instruction) /\ Unbroken(Told) /\ EndsWith(Told, Part("end", frames))
    BY ClientAtType DEF StreamDiscipline
  <2>3. Unbroken(Told \o s) /\ EndsWith(Told \o s, Part("end", frames + 1))
    BY <2>1, <2>2, AddFrame
  <2>4. s \in Seq(Instruction)
    <3>1. frames + 1 \in 0..MaxFrames
      BY <2>1
    <3> QED BY <2>1, <3>1, FrameParts
  <2> HIDE DEF s
  <2>5. Told' = Told \o s
    <3>1. Told' = <<ClientAt>> \o (Pipeline \o s) /\ Told = <<ClientAt>> \o Pipeline
      BY <1>2 DEF Says, Told, ClientAt, s
    <3>2. <<ClientAt>> \in Seq(Instruction) /\ Pipeline \in Seq(Instruction)
      BY ClientAtType
    <3>3. (<<ClientAt>> \o Pipeline) \o s = <<ClientAt>> \o (Pipeline \o s)
      <4> DEFINE c == <<ClientAt>>
      <4>1. c \in Seq(Instruction)
        BY <3>2
      <4> HIDE DEF c
      <4>2. (c \o Pipeline) \o s = c \o (Pipeline \o s)
        BY <2>4, <3>2, <4>1, Regroup, SMTT(30)
      <4> QED BY <4>2 DEF c
    <3> QED BY <3>1, <3>3
  <2> QED BY <2>1, <2>3, <2>5 DEF StreamDiscipline
<1>3. SendHello \/ ReportFailure \/ SpawnRenderer \/ SendErrorAndStop => UNCHANGED frames
  BY DEF SendHello, ReportFailure, SpawnRenderer, SendErrorAndStop
<1>4. CASE UNCHANGED <<Pipeline, client, frames>>
  BY <1>4 DEF StreamDiscipline, Told, ClientAt
<1> QED BY <1>1, <1>2, <1>3, <1>4, BeatsQuietly, HearsOn, PipelineStep

\* A picture stream reaches the browser whole and in its turn, whatever the
\* goroutines' interleaving, the capacities and the chunks a frame is cut into.
THEOREM StreamsDisciplined == Spec => []StreamDiscipline
<1>1. Init => StreamDiscipline
  <2> SUFFICES ASSUME Init PROVE StreamDiscipline
    OBVIOUS
  <2> DEFINE p == Part("end", 0)
  <2>1. ClientAt = p /\ Pipeline = <<>> /\ frames = 0
    BY DEF Init, ClientAt, Pipeline
  <2>2. Told = <<p>> \o <<>>
    BY <2>1 DEF Told
  <2> HIDE DEF p
  <2>3. <<p>> \o <<>> = <<p>> /\ DOMAIN <<p>> = {1} /\ <<p>>[1] = p
    <3>1. <<p>> \in Seq({p})
      OBVIOUS
    <3> QED BY <3>1, ConcatEmptySeq
  <2>4. DOMAIN Told = {1} /\ Told[1] = p
    BY <2>2, <2>3
  <2>5. Unbroken(Told)
    BY <2>4 DEF Unbroken, NextPart
  <2>6. EndsWith(Told, p)
    BY <2>4 DEF EndsWith
  <2> QED BY <2>1, <2>5, <2>6 DEF StreamDiscipline, p
<1>2. IInv /\ StreamDiscipline /\ [Next]_vars => StreamDiscipline'
  <2>1. CASE UNCHANGED vars
    BY <2>1 DEF vars, queueVars, peerVars, StreamDiscipline, Told, ClientAt, Pipeline
  <2> QED BY <2>1, StreamStep
<1> QED BY <1>1, <1>2, InvariantHolds, PTL DEF Spec

-----------------------------------------------------------------------------
(* Session implements SessionLifecycle                                     *)

\* What the refinement mapping reads of the state: where the request goroutine
\* is, which workers run and what is held.
MappedVars == <<Phase, LiveWorkers, Held>>

\* Steps that change none of the variables the mapping reads, or only between
\* points it does not tell apart, are stuttering steps of the lifecycle.
LEMMA SameMapping ==
  ASSUME handler' = handler, registered' = registered, connOpen' = connOpen,
         (proc' = "running") <=> (proc = "running"),
         (reader' \in {"off", "done"}) <=> (reader \in {"off", "done"}),
         (writer' \in {"off", "done"}) <=> (writer \in {"off", "done"}),
         (renderer' \in {"off", "done"}) <=> (renderer \in {"off", "done"})
  PROVE  UNCHANGED MappedVars
<1>1. UNCHANGED Phase
  BY DEF Phase
<1>2. UNCHANGED LiveWorkers
  BY DEF LiveWorkers, Workers, WorkerPc
<1>3. UNCHANGED Held
  BY DEF Held
<1> QED BY <1>1, <1>2, <1>3 DEF MappedVars

LEMMA InitRefines == Init => Lifecycle!Init
<1> SUFFICES ASSUME Init PROVE Lifecycle!Init
  OBVIOUS
<1>1. Phase = "accepted"
  BY DEF Init, Phase
<1>2. LiveWorkers = {}
  BY DEF Init, LiveWorkers, Workers, WorkerPc
<1>3. Held = {"conn"}
  BY DEF Init, Held
<1> QED BY <1>1, <1>2, <1>3 DEF Lifecycle!Init

\* One step of the request goroutine is one step of the lifecycle, or none.
LEMMA HandlerRefines ==
  ASSUME IInv, Handler
  PROVE  Lifecycle!Next \/ UNCHANGED MappedVars
<1> USE DEF Workers, WorkerPc, LiveWorkers, Phase, serverVars
<1>1. CASE Register
  <2>1. Phase = "accepted" /\ Phase' = "accepted" /\ UNCHANGED LiveWorkers
    BY <1>1 DEF Register
  <2>2. Held = {"conn"} /\ Held' = {"conn", "entry"}
    BY <1>1 DEF Register, Held, IInv, HandlerHolds, ProcessWatched
  <2> QED BY <2>1, <2>2 DEF Lifecycle!Next, Lifecycle!Track
<1>2. CASE StartWorkers
  <2>1. Phase = "accepted" /\ Phase' = "booting"
    BY <1>2 DEF StartWorkers
  <2>2. Held = {"conn", "entry"} /\ UNCHANGED Held
    BY <1>2 DEF StartWorkers, Held, IInv, HandlerHolds, ProcessWatched
  <2>3. LiveWorkers' = Workers \ {"renderer"}
    BY <1>2 DEF StartWorkers, IInv, HandlerStages
  <2> QED BY <2>1, <2>2, <2>3 DEF Lifecycle!Next, Lifecycle!Boot
<1>3. CASE SendHello \/ ReportFailure
  BY <1>3, SameMapping DEF SendHello, ReportFailure, Phase, LiveWorkers, Held, MappedVars
<1>4. CASE Launch
  <2>1. Phase = "booting" /\ Phase' = "booting" /\ UNCHANGED LiveWorkers
    BY <1>4 DEF Launch
  <2>2. "process" \notin Held
    BY <1>4 DEF Launch, Held, IInv, ProcessWatched
  <2>3. Held' \in {Held, Held \cup {"process"}}
    <3>1. UNCHANGED <<connOpen, registered>> /\ proc = "none" /\ proc' \in {"none", "running"}
      BY <1>4 DEF Launch, IInv, ProcessWatched
    <3>2. CASE proc' = "none"
      BY <3>1, <3>2 DEF Held
    <3>3. CASE proc' = "running"
      BY <3>1, <3>3 DEF Held
    <3> QED BY <3>1, <3>2, <3>3
  <2> QED BY <2>1, <2>2, <2>3 DEF Lifecycle!Next, Lifecycle!Acquire, MappedVars
<1>5. CASE CancelFailed \/ SpawnRenderer
  <2>1. Phase = "booting" /\ Phase' = "serving"
    BY <1>5 DEF CancelFailed, SpawnRenderer
  <2>2. \/ LiveWorkers' = LiveWorkers
        \/ SpawnRenderer /\ LiveWorkers' = LiveWorkers \cup {"renderer"}
    <3>1. CASE CancelFailed
      BY <3>1 DEF CancelFailed
    <3>2. CASE SpawnRenderer
      BY <3>2 DEF SpawnRenderer, IInv, HandlerStages
    <3> QED BY <1>5, <3>1, <3>2
  <2>3. UNCHANGED Held /\ (CancelFailed => "process" \notin Held)
    BY <1>5 DEF CancelFailed, SpawnRenderer, Held, IInv, ProcessWatched
  <2>4. SpawnRenderer => "renderer" \in LiveWorkers'
    BY DEF SpawnRenderer
  <2> QED BY <1>5, <2>1, <2>2, <2>3, <2>4 DEF Lifecycle!Next, Lifecycle!Serve
<1>6. CASE Wait
  <2>1. UNCHANGED <<Phase, LiveWorkers, Held>>
    BY <1>6 DEF Wait, Held
  <2> QED BY <2>1 DEF MappedVars
<1>7. CASE Remove
  <2>1. Phase = "serving" /\ Phase' = "over" /\ UNCHANGED LiveWorkers
    BY <1>7 DEF Remove
  <2>2. LiveWorkers = {} /\ "process" \notin Held
    BY <1>7 DEF Remove, Held, IInv, TypeOK, ControlType, WorkersCounted, Counted,
           HandlerStages, ProcessWatched
  <2>3. Held' = {}
    BY <1>7, <2>2 DEF Remove, Held
  <2> QED BY <2>1, <2>2, <2>3 DEF Lifecycle!Next, Lifecycle!Finish
<1> QED BY <1>1, <1>2, <1>3, <1>4, <1>5, <1>6, <1>7 DEF Handler

\* A worker's last step is its Leave.
LEMMA LeaveRefines ==
  ASSUME IInv, ReaderLeave \/ WriterLeave \/ RendererLeave
  PROVE  Lifecycle!Next
<1>1. UNCHANGED <<Phase, Held>>
  BY DEF ReaderLeave, WriterLeave, RendererLeave, Phase, Held
<1>2. CASE ReaderLeave
  <2>1. "reader" \in LiveWorkers /\ LiveWorkers' = LiveWorkers \ {"reader"}
    BY <1>2 DEF ReaderLeave, LiveWorkers, Workers, WorkerPc
  <2>2. Lifecycle!Leave("reader")
    BY <1>1, <2>1 DEF Lifecycle!Leave
  <2> QED BY <2>2 DEF Lifecycle!Next, Workers
<1>3. CASE WriterLeave
  <2>1. "writer" \in LiveWorkers /\ LiveWorkers' = LiveWorkers \ {"writer"}
    BY <1>3 DEF WriterLeave, LiveWorkers, Workers, WorkerPc
  <2>2. Lifecycle!Leave("writer")
    BY <1>1, <2>1 DEF Lifecycle!Leave
  <2> QED BY <2>2 DEF Lifecycle!Next, Workers
<1>4. CASE RendererLeave
  <2>1. "renderer" \in LiveWorkers /\ LiveWorkers' = LiveWorkers \ {"renderer"}
    BY <1>4 DEF RendererLeave, LiveWorkers, Workers, WorkerPc
  <2>2. "process" \notin Held
    BY <1>4 DEF RendererLeave, Held, IInv, HandlerStages, ProcessWatched
  <2>3. Lifecycle!Leave("renderer")
    BY <1>1, <2>1, <2>2 DEF Lifecycle!Leave
  <2> QED BY <2>3 DEF Lifecycle!Next, Workers
<1> QED BY <1>2, <1>3, <1>4

\* The process goes, or is killed, outside the request goroutine.
LEMMA ReleaseRefines ==
  ASSUME IInv, Disconnect \/ BackendDies \/ Reap
  PROVE  Lifecycle!Next \/ UNCHANGED MappedVars
<1>1. UNCHANGED <<Phase, LiveWorkers>>
  BY DEF Disconnect, BackendDies, Reap, serverVars, Phase, LiveWorkers, Workers, WorkerPc
<1>2. \/ UNCHANGED Held
      \/ "process" \in Held /\ Held' = Held \ {"process"}
  BY DEF Disconnect, BackendDies, Reap, serverVars, Held
<1> QED BY <1>1, <1>2 DEF Lifecycle!Next, Lifecycle!Release, MappedVars

LEMMA StepRefines ==
  IInv /\ [Next]_vars => [Lifecycle!Next]_(Lifecycle!vars)
<1> SUFFICES ASSUME IInv, [Next]_vars PROVE Lifecycle!Next \/ UNCHANGED MappedVars
  BY DEF Lifecycle!vars, MappedVars
<1>1. CASE Handler
  BY <1>1, HandlerRefines
<1>2. CASE Reader /\ ~ReaderLeave
  BY <1>2, SameMapping DEF Reader, ReaderCheck, ReaderRead, ReaderFail, ReaderCancel
<1>3. CASE Writer /\ ~WriterLeave
  BY <1>3, SameMapping
     DEF Writer, WriterStop, WriterTake, WriterHeartbeat, WriterWrite, WriterFail
<1>4. CASE Renderer /\ ~RendererLeave /\ ~Disconnect
  BY <1>4, SameMapping
     DEF Renderer, RendererSend, RendererCancelled, SendErrorAndStop, BackendExited,
         WindowTimeout, WindowFound, CaptureFrame, IInv, TypeOK, QueueType
<1>5. CASE ReaderLeave \/ WriterLeave \/ RendererLeave
  BY <1>5, LeaveRefines
<1>6. CASE Disconnect \/ BackendDies \/ Reap
  BY <1>6, ReleaseRefines
<1>7. CASE Client \/ UNCHANGED vars
  BY <1>7, SameMapping
     DEF Client, ClientReceive, ClientSend, ClientLeave, vars, serverVars
<1> QED BY <1>1, <1>2, <1>3, <1>4, <1>5, <1>6, <1>7 DEF Next

\* Every behaviour of a session is a behaviour of the abstract lifecycle.
THEOREM Refinement == Spec => ImplementsLifecycle
<1>1. Spec => Lifecycle!Init /\ [][Lifecycle!Next]_(Lifecycle!vars)
  BY InitRefines, StepRefines, InvariantHolds, PTL DEF Spec
<1> QED BY <1>1 DEF ImplementsLifecycle, Lifecycle!Spec

=============================================================================
