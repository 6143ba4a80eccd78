------------------------------ MODULE Session ------------------------------
(***************************************************************************)
(* One browser session of the gateway: the goroutine that serves the HTTP  *)
(* request (Server.ServeHTTP), the three workers it starts (readWorker,    *)
(* writeWorker and the rendering goroutine), the RDP client process with   *)
(* the goroutine that waits for it, and the browser at the other end of    *)
(* the WebSocket.  The goroutines share the write channel, the context     *)
(* and the wait group of session.Session.                                  *)
(*                                                                         *)
(* A goroutine is a program counter; one action is the code between two    *)
(* points at which another goroutine can see it.  A Go select is a choice  *)
(* among the cases that are ready.  Pictures are reduced to the number of  *)
(* the frame they belong to (the capture loop's streamCounter).  What ends *)
(* the whole program, a panic, is in module Gateway.                       *)
(***************************************************************************)
EXTENDS Integers, Sequences

CONSTANTS
  Capacity,   \* capacity of writeCh
  SocketCap,  \* instructions the network holds in either direction
  MaxBlobs,   \* bound: chunks one captured frame is cut into
  MaxFrames,  \* bound: frames one session captures
  Native      \* TRUE for NativeBackend, which launches no process

ASSUME SessionAssumption ==
  /\ Capacity \in Nat \ {0}
  /\ SocketCap \in Nat \ {0}
  /\ MaxBlobs \in Nat \ {0}
  /\ MaxFrames \in Nat
  /\ Native \in BOOLEAN

VARIABLES
  handler,     \* where ServeHTTP is
  reader,      \* where readWorker is
  writer,      \* where writeWorker is
  renderer,    \* where the rendering goroutine is
  registered,  \* the session is in Manager.sessions
  ctxDone,     \* Session.ctx is cancelled
  connOpen,    \* the server has not closed the WebSocket
  wg,          \* counter of Session.wg
  writeCh,     \* the buffered channel of instructions
  inHand,      \* the instruction writeWorker is writing, if any
  todo,        \* instructions the renderer still has to put into writeCh
  resume,      \* where the renderer goes when todo is empty
  frames,      \* streamCounter of the capture loop
  proc,        \* the RDP client process
  down, up,    \* bytes in flight to the browser, and from it
  gone,        \* the browser closed its socket, or the network lost it
  client       \* what the browser's Guacamole client has made of `down'

serverVars == <<handler, reader, writer, renderer, registered, ctxDone, connOpen, wg>>
queueVars  == <<writeCh, inHand, todo, resume, frames>>
peerVars   == <<down, up, gone, client>>
vars       == <<serverVars, queueVars, proc, peerVars>>

-----------------------------------------------------------------------------
(* Instructions                                                            *)

Opcodes     == {"uuid", "size", "img", "blob", "end", "sync", "nop", "error"}
Instruction == [op : Opcodes, stream : 0..MaxFrames]

Plain(op)   == [op |-> op, stream |-> 0]
Part(op, n) == [op |-> op, stream |-> n]

\* Faulty: the stream is never ended.
FrameWithoutEnd(n, blobs) ==
  <<Part("img", n)>> \o [i \in 1..blobs |-> Part("blob", n)] \o <<Plain("sync")>>

\* A captured frame as the capture loop sends it: the image stream, cut into
\* chunks of 6000 characters, and the sync that ends the frame.
FrameInstructions(n, blobs) ==
  <<Part("img", n)>> \o [i \in 1..blobs |-> Part("blob", n)]
    \o <<Part("end", n), Plain("sync")>>

\* What the browser may send.  "ignored" is every opcode whose handler
\* returns nil: sync, nop, ack, the empty opcode, mouse, key, unknown ones.
ClientOps == {"ignored", "disconnect", "malformed"}

\* Session.Send: a select over the context, the channel and a default case.
Send(ins) ==
  \/ /\ ctxDone
     /\ UNCHANGED writeCh
  \/ /\ Len(writeCh) < Capacity
     /\ writeCh' = Append(writeCh, ins)
  \/ /\ ~ctxDone /\ Len(writeCh) >= Capacity
     /\ UNCHANGED writeCh

-----------------------------------------------------------------------------
(* Faulty variants of the steps below, each a slip this code could have    *)
(* had; the properties are checked against them.                           *)

\* wg.Add(1) for the two workers.
StartWorkersMiscounted ==
  /\ handler = "start" /\ handler' = "hello"
  /\ wg' = wg + 1
  /\ reader' = "check" /\ writer' = "select"
  /\ UNCHANGED <<renderer, registered, ctxDone, connOpen, queueVars, proc, peerVars>>

\* The session closed but left in the table.
RemoveKeepsEntry ==
  /\ handler = "remove" /\ handler' = "done"
  /\ ctxDone' = TRUE /\ connOpen' = FALSE
  /\ UNCHANGED <<reader, writer, renderer, registered, wg, queueVars, proc, peerVars>>

\* readWorker without its select on the context.
ReaderIgnoresContext ==
  /\ reader = "check" /\ reader' = "read"
  /\ UNCHANGED <<handler, writer, renderer, registered, ctxDone, connOpen, wg,
                 queueVars, proc, peerVars>>

\* readWorker without its deferred cancel.
ReaderFailsQuietly ==
  /\ reader = "read" /\ (gone \/ ~connOpen)
  /\ reader' = "leave"
  /\ UNCHANGED <<handler, writer, renderer, registered, ctxDone, connOpen, wg,
                 queueVars, proc, peerVars>>

\* readWorker without its deferred wg.Done.
ReaderLeaveUncounted ==
  /\ reader = "leave" /\ reader' = "done"
  /\ UNCHANGED <<handler, writer, renderer, registered, ctxDone, connOpen, wg,
                 queueVars, proc, peerVars>>

\* The heartbeat queued through the channel instead of written.
HeartbeatQueued ==
  /\ writer = "select" /\ Len(writeCh) < Capacity
  /\ writeCh' = Append(writeCh, Plain("nop"))
  /\ UNCHANGED <<serverVars, inHand, todo, resume, frames, proc, peerVars>>

\* The renderer sends as Session.Send does, dropping what finds no room.
RendererSendOrDrop ==
  /\ renderer = "send" /\ Send(Head(todo)) /\ todo' = Tail(todo)
  /\ renderer' = IF Tail(todo) = <<>> THEN resume ELSE "send"
  /\ UNCHANGED <<handler, reader, writer, registered, ctxDone, connOpen, wg,
                 inHand, resume, frames, proc, peerVars>>

\* StartRendering returns on cancellation without its deferred Disconnect.
CancelledWithoutDisconnect ==
  /\ renderer \in {"poll", "capture"} /\ ctxDone
  /\ renderer' = "leave"
  /\ UNCHANGED <<handler, reader, writer, registered, ctxDone, connOpen, wg,
                 queueVars, proc, peerVars>>

\* The error is sent but the loop goes on.
SendErrorAndGoOn ==
  /\ renderer' = "send" /\ todo' = <<Plain("error")>> /\ resume' = "capture"
  /\ UNCHANGED <<handler, reader, writer, registered, ctxDone, connOpen, wg,
                 writeCh, inHand, frames, proc, peerVars>>

\* The exit of the process ends the loop without a word to the browser.
BackendExitedSilently ==
  /\ renderer \in {"poll", "capture"} /\ proc = "reaped"
  /\ renderer' = "disconnect"
  /\ UNCHANGED <<handler, reader, writer, registered, ctxDone, connOpen, wg,
                 queueVars, proc, peerVars>>

-----------------------------------------------------------------------------
Init ==
  /\ handler = "create" /\ reader = "off" /\ writer = "off" /\ renderer = "off"
  /\ registered = FALSE /\ ctxDone = FALSE /\ connOpen = TRUE /\ wg = 0
  /\ writeCh = <<>> /\ inHand = <<>> /\ todo = <<>> /\ resume = "poll" /\ frames = 0
  /\ proc = "none"
  /\ down = <<>> /\ up = <<>> /\ gone = FALSE
  /\ client = [hello |-> FALSE, open |-> 0, shown |-> 0, failed |-> FALSE]

-----------------------------------------------------------------------------
(* The request goroutine: ServeHTTP, Start, startBackend, RemoveSession    *)

Register ==
  /\ handler = "create" /\ handler' = "start"
  /\ registered' = TRUE
  /\ UNCHANGED <<reader, writer, renderer, ctxDone, connOpen, wg, queueVars, proc, peerVars>>

StartWorkers ==
  /\ handler = "start" /\ handler' = "hello"
  /\ wg' = wg + 2
  /\ reader' = "check" /\ writer' = "select"
  /\ UNCHANGED <<renderer, registered, ctxDone, connOpen, queueVars, proc, peerVars>>

SendHello ==
  /\ handler = "hello" /\ handler' = "launch"
  /\ Send(Plain("uuid"))
  /\ UNCHANGED <<reader, writer, renderer, registered, ctxDone, connOpen, wg,
                 inHand, todo, resume, frames, proc, peerVars>>

\* CaptureClient.Connect.  A process backend starts its process or fails to;
\* the native one starts none and connects through its library.
Launch ==
  /\ handler = "launch"
  /\ \/ handler' = "spawn" /\ proc' = IF Native THEN "none" ELSE "running"
     \/ handler' = "report" /\ UNCHANGED proc
  /\ UNCHANGED <<reader, writer, renderer, registered, ctxDone, connOpen, wg, queueVars, peerVars>>

ReportFailure ==
  /\ handler = "report" /\ handler' = "cancel"
  /\ Send(Plain("error"))
  /\ UNCHANGED <<reader, writer, renderer, registered, ctxDone, connOpen, wg,
                 inHand, todo, resume, frames, proc, peerVars>>

CancelFailed ==
  /\ handler = "cancel" /\ handler' = "wait"
  /\ ctxDone' = TRUE
  /\ UNCHANGED <<reader, writer, renderer, registered, connOpen, wg, queueVars, proc, peerVars>>

SpawnRenderer ==
  /\ handler = "spawn" /\ handler' = "wait"
  /\ wg' = wg + 1
  /\ renderer' = "send" /\ todo' = <<Plain("size")>> /\ resume' = "poll"
  /\ UNCHANGED <<reader, writer, registered, ctxDone, connOpen,
                 writeCh, inHand, frames, proc, peerVars>>

Wait ==
  /\ handler = "wait" /\ handler' = "remove"
  /\ wg = 0
  /\ UNCHANGED <<reader, writer, renderer, registered, ctxDone, connOpen, wg,
                 queueVars, proc, peerVars>>

Remove ==
  /\ handler = "remove" /\ handler' = "done"
  /\ ctxDone' = TRUE /\ connOpen' = FALSE /\ registered' = FALSE
  /\ UNCHANGED <<reader, writer, renderer, wg, queueVars, proc, peerVars>>

Handler == \/ Register \/ StartWorkers \/ SendHello \/ Launch \/ ReportFailure
           \/ CancelFailed \/ SpawnRenderer \/ Wait \/ Remove

-----------------------------------------------------------------------------
(* readWorker: parse one instruction, dispatch it, until something fails   *)

ReaderCheck ==
  /\ reader = "check"
  /\ reader' = IF ctxDone THEN "cancel" ELSE "read"
  /\ UNCHANGED <<handler, writer, renderer, registered, ctxDone, connOpen, wg,
                 queueVars, proc, peerVars>>

ReaderRead ==
  /\ reader = "read" /\ up # <<>>
  /\ up' = Tail(up)
  /\ reader' = IF Head(up) = "ignored" THEN "check" ELSE "cancel"
  /\ UNCHANGED <<handler, writer, renderer, registered, ctxDone, connOpen, wg,
                 queueVars, proc, down, gone, client>>

ReaderFail ==
  /\ reader = "read" /\ (gone \/ ~connOpen)
  /\ reader' = "cancel"
  /\ UNCHANGED <<handler, writer, renderer, registered, ctxDone, connOpen, wg,
                 queueVars, proc, peerVars>>

ReaderCancel ==
  /\ reader = "cancel" /\ reader' = "leave"
  /\ ctxDone' = TRUE
  /\ UNCHANGED <<handler, writer, renderer, registered, connOpen, wg,
                 queueVars, proc, peerVars>>

ReaderLeave ==
  /\ reader = "leave" /\ reader' = "done"
  /\ wg' = wg - 1
  /\ UNCHANGED <<handler, writer, renderer, registered, ctxDone, connOpen,
                 queueVars, proc, peerVars>>

Reader == ReaderCheck \/ ReaderRead \/ ReaderFail \/ ReaderCancel \/ ReaderLeave

-----------------------------------------------------------------------------
(* writeWorker: context, channel or heartbeat, then one blocking write     *)

WriterStop ==
  /\ writer = "select" /\ ctxDone
  /\ writer' = "leave"
  /\ UNCHANGED <<handler, reader, renderer, registered, ctxDone, connOpen, wg,
                 queueVars, proc, peerVars>>

WriterTake ==
  /\ writer = "select" /\ writeCh # <<>>
  /\ writer' = "write"
  /\ inHand' = <<Head(writeCh)>> /\ writeCh' = Tail(writeCh)
  /\ UNCHANGED <<handler, reader, renderer, registered, ctxDone, connOpen, wg,
                 todo, resume, frames, proc, peerVars>>

WriterHeartbeat ==
  /\ writer = "select"
  /\ writer' = "write"
  /\ inHand' = <<Plain("nop")>>
  /\ UNCHANGED <<handler, reader, renderer, registered, ctxDone, connOpen, wg,
                 writeCh, todo, resume, frames, proc, peerVars>>

WriterWrite ==
  /\ writer = "write" /\ connOpen /\ Len(down) < SocketCap
  /\ writer' = "select"
  /\ down' = down \o inHand /\ inHand' = <<>>
  /\ UNCHANGED <<handler, reader, renderer, registered, ctxDone, connOpen, wg,
                 writeCh, todo, resume, frames, proc, up, gone, client>>

\* A write error ends the worker.  Unlike readWorker it does not cancel the
\* context, and the instruction it held is lost with it.
WriterFail ==
  /\ writer = "write" /\ (gone \/ ~connOpen)
  /\ writer' = "leave"
  /\ UNCHANGED <<handler, reader, renderer, registered, ctxDone, connOpen, wg,
                 queueVars, proc, peerVars>>

WriterLeave ==
  /\ writer = "leave" /\ writer' = "done"
  /\ wg' = wg - 1
  /\ UNCHANGED <<handler, reader, renderer, registered, ctxDone, connOpen,
                 queueVars, proc, peerVars>>

Writer == \/ WriterStop \/ WriterTake \/ WriterHeartbeat
          \/ WriterWrite \/ WriterFail \/ WriterLeave

-----------------------------------------------------------------------------
(* The rendering goroutine: StartRendering and its deferred Disconnect     *)

\* writeCh <- ins: waits for room whatever happens to the context.
RendererSend ==
  /\ renderer = "send" /\ Len(writeCh) < Capacity
  /\ writeCh' = Append(writeCh, Head(todo)) /\ todo' = Tail(todo)
  /\ renderer' = IF Tail(todo) = <<>> THEN resume ELSE "send"
  /\ UNCHANGED <<handler, reader, writer, registered, ctxDone, connOpen, wg,
                 inHand, resume, frames, proc, peerVars>>

RendererCancelled ==
  /\ renderer \in {"poll", "capture"} /\ ctxDone
  /\ renderer' = "disconnect"
  /\ UNCHANGED <<handler, reader, writer, registered, ctxDone, connOpen, wg,
                 queueVars, proc, peerVars>>

SendErrorAndStop ==
  /\ renderer' = "send" /\ todo' = <<Plain("error")>> /\ resume' = "disconnect"
  /\ UNCHANGED <<handler, reader, writer, registered, ctxDone, connOpen, wg,
                 writeCh, inHand, frames, proc, peerVars>>

\* The wait goroutine has delivered the exit of the process on cmdWaitErr.
BackendExited ==
  /\ renderer \in {"poll", "capture"} /\ proc = "reaped"
  /\ SendErrorAndStop

WindowTimeout ==
  /\ renderer = "poll"
  /\ SendErrorAndStop

\* FindWindowByPID finds the window; it is hidden and capturing begins.  A
\* poll that finds none changes nothing.
WindowFound ==
  /\ renderer = "poll" /\ proc = "running"
  /\ renderer' = "capture"
  /\ UNCHANGED <<handler, reader, writer, registered, ctxDone, connOpen, wg,
                 queueVars, proc, peerVars>>

\* A tick of the capture loop that finds changed pixels.  A tick without
\* window, picture or change goes round the loop and changes nothing here.
CaptureFrame(blobs) ==
  /\ renderer = "capture" /\ proc = "running" /\ frames < MaxFrames
  /\ frames' = frames + 1
  /\ renderer' = "send" /\ resume' = "capture"
  /\ todo' = FrameInstructions(frames', blobs)
  /\ UNCHANGED <<handler, reader, writer, registered, ctxDone, connOpen, wg,
                 writeCh, inHand, proc, peerVars>>

\* CaptureClient.Disconnect cancels the process context and kills.
Disconnect ==
  /\ renderer = "disconnect" /\ renderer' = "leave"
  /\ proc' = IF proc = "running" THEN "exited" ELSE proc
  /\ UNCHANGED <<handler, reader, writer, registered, ctxDone, connOpen, wg,
                 queueVars, peerVars>>

RendererLeave ==
  /\ renderer = "leave" /\ renderer' = "done"
  /\ wg' = wg - 1
  /\ UNCHANGED <<handler, reader, writer, registered, ctxDone, connOpen,
                 queueVars, proc, peerVars>>

Renderer == \/ RendererSend \/ RendererCancelled \/ BackendExited
            \/ WindowTimeout \/ WindowFound \/ Disconnect \/ RendererLeave
            \/ \E blobs \in 1..MaxBlobs : CaptureFrame(blobs)

-----------------------------------------------------------------------------
(* The RDP client process and the goroutine in cmd.Wait                    *)

BackendDies ==
  /\ proc = "running" /\ proc' = "exited"
  /\ UNCHANGED <<serverVars, queueVars, peerVars>>

Reap ==
  /\ proc = "exited" /\ proc' = "reaped"
  /\ UNCHANGED <<serverVars, queueVars, peerVars>>

-----------------------------------------------------------------------------
(* The browser                                                             *)

\* The Guacamole client keeps one picture stream open between img and end;
\* it answers an error instruction by disconnecting.
Received(c, ins) ==
  [c EXCEPT !.hello  = @ \/ ins.op = "uuid",
            !.open   = CASE ins.op = "img" -> ins.stream
                         [] ins.op = "end" -> 0
                         [] OTHER -> @,
            !.shown  = IF ins.op = "end" /\ c.open = ins.stream THEN ins.stream ELSE @,
            !.failed = @ \/ ins.op = "error"]

ClientReceive ==
  /\ ~gone /\ down # <<>>
  /\ down' = Tail(down)
  /\ client' = Received(client, Head(down))
  /\ gone' = (Head(down).op = "error")
  /\ UNCHANGED <<serverVars, queueVars, proc, up>>

ClientSend(op) ==
  /\ ~gone /\ connOpen /\ Len(up) < SocketCap
  /\ up' = Append(up, op)
  /\ UNCHANGED <<serverVars, queueVars, proc, down, gone, client>>

ClientLeave ==
  /\ ~gone /\ gone' = TRUE
  /\ UNCHANGED <<serverVars, queueVars, proc, down, up, client>>

Client == ClientReceive \/ ClientLeave \/ \E op \in ClientOps : ClientSend(op)

-----------------------------------------------------------------------------
Next == Handler \/ Reader \/ Writer \/ Renderer \/ BackendDies \/ Reap \/ Client

Spec == Init /\ [][Next]_vars

\* What the Go runtime and the operating system give every run.  Goroutines
\* keep moving; a select among several ready cases picks one of them at random,
\* so a case that is ready again and again is taken: strong fairness.  The timer
\* of the window poll fires.  Nothing is assumed of ticks that find a changed
\* picture, of the heartbeat or of the process dying.
ServerFairness ==
  /\ WF_vars(Handler) /\ WF_vars(Reader)
  /\ SF_vars(WriterStop) /\ SF_vars(WriterTake)
  /\ WF_vars(WriterWrite \/ WriterFail) /\ WF_vars(WriterLeave)
  /\ SF_vars(RendererCancelled) /\ SF_vars(BackendExited)
  /\ WF_vars(WindowTimeout) /\ WF_vars(RendererSend)
  /\ WF_vars(Disconnect) /\ WF_vars(RendererLeave)
  /\ WF_vars(Reap)

\* A connected browser reads what arrives and sends a keep-alive now and then.
ClientFairness == WF_vars(ClientReceive) /\ WF_vars(ClientSend("ignored"))

ServerFairSpec == Spec /\ ServerFairness
FairSpec       == Spec /\ ServerFairness /\ ClientFairness

-----------------------------------------------------------------------------
(* Safety                                                                  *)

HandlerPcs  == {"create", "start", "hello", "launch", "report", "cancel",
                "spawn", "wait", "remove", "done"}
ReaderPcs   == {"off", "check", "read", "cancel", "leave", "done"}
WriterPcs   == {"off", "select", "write", "leave", "done"}
RendererPcs == {"off", "send", "poll", "capture", "disconnect", "leave", "done"}

ControlType ==
  /\ handler \in HandlerPcs /\ reader \in ReaderPcs
  /\ writer \in WriterPcs /\ renderer \in RendererPcs
  /\ wg \in 0..3
  /\ proc \in {"none", "running", "exited", "reaped"}

FlagType ==
  /\ registered \in BOOLEAN /\ ctxDone \in BOOLEAN
  /\ connOpen \in BOOLEAN /\ gone \in BOOLEAN

QueueType ==
  /\ writeCh \in Seq(Instruction) /\ Len(writeCh) <= Capacity
  /\ inHand \in Seq(Instruction) /\ Len(inHand) <= 1
  /\ todo \in Seq(Instruction) /\ (renderer = "send" => todo # <<>>)
  /\ resume \in {"poll", "capture", "disconnect"}
  /\ frames \in 0..MaxFrames

PeerType ==
  /\ down \in Seq(Instruction) /\ Len(down) <= SocketCap
  /\ up \in Seq(ClientOps) /\ Len(up) <= SocketCap
  /\ client \in [hello : BOOLEAN, open : 0..MaxFrames,
                 shown : 0..MaxFrames, failed : BOOLEAN]

\* The type invariant: every goroutine is at one of its points, the channel and
\* the sockets hold no more than they can, and a renderer that sends has
\* something to send.
TypeOK == ControlType /\ FlagType /\ QueueType /\ PeerType

Workers     == {"reader", "writer", "renderer"}
WorkerPc    == [reader |-> reader, writer |-> writer, renderer |-> renderer]
LiveWorkers == {w \in Workers : WorkerPc[w] \notin {"off", "done"}}

\* ServeHTTP removes the session, closing its connection, only when no worker
\* of it runs, although the third worker joins the wait group after the first
\* two may have left it: Wait sees the counter at zero and none can start later.
TeardownAfterWorkers == handler \in {"remove", "done"} => LiveWorkers = {}

\* A session that has ended leaves no RDP client process behind, whichever of
\* the exits of the rendering goroutine was taken and whenever.
NoOrphanBackend == handler = "done" => proc # "running"

\* All that has left the rendering goroutine or waits to, oldest first.
Pipeline == down \o inHand \o writeCh \o todo

Ops(s) == {s[i].op : i \in DOMAIN s}

IsFramePart(ins) == ins.op \in {"img", "blob", "end"}

\* What the browser's place in the picture streams amounts to: the last part it
\* has read.
ClientAt == IF client.open > 0 THEN Part("blob", client.open) ELSE Part("end", client.shown)

Told == <<ClientAt>> \o Pipeline

\* A stream is opened after the end of the one before and goes on until its end.
Follows(part, next) ==
  IF next.op = "img"
  THEN part = Part("end", next.stream - 1)
  ELSE part.stream = next.stream /\ part.op # "end"

NextPart(s, i, j) ==
  /\ i < j /\ IsFramePart(s[i]) /\ IsFramePart(s[j])
  /\ \A k \in (i + 1)..(j - 1) : ~IsFramePart(s[k])

Unbroken(s) == \A i, j \in DOMAIN s : NextPart(s, i, j) => Follows(s[i], s[j])

EndsWith(s, part) ==
  \E i \in DOMAIN s : s[i] = part /\ \A k \in DOMAIN s : k > i => ~IsFramePart(s[k])

\* One picture stream at a time, in frame order, none of its parts missing,
\* repeated or overtaken, from the capture loop through the channel, the writer
\* and the socket to what the browser has open and has shown.
StreamDiscipline ==
  LET told == Told IN Unbroken(told) /\ EndsWith(told, Part("end", frames))

Rank(op) == CASE op = "uuid" -> 1
              [] op = "size" -> 2
              [] op \in {"img", "blob", "end", "sync"} -> 3
              [] op = "error" -> 4

\* What may be said before what.  A heartbeat comes at any time.
Precedes(op, later) ==
  \/ "nop" \in {op, later}
  \/ /\ Rank(op) <= Rank(later)
     /\ op = later => Rank(op) = 3

InOrder(s) == \A i, j \in DOMAIN s : i < j => Precedes(s[i].op, s[j].op)

\* The conversation has an order whoever sends: the tunnel's identifier, the
\* display size, the pictures, an error; after an error only heartbeats follow.
ConversationOrder ==
  LET said == Pipeline
  IN  /\ InOrder(said)
      /\ client.failed => Ops(said) \subseteq {"nop"}

\* Send drops an instruction when the channel is full.  The two the session
\* itself sends, its identifier and the connect error, always find room.
ControlFindsRoom == handler \in {"hello", "report"} => Len(writeCh) < Capacity

\* What the request goroutine has got as far as, and what the session holds.
Phase == CASE handler \in {"create", "start"} -> "accepted"
           [] handler \in {"wait", "remove"}  -> "serving"
           [] handler = "done"                -> "over"
           [] OTHER                           -> "booting"

Held == (IF connOpen THEN {"conn"} ELSE {})
          \cup (IF registered THEN {"entry"} ELSE {})
          \cup (IF proc = "running" THEN {"process"} ELSE {})

Lifecycle == INSTANCE SessionLifecycle
  WITH Renderer <- "renderer", phase <- Phase, live <- LiveWorkers, held <- Held

\* The goroutines, their wait group and their contexts keep the promise of
\* SessionLifecycle: one start, one end, and an end that leaves nothing behind.
ImplementsLifecycle == Lifecycle!Spec

-----------------------------------------------------------------------------
(* The inductive invariant                                                 *)

Counted(pc) == IF pc \in {"off", "done"} THEN 0 ELSE 1

\* The wait group counts exactly the workers that run.
WorkersCounted == wg = Counted(reader) + Counted(writer) + Counted(renderer)

\* What each stretch of the request goroutine knows of the workers.
HandlerStages ==
  /\ handler \in {"create", "start"} => reader = "off" /\ writer = "off"
  /\ handler \in {"create", "start", "hello", "launch", "report", "cancel", "spawn"}
       => renderer = "off"
  /\ handler \in {"remove", "done"} => wg = 0

\* What the request goroutine holds of the session table and the connection.
HandlerHolds ==
  /\ handler = "create" => ~registered
  /\ handler \notin {"create", "done"} => registered
  /\ handler # "done" => connOpen

\* A running process has somebody who will kill it: the request goroutine until
\* it starts the renderer, the renderer until its deferred Disconnect.
ProcessWatched ==
  /\ proc = "running" =>
       handler = "spawn" \/ renderer \in {"send", "poll", "capture", "disconnect"}
  /\ handler \in {"create", "start", "hello", "launch", "report", "cancel"} => proc = "none"

\* writeCh holds no more than what the request goroutine has put there as long
\* as the renderer has not started.
EarlyChannel ==
  /\ handler \in {"create", "start", "hello"} => writeCh = <<>>
  /\ handler \in {"launch", "report"} => Len(writeCh) <= 1

\* A goroutine that is not sending holds nothing it still has to send.
HandsEmpty ==
  /\ writer \in {"off", "select"} => inHand = <<>>
  /\ writer = "write" => Len(inHand) = 1
  /\ renderer # "send" => todo = <<>>

\* Somebody may still have an instruction of the session's own to send.
MayStillSpeak ==
  \/ handler \in {"create", "start", "hello", "launch", "report", "spawn"}
  \/ renderer \in {"poll", "capture"}
  \/ renderer = "send" /\ resume # "disconnect"

\* What has been said by the time a goroutine gets where it is.
Spoken ==
  /\ handler \in {"create", "start", "hello"} => Ops(Pipeline) \subseteq {"nop"}
  /\ handler \in {"launch", "report", "spawn"} => Ops(Pipeline) \subseteq {"uuid", "nop"}
  /\ MayStillSpeak => "error" \notin Ops(Pipeline) /\ ~client.failed

IInv ==
  /\ TypeOK /\ WorkersCounted /\ HandlerStages /\ HandlerHolds
  /\ ProcessWatched /\ EarlyChannel /\ HandsEmpty /\ Spoken

-----------------------------------------------------------------------------
(* Liveness                                                                *)

\* The one way a session fails to end: the rendering goroutine waits for room
\* in a channel that nobody empties any more.
RendererStuck ==
  renderer = "send" /\ Len(writeCh) = Capacity /\ writer = "done"

Ended == handler = "done" \/ RendererStuck

\* When the browser is gone the session ends, without any help of the browser.
ClientLossEndsSession == gone ~> Ended

\* When the context is cancelled, or the RDP client process dies, the session
\* ends, provided the browser behaves: only its traffic or its departure makes
\* readWorker look at the context.
ShutdownCompletes ==
  ClientFairness => (ctxDone \/ proc = "exited" ~> Ended)

\* The death of the RDP client process is reported to a browser that behaves and
\* stays.
BackendLossReported ==
  ClientFairness => (proc = "exited" ~> client.failed \/ gone \/ ctxDone)

\* A captured frame is shown by a browser that behaves and stays.
FrameReachesClient ==
  ClientFairness =>
    \A n \in 1..MaxFrames : frames >= n ~> client.shown >= n \/ gone \/ ctxDone

-----------------------------------------------------------------------------
(* What a comment in the code promises and the code does not keep          *)

\* "trigger shutdown on error" (readWorker), "Wait blocks until the session has
\* completely finished": the browser's loss ends the session, always.
ReadErrorShutsDown == gone ~> handler = "done"
=============================================================================
