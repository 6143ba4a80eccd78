# Guac-RDP: specification and verification

Guac-RDP shows a Windows desktop in a browser. A Go gateway accepts a WebSocket,
launches an RDP client program (`sdl-freerdp`), finds the client's window,
captures it ten times a second, and sends what changed as Guacamole
instructions; the Guacamole JavaScript client in the browser draws them.

This directory holds TLA+ models of that program, the TLC configurations that
check them, and TLAPS proofs of the properties that matter most.
`PROJECT.json` maps every definition to the lines it models, lists the runs,
the hazards of the code, and, for every property, a faulty variant of the code
that the property catches.

    tlc -workers 2 -config Session_safety.cfg Session      # a run
    tlapm SessionProofs.tla                                 # a proof

## 1. Inventory

### The parts, their state and their operations

| Part | State | Operations | Module |
|---|---|---|---|
| `main.go` | the HTTP server, the signal channel | serve, exit on a signal | `Gateway` |
| `websocket/server.go`, `session/manager.go` | the table of sessions and its lock | upgrade, create, start, wait, remove | `Gateway`, `Session` |
| `session/session.go` | the write channel (100), context, wait group, three worker goroutines | Start, Send, Wait, Close, readWorker, writeWorker | `Session`, `SessionLifecycle` |
| `rdp/capture.go` | the process, the last picture, the stream counter | Connect, StartRendering, Disconnect | `Session`, `FrameDiff`, `WindowCapture` |
| `renderer/encoder.go` | none | ExtractDirtyRect | `FrameDiff` |
| `rdp/capture_window.go` | GDI objects, callbacks | FindWindowByPID, HideWindow, CaptureWindow | `WindowCapture`, `Gateway`, `FrameDiff` |
| `rdp/backend.go`, `xfreerdp_backend.go` | the RDP client process, the goroutine that waits for it | Launch | `Session` |
| `rdp/default_backend_freerdp.go`, `freerdp_*.go`, `c_helpers.c` | a native context | Connect, StartRender, Disconnect | `Session` (`Native`) |
| `guac/*.go`, `wsReader`, `wsWriter` | a partly read message, the elements of an instruction | ReadInstruction, String, WriteInstruction, Dispatch | `Instructions`, `InstructionReader` |
| `loggers/logger.go` | the table of loggers, the global one, the files | SetGlobalLogPath, Get, Info | `Logger` |
| `WebSocketTunnel` in the browser | state, identifier, four timers | connect, sendMessage, onmessage, sendPing | `TunnelReceive`, `TunnelTimers` |
| `Client.js`, drawing | layers by index, the last timestamp | the drawing instructions, sync, exportState, importState | `ClientDisplay`, `TransferFunctions` |
| `Client.js`, streams | client state, the pool of indices, output and input streams, objects | connect, disconnect, send..., create...Stream, endStream, ack, blob, end and the instructions that open streams | `ClientStreams` |
| `Client.js`, keep-alive | one timer, the time of the last nop | sendKeepAlive, scheduleKeepAlive | `TunnelTimers` |
| `Display.js` | tasks, frames, layers and their tree, the cursor | scheduleTask, flush, unblock, cancel, each drawing operation, flatten | `ClientDisplay`, `Layers` |
| `grdp_client.go`, `client.go` | alternative renderers | nothing constructs them | no |

The page loads the tunnel, the client and the display from
`static/node_modules/guacamole-common-js/dist/esm/guacamole-common.js`;
`static/Client.js` and `static/Display.js` are later versions of parts of it, which
the page does not load. They are modelled as they are; a difference that matters
is listed under *Disagreements*.
`SDL3/` is build output of another project.

The tree as committed does not compile: `defaultBackend` is not defined,
`backend.go`, `xfreerdp_backend.go` and `default_backend_freerdp.go` lack
imports, and `NewNativeClient` is defined twice. What is modelled is what the
source says, with `defaultBackend` the SDL backend, as its callers assume. The
logs beside the sources show runs of an earlier build of it.

### How they interact

    browser --messages--> wsReader --> Parser --> Dispatcher      (readWorker)
    capture loop --writeCh--> Encoder --> wsWriter --messages--> browser
                              (writeWorker, with a nop every 5 seconds)
    any worker --cancel--> context --> the others; wait group --> ServeHTTP
    StartRendering --Launch/Kill--> RDP process --exit--> cmdWaitErr
    WebSocketTunnel --oninstruction--> Client --tasks, flush--> Display
    Display --callback of a shown frame--> Client --sync, ack, nop--> WebSocketTunnel

A session is five goroutines of one program (the request's, reader, writer,
renderer, and the one in `cmd.Wait`), a process and a browser. They share a
channel, a context and a wait group. Sessions share the table, the log file,
and the limits of one program.

### What is hard, and what makes each part correct

* **Session.** Any worker can fail at any step, while another is blocked. Correct:
  the connection is torn down only after the workers (`TeardownAfterWorkers`),
  no RDP process stays (`NoOrphanBackend`), the browser gets an orderly
  conversation with whole pictures (`StreamDiscipline`, `ConversationOrder`),
  and every loss ends the session (`ClientLossEndsSession`,
  `ShutdownCompletes`).
* **Capturing.** Patches are computed against the last capture, not against what the
  browser shows; pictures change their size. Correct: the canvas always shows the
  last picture captured (`CanvasShowsCapture`) and converges to the window
  (`Converges`).
* **Window.** The client's windows change between the Win32 calls of one capture.
  Correct: GDI objects are lost only when they do or a call fails
  (`LeaksOnlyDisturbed`), and a window that stays is captured at last, as long as
  the loop has not ended (`CapturedAtLast`).
* **Codec.** Reads end anywhere, contents look like notation. Correct: what is sent is
  what is received (`ImplementsChannel`, `ReceivedAsSent`).
* **Timing.** A heartbeat, a delay and a timeout. Correct: the browser gives up exactly
  the servers that stopped writing (`GivesUpOnlySilence`, `SilenceNoticed`), and
  the client's keep-alives go on (`KeepAliveInTime`).
* **Drawing.** Instructions become tasks, tasks frames, and a frame is shown when its
  images have loaded, in whatever order they do; layers are made and disposed,
  and their indices used again, at once. Correct: what is drawn is what immediate
  execution draws (`ImplementsImmediate`), the layers stay a tree
  (`TreeConsistent`) that is painted in its order (`FlattenPaintersOrder`), a frame
  is acknowledged when it is shown (`AckedMeansShown`) and waits for nothing but
  its own images (`EveryFrameSettles`) and a frame with an `lstroke`, which stops the
  display for good (`AcksStopAtLstroke`).
* **Streams.** Both sides use indices again, and answers are under way meanwhile.
  Correct: no index leaks or is given twice (`PoolPartition`), and data concerns the
  stream it was written along, in both directions (`WritesReachTheirStream`,
  `BlobsReachTheirStream`). Answers need not (`AckReachesItsStream` is violated).
* **Program.** Concurrent handlers and one table (`MapExclusive`, `TableComplete`,
  `SessionsKeepLifecycle`, `LockAcquired`), one table of loggers
  (`GlobalIsInTable` and `OwnFile`, which are proved).

## 2. The modules

### Session, SessionLifecycle, SessionProofs

`Session` is one session in full. Each goroutine is a program counter; one
action is the code between two points at which another goroutine can observe
it: a channel operation, a blocking read or write, the context, the wait group.
A Go `select` is a choice among the cases that are ready. `handler` is
`ServeHTTP` through `CreateSession`, `Start`, `startBackend`, `Wait` and
`RemoveSession`; `reader`, `writer` and `renderer` are the three workers, with
their deferred calls as steps in the order Go runs them. `RendererSend` waits
for room in `writeCh` as the code does, without looking at the context.
A picture is its stream number. `BackendDies` and `Reap` are the process and the
goroutine in `cmd.Wait`. The browser reads, sends (something ignored, a
disconnect, something malformed) and leaves.

`SessionLifecycle` is the promise: a session is accepted, boots, serves and is
over; the renderer starts at most once; when it is over nothing of it is held.
`Session` implements it under the mapping at the end of the module
(`ImplementsLifecycle`), and `Gateway` uses it for each of its sessions.

### Gateway, GatewayProofs

The program: `main`, the handlers of all connections through the table's lock
(`CreateLock`/`CreateInsert`, `RemoveLock`/`RemoveDelete` are the two halves of
the critical sections), and the callbacks of Windows. `FindWindow` is
`FindWindowByPID`, which creates one callback per call. `ReaderPanics` is the length that
`Atoi` reads and `make` does not allocate (parser.go:43-50): the panic of one reader ends
the program. What a session does inside is reduced to its workers and its process;
`Session` has the detail.

### FrameDiff (proofs in CaptureProofs)

`ExtractDirtyRect` pixel by pixel (`ScanPixel`, `Widen`, `ScanEnd`), inside the
capture loop (`Capture`: a tick that captures, with or without a picture to
compare with), with the browser's canvas as the place where the patches end
up. A window may change its picture and its size at any time (`Redraw`); an all
black picture is not captured (`Valid`, as `CaptureWindow` decides). `Send` replaces the
picture compared with before it encodes, and sends nothing when PNG does not encode the
part (`Encodable`): PNG writes to memory, so only a part of no size fails, and
`CanvasShowsCapture` depends on there being none.

### WindowCapture (proofs in CaptureProofs)

The polling and the capturing loop with the Win32 calls of `CaptureWindow`, one
action each; between any two of them the client may open, minimise, restore or
close a window, turn it black, or exit, and a call may fail though nothing has changed
(`CallFails`). The poll gives up after `StartupPolls` ticks (`StartupTimeout`; the timer and
the last tick are due together, and either may win), and both loops end when the context
is cancelled or the process has ended. A black picture is an error (`Validate`). `held` and `selected` are what the deferred calls give back:
`DeleteObject` runs before `DeleteDC` and fails on a bitmap that is still
selected. Its `WCSpec` and the `TRSpec` of `TunnelReceive` have prefixes so that one
module of proofs can extend both halves of the capture client, and another both
directions of the codec.

### Instructions, Messages, InstructionChannel, InstructionReader, TunnelReceive, CodecProofs

`Instructions` has the notation and what each side counts, `Messages` the variables that
both directions have: what is sent and on its way, what the receiver goes through and
has given on. `InstructionReader` is the upstream direction: messages,
`wsReader.Read` with every split, the buffer of `bufio` and the parser an octet at a time; it implements
`InstructionChannel`, a queue of whole instructions. `TunnelReceive` is the
downstream direction: the loop of `onmessage` with JavaScript's `substring`,
`indexOf` and `parseInt` by what they return (`NaN` and indices out of range
included). The lengths are the ones the sender writes: signs, and lengths too large for
`Atoi` or `make`, do not occur in the browser's messages (`Gateway` has what they would do).
Numerals have base 2 in the runs so that lengths of several digits
occur with short texts; nothing in the code depends on the base.

### TunnelTimers, TunnelTimersProofs

The clocks in ticks of half a second: ping, unstable, timeout, heartbeat, and
messages that travel up to `MaxDelay` ticks. What is due happens before the next
tick, in any order. The keep-alive of `Guacamole.Client` is there too
(`ScheduleKeepAlive`): its timer is set by instructions that arrive, never by
itself, and the first message, the identifier, does not reach the client.

### TransferFunctions, Layers, ClientDisplay, ClientDisplayProofs, ImmediateScreen

`ClientDisplay` is Client.js's drawing instructions on top of Display.js. A
handler finds its layers by index (`getLayer`) and schedules tasks; `HandleSync`
closes a frame; `syncFlush` shows all frames up to the first with an image that
has not loaded; `ImageSettles` is `onload`, `onerror` or a decoder's promise, which
unblocks one task. JavaScript runs each to its end, so each is one action, with
every frame it shows and every callback it calls. `exportState` reads what it
exports when its frame is shown; `importState` cancels everything, disposes of
the layers and queues the tasks that draw the exported ones. Which decoder the
browser has is fixed at the start. `HandleLstroke` schedules a task that throws when it
is executed: `BreakOff` is the flush that comes that far. What was drawn before stays drawn,
no frame leaves the queue, the handler that flushed is broken off too (`Thrown`), and the next
flush begins with the same frames again, whose callbacks run once more. (The rest of
the WebSocket message that is being read is lost as well, which the model leaves out.)

`Layers` is what a task does: canvas and context of one layer (`Guacamole.Layer` of
guacamole-common.js), the tree, and `flatten`. A canvas is one pixel, a path covers it or not, a transformation moves
it away or not; the mask, the clip, the stack of contexts, sizes, z and alpha
are kept. The cursor has several sizes for which the canvas is equally large, since
a change between two of them resets its context (`resizeCursor`). `TransferFunctions` is the table of raster operations, a colour being a
set of bits.

`ImmediateScreen` is what the protocol promises: no tasks, frames or images to wait
for, and layers that are nothing but their index. Under the mapping at the end of
`ClientDisplay` its screen is what `ClientDisplay` will have drawn when
everything queued is executed (`Screen`). Each instruction is a step of it,
loading images and showing frames are stutters, and an import, however late,
draws the screen of the moment of the export.

### ClientStreams, ClientStreamsProofs

The page's and the server's streams over a tunnel that keeps the order in each
direction. An action is a call of the page or one instruction received, with what
the page's `onack` may do during it: nothing, end the stream, or end it and open
another. The pool is the library's `IntegerPool`, which gives out the oldest free index
at once. The server is external: it answers and refuses the streams it holds,
opens its own, and tells; what is opened at an index it holds replaces what it had
there. The number of a stream, which the code has not, is
there to say which stream an index meant to the one who sent it.

### Logger, LoggerProofs

`SetGlobalLogPath`, `Get` and `Info` of several goroutines with files that can
and cannot be opened at any time, rotation when a logger is created, and
restarts of the program that find the files as they were left. A size is a
number of lines. The module has no run: both of its properties are safety properties
and proved, for all callers, paths and bounds for which `LoggerConstants` holds.

## 3. Runs

| Run | Shows | Bounds, and why they are enough |
|---|---|---|
| `session_safety` | the session's safety and that it implements its lifecycle | channel of 2, frames of up to 2 chunks, 2 frames: a frame is longer than the channel, a second one follows, and the channel is full, empty and partly full at every step |
| `session_live` | losses end the session, deaths are reported, frames arrive | one frame of one chunk, four instructions through a channel of two |
| `session_stuck` | **violated**: the loss of the browser does not always end the session | channel of 4 |
| `frame_diff` | the box is exact, the canvas right | windows and display up to 2x2, two colours, three changes: every pair of pictures and sizes occurs, with one more picture after it |
| `gateway` | the table, the lock, each session's lifecycle beside another | two connections, three callbacks |
| `instruction_reader` | what is sent is parsed | two instructions of up to three elements from a vocabulary of contents that look like notation, a buffer of three octets |
| `tunnel_receive` | what is sent reaches the client | three instructions of the same vocabulary |
| `tunnel_timers` | the browser gives up exactly the silent; keep-alives go on | the code's periods (0.5, 1.5, 15 and 5 seconds), delays up to 2 seconds, frames at any time |
| `window_capture` | leaks and recovery | two windows, four changes or failing calls, five GDI objects, three polls: a capture needs three, so that the limit is met |
| `display` | drawing is immediate drawing, delayed; the tree; acknowledgements, which stop at an `lstroke`; frames are shown | four instructions (three for raster operations, which transfer from a buffer to the default layer; five with an `lstroke`) of one of seven families, two layers, a buffer and the default layer, one bit of colour, two masks, two image streams: enough for a second frame behind a blocked one, an index used again below a queued task, a layer moved twice, and an import after an export that was itself delayed |
| `client_streams` | who gets which index and data | two streams open, a budget of five openings (news of the server count twice), two messages under way in each direction: every index is used a second time with messages about its first stream under way |
| `client_streams_reuse` | **violated**: an answer is given to the stream it is about | the same |

Deadlock is not checked where a system may end or stop: a session ends, the
bounds on sent instructions and changes are reached, the gateway exits.

### Bounds

`Capacity` (100 in the code) is any positive number in the proofs. `MaxBlobs`,
`MaxFrames`, `MaxRedraws`, `MaxSent`, `MaxChanges`, `MaxLoggers`, `SizeBound`,
`MaxInFlight`, `SocketCap`, `Lengths`, `Budget` and `Capacity` of `ClientStreams` bound
what the code does not bound. The families of `ClientDisplay` divide what is
checked together; the instructions of all families share every definition below
the handlers. `StartupPolls` is 50 in the code. The runs have
`Native = FALSE`, the backend that runs; the proofs hold for both.
`MaxCallbacks` stands for a number of the Go runtime (2000 in current ones).

### Fairness

* `Session!ServerFairness`: goroutines that can move do (WF). The writer's select
  takes among ready cases at random, so a case that is ready again and again is
  taken: SF of `WriterStop` and `WriterTake`; the same for the renderer's
  cancellation and for the exit of the process. The timer of the window poll
  fires. Nothing is assumed of a heartbeat, of a changed picture or of the
  process dying.
* `Session!ClientFairness`, the assumption of three of the properties: a connected
  browser reads, and sends a keep-alive now and then, as `Client.js:1795-1823`
  does after what it receives. It is needed because `readWorker` looks at the
  context only between two instructions.
* `Gateway`: handlers run, and `sync.Mutex` gives every waiter its turn (its
  starvation mode), which is SF of taking the lock.
* `FrameDiff`, `WindowCapture`: tickers fire and loops go on.
* `InstructionReader`, `TunnelReceive`, `TunnelTimers`: what was sent arrives, the
  reader and the browser's event loop run, time passes.
* `ClientDisplay`: the browser calls back for each image that it has in full (WF of
  `ImageSettles`). Nothing is assumed of streams that the server does not end.
* Safety only, no fairness: `ClientStreams`, `Logger`.

### What the violated runs show

* **`session_stuck`**. `readWorker` cancels the context "to trigger shutdown on error"
  (session.go:168). The writer may leave first; the renderer, in the middle of a frame
  with more instructions than the channel has room for, waits for ever
  (capture.go:257). `Wait` never returns, the session stays in the table and its
  process runs. The passing properties except exactly this state
  (`RendererStuck`) and nothing else.
* **`client_streams_reuse`**. Client.js:153-160 makes the pool with a `min_size` "to delay
  index reuse"; the library's `IntegerPool` (guacamole-common.js:6697) takes no argument
  and gives a freed index out at once. An answer that was on its way when the page
  ended its stream is given to the next stream at that index, and a refusal frees its
  index under it. What is written still reaches the right stream or none
  (`WritesReachTheirStream`), because the page is told of the refusal and stops writing.

### Disagreements without a run of their own

Most of these are steps of the models; where a property would fail because of one,
the property, an environment's guard or a bound of the run names the exception.

* Client.js:1475 calls `strokeLayer` with two of its five arguments (Display.js:1383), so
  that the layer to stroke with is undefined. The task throws in the middle of
  `syncFlush`, before the frames are removed (Display.js:222): the frame stays, its
  callback, which "may happen immediately, or later" (Display.js:612), never happens,
  and no later frame is reached. `display` has such strokes, and `AcksStopAtLstroke` says
  what comes of them: no sync from there on is acknowledged. `ImplementsImmediate` is
  about what is drawn up to the first stroke (`UpToStroke`), `AckedMeansShown` about
  queues whose flush has not thrown, and `EveryFrameSettles` names the exception.
* `drawStream` says that "this and any future operations will wait for the image to finish
  loading" (Display.js:887-890, and `draw` at 953-955). Without `ImageDecoder` nothing is
  scheduled before the stream has ended (Display.js:943-947): frames in between are shown
  and acknowledged without the image, which is drawn over what came after it.
  `HandleImg` and `HandleEnd` are as in the code; `Undisturbed` keeps other drawing from
  coming in between in such a browser, or `ImplementsImmediate` would fail.
* The cursor layer gets the mask `SRC` once (Display.js:62). A resize within the same block
  of 64 pixels resets the context and the mask with it (Display.js:694,
  guacamole-common.js:8572-8573); from then on a cursor is drawn over the one before
  instead of in its place. `resizeCursor` has it; `display` has cursors of one size
  (`CursorSizes`), for with two `ImplementsImmediate` fails.

* Every search for the window creates a callback (capture_window.go:68); the Go
  runtime makes a fixed number per program, frees none, and ends the program at
  the next. `backend.go:19` says the search returns 0 when there is no window.
  `FindWindow` in `Gateway` has it: the capture loop searches ten times a second.
* The server counts octets (instruction.go:25, 28), the browser characters. An
  instruction with a character beyond ASCII, such as a localised error text, is
  cut or lost. `ReceivedAsSent` holds of ASCII contents, and is proved of them
  (`CodecProofs`).
* An element length that is negative, or larger than what can be allocated, panics in
  `make` instead of being the protocol error that parser.go:44-46 makes of one that is no
  number (parser.go:49; `ReaderPanics`).
* A stream of audio or video that cannot be played is refused and stays in
  `streams` (Client.js:1118-1146, 1755-1784); later data at its index goes to it
  (`wanted` in `BlobsReachTheirStream`).
* `create...Stream` on a client whose tunnel is not open takes an index, and the
  instruction is dropped. The client is not told that the tunnel has closed and
  stays connected in its own eyes (`TunnelCloses`).
* A rejected promise of `ImageDecoder` or a stream without end blocks its frame and
  every later one (Display.js:927; `Hopeless`).
* A layer exported after its parent was disposed cannot be imported: `null >= 0` holds
  (Client.js:301; `Childless`).
* `importState` cancels tasks that would have disposed of layers whose index is
  already gone: they stay in the document. It cancels the callbacks of pending
  syncs too, which are not acknowledged any more.
* An imported default layer keeps its clip, transformation and stack; siblings of
  equal z come back in the order of their indices.
* `createLayer` takes the size of the display of now, not of a `size` that is queued
  (`createLayer` in `ClientDisplay` as in the code; the families that resize the
  default layer make no layers).
* A sync of timestamp 0, or of the last timestamp, is not acknowledged
  (Client.js:1688).
* `Display.js:273` drops all statistics but those of the window; `splice(0, first - 1)`
  leaves one more.
* The connect error is queued and the context cancelled in the next statement
  (session.go:143-144), so the writer may stop before it writes the error
  (`CancelFailed`, then `WriterStop`).
* `default_backend_freerdp.go:54` says `StartRender` is detected by the capture
  client; nothing looks for it. With `Native` the renderer polls for process 0
  and gives up.
* `main.go:48` says "Graceful shutdown"; main returns with sessions running, and
  their processes stay (`Exit` in `Gateway`).
* The library expects its pings to be answered; `session.go:74` ignores them, and
  between frames the tunnel is unstable 1.5 seconds after every nop.
* `logger.go:52` says a file has one logger; two paths that fail have two for the
  fallback file. `logger.go:13` names a limit that only counts when a logger is
  created.
* A capture that fails after `SelectObject` loses its bitmap for good
  (capture_window.go:159, 184); when enough are lost every capture fails.
* `SetGlobalLogPath` (logger.go:31), with which all loggers are to be one, has no caller.

## 4. Proofs

`SessionProofs` proves for every capacity, number of frames and chunks, and for
process and native backends:

* `InvariantHolds`, the inductive invariant `IInv`: types; the wait group counts
  exactly the workers that run (`WorkersCounted`); what each stretch of the
  request goroutine knows of the workers (`HandlerStages`), holds
  (`HandlerHolds`); a running process always has a goroutine that will kill it
  (`ProcessWatched`); and the channel is nearly empty as long as the renderer has
  not started (`EarlyChannel`). None of the safety properties is inductive by
  itself: `TeardownAfterWorkers` needs the count and the fact that the third
  worker cannot start once the handler waits, `NoOrphanBackend` needs to know who
  watches the process at every stage.
* From it `TypeCorrect`, `TeardownSafe`, `NoOrphans`, `ControlNeverDropped`, and
  `Refinement`: every step of `Session` is a step of `SessionLifecycle` or leaves it
  alone.
* `ConversationInOrder` and `StreamsDisciplined`, about all that has been said and not
  heard, wherever it is (`Pipeline`: the network, the writer's hand, the channel, the
  renderer's frame under way). What is needed of the goroutines is that a hand that
  does not send is empty (`HandsEmpty`), and what has been said by the time each gets
  where it is (`Spoken`): no goroutine may still say something once an error is on
  its way. `PipelineStep` says that every step leaves the pipeline alone, puts a
  heartbeat into it, adds to its end, or takes its head; each of the two properties
  is then shown to survive these few changes instead of thirty actions.
  `StreamDiscipline` compares each part of a picture with the next one, so that no
  selection from a sequence is needed.

`ControlNeverDropped` assumes a capacity of at least two; the code has 100. The
only other assumption is `SessionAssumption`.

`CaptureProofs` has the proofs of `FrameDiff` and of `WindowCapture`. Of the first it
proves, for every size of window and display and every set of colours,
`InvariantHolds` and from it `TypeCorrect`, `ScanExact` and `CanvasCorrect`. The
invariant `DiffInv` adds to the exactness of the box that the picture compared with is
what the canvas shows (`Shows(prev)`), and that the bounds are untouched until a pixel
has changed (`FreshBounds`). That a part to send is never empty, so that PNG encodes
it, follows from the two.

`ClientDisplayProofs` proves, for every set of bits, masks, positions and streams and
any number of instructions:

* `BitwiseIsTruthTable`: the sixteen raster operations (but the two that copy alpha)
  are the truth tables of their indices.
* `TasksKeepTree`: every task, from any store of layers in which a layer is among the
  children of its parent and of no other, leads to such a store. The lemmas say
  that dispose and move keep it, and that every other task leaves parent and
  children alone.
* `InvariantHolds`: the inductive invariant `IInv`. The layers made are numbers from
  0, a tree, and what every index in use names (`World`); what waits is on
  layers that are made; each frame that ends with a sync is followed only by
  tasks that were scheduled after it, and nothing waits that was scheduled before the
  acknowledged timestamp (`Pending`); what was exported has parents that are
  indices or null (`SavedOK`), without which the layers of an import could be any
  value; an open stream draws on a layer that is made.
  The theorem, and the two that follow from it, are about behaviours without an
  `lstroke` (`family # "lstroke"`): no frame throws in them (`NoneThrows`).
* From it `TreeStaysTree` (`TreeConsistent`) and `AcksMeanShown` (`AckedMeansShown`).
  Neither is inductive: the first speaks of the layers once the queue is executed, so
  that `Valid` must hold of every task in it, through disposals of indices, moves into
  layers made later and imports that give up what waits; the second needs to know of
  every sync that still waits, not only of the last one acknowledged.

A step executes queues of any length, and an import draws any set of layers. That a
whole queue keeps what one task keeps is shown by induction over the number of tasks
executed (`Along`), or over the set of layers imported (`SetAlong`). A recursive
function is what its equation says only if there is one that satisfies it:
`Recursion` and `SetRecursion` show that there is. The provers cannot instantiate the
library's theorems about recursion, whose parameters are operators; here the steps have
names instead (`Each`).

`ClientStreamsProofs` proves all that its passing run checks, for every `MaxOpen`, queues
of any length, every server and every page. Its invariant has two parts.

* `Output`, the streams of the page. The pool and the table share the indices
  (`PoolOK`): `IndicesAreShared`. Every write that is on its way meets its own stream or
  none: the last message before it that opens a stream at its index opens that stream,
  and when there is none on its way the server has that stream there or nothing
  (`WritesMeet`). What the page writes next does so too, for the streams in its table
  (`TableMeets`): `WritesFindTheirStream`. Nothing of this needs that indices rest before
  they are used again.
* `Input`, the streams of the server. The stream in the table and the messages behind
  it are one line, in which what belongs to a stream follows what opened it with
  nothing else in between (`InTurn`), the server's view is that of the end of the line
  (`Agrees`), and numbers are not used again (`Fresh`): `BlobsFindTheirStream`.

`GatewayProofs` proves, for any number of connections and callbacks, `MapIsExclusive`,
`TableIsComplete` and `SessionsRefine`: every session implements `SessionLifecycle`
next to the others. The invariant says that the lock's holder is the one handler
inside the map (`Lock`), that a session is in the table exactly from its start to
its deletion (`Entries`), that workers run only before Wait returns (`Crew`), and
who will end a process that runs (`Keeper`); `TableComplete` follows only from the
last three together.

`LoggerProofs` proves, for any callers, paths and failures (the fallback is a path, no
file is stderr, `LoggerConstants`), `TypeCorrect`,
`GlobalInTable` and `FilesAreOwn`. `OwnFile` is not inductive: the invariant adds
that a logger is found in the table under the path of its file (`Found`), so that
one is created only for a file that nobody writes to.

`TunnelTimersProofs` proves `NoneGivenUpEarly` and `KeepAliveNotLate` for all
frequencies, and any number of messages on their way, provided a heartbeat and
the longest delay are shorter than the timeout (`TunnelTimersAssumption`). The
invariant bounds both silences by the age of the oldest message on its way and a
heartbeat (`Reach`); for the client it also needs that no two messages are further
apart than a heartbeat (`Gaps`), because the first one, the tunnel's identifier,
does not reach it.

Of `WindowCapture`, `CaptureProofs` proves `LeaksAreDisturbances`: a bitmap is selected
at only two returns (`SelectedWhile`), and a call that gets there undisturbed has found
its window as `GetClientRect` did (`WindowStays`).

`CodecProofs` proves the codec in both directions, for every base of the numerals, every
vocabulary, any number of instructions of any length and any size of the buffer:

* `NumeralHasItsValue`: the numeral of a length is made of digits and is read back as that
  length, which is what lets a length of several digits be followed by contents
  that begin with a digit.
* `ReaderImplementsChannel` and `NothingLeftOver`: whatever the contents look like and
  wherever `wsReader.Read` cuts the messages, `ReadInstruction` returns the
  instructions the browser sent (`ImplementsChannel`), and nothing of one is left for
  the next (`NoResidue`).
* `ClientIsGivenWhatWasSent`: when `onmessage` returns, the client was given what the server
  wrote, without the tunnel's own instructions (`ReceivedAsSent`).

One hypothesis restricts the texts (`PlainVocabulary`, and `PlainServer` with the
session's identifier): their characters take one octet in UTF-8. Without it the three
statements are false, since instruction.go:25 counts octets and the browser characters
(section 3). Dots, commas, semicolons and digits may occur anywhere in a text.

None of the properties is inductive, for they speak of the moments between two
instructions only. `ReaderInv` and `TunnelInv` say in addition where in the last
message taken the parser is, at every octet: in the numeral of an element's length, of which
it holds the digits so far (`ReadsLength`), in the content with that length
(`ReadsContent`), or before its delimiter (`ReadsDelimiter`), with the elements before it
complete (`Within`); and for `onmessage`, that both of its indices are those of the
element it is at (`Looping`, `Where`). That an error is never reported (`failed`) is part of
`ReaderInv`. What both rest on is where each element begins in the notation
(`Layout`, `Starts`), so that no fact about the concatenation of all elements is needed at
a step. As in `ClientDisplayProofs`, induction speaks of the set of numbers for which a
statement holds (`StrongInduction`, `Along`), and `Recursion` shows that each recursive
function exists.

The proofs have one step for each action.

Only model-checked:

* all liveness, which rests on fairness and `ENABLED`, outside what the prover can do;
* that `ClientDisplay` implements `ImmediateScreen`: the proof would need that a task
  commutes with layers that are made while it waits, for every kind of task and
  through every frame;
* `FlattenPaintersOrder`: the order of a recursive walk through a tree and sorted
  children, whose sort the library defines in a way that the provers cannot reach.

`TypeOK` describes the types of the variables in every module of state; the runs
spend their properties on what could be wrong.

## 5. Abstractions

* Texts of instructions, pictures, PNG and base64 are payloads; the notation is
  modelled in full only in the codec modules.
* A data race on `rdpClient` (session.go:85, 140) has no effect: both values lead
  to no step, because the capture client's input methods do nothing.
* The network delivers in order and does not duplicate (TCP); it can stop at any
  time. A write to it fails or blocks.
* `Launch` either starts a process or fails; a process can end at any time.
* A `Get` with an empty file name, which the code never makes, and failures of
  `rotateIfNeeded` alone are part of a path that cannot be opened.

* A canvas of one pixel has neither the geometry of shapes nor partial transparency.
  Where the code passes coordinates on unchanged nothing is lost. `Guacamole.Layer` is
  modelled from guacamole-common.js, the 2D context below it is the browser's
  (`Context`, `Restore`). Sizes are one or none, but for the cursor's: that a resize within
  64 pixels resets the context of another layer too is left out.
* Callbacks given to `flush` do not call the display again, and the page writes along
  streams only while they are open. Display.js would execute frames twice
  otherwise: `syncFlush` removes them after it has called back.

Not modelled: in `Display.js` statistics, `scale`, `drawBlob` and `play` (no caller
in Client.js, or display only); in `Client.js` msg, name, nest, required and
multi-touch, which only call the page; the other tunnels and the rest of the
JavaScript library (third-party, not used), `grdp_client.go` and `client.go`
(nothing constructs them), the C context (nothing fills it), `test_capture.go`, the
page's layout, `SDL3/`.

## 6. Plan

Done, in this order: `SessionLifecycle`, `Session`, `SessionProofs`; `FrameDiff`
and its proofs; `Gateway`; the codec; `TunnelTimers`; `WindowCapture`;
`Logger`; `TransferFunctions`, `Layers`, `ImmediateScreen`, `ClientDisplay`;
`ClientStreams`, `ClientStreamsProofs`; the keep-alive;
`GatewayProofs`, `LoggerProofs`, `TunnelTimersProofs`, the proofs of
`WindowCapture` (`CaptureProofs`); `ClientDisplayProofs`, and the order and identity proofs
of `SessionProofs` and `ClientStreamsProofs`; `CodecProofs`.

What is left would add little to what is checked:

* the slot for the latest frame of `c_helpers.c` and the teardown in `freerdp_cgo.go`,
  once something fills it;
* `nest`, by which instructions arrive inside instructions, and `Display.js`'s
  statistics;
* a proof that tasks commute with the making of layers, from which `ImplementsImmediate`
  would follow handler by handler.
