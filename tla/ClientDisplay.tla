---------------------------- MODULE ClientDisplay ----------------------------
(***************************************************************************)
(* Guacamole.Client's drawing instructions on top of Guacamole.Display.    *)
(* A handler finds the layers it is about and schedules tasks; "sync"      *)
(* closes a frame of tasks; a frame is shown as a whole once its images    *)
(* have loaded, after all frames before it.  exportState and importState   *)
(* save and restore what is drawn.                                         *)
(*                                                                         *)
(* JavaScript runs every handler and every callback of the browser to its  *)
(* end, so each is one action.  Callbacks given to flush do not call the   *)
(* display again.  The server has announced the size of layer 0, moves no  *)
(* layer into itself, ends a stream before it uses its index again, and    *)
(* uses no canvas of no size where the browser would throw: it fills with  *)
(* no layer without a size and takes the size of none it has drawn on.     *)
(***************************************************************************)
EXTENDS Layers

CONSTANTS
  Indices, Masks, Positions, Streams,
  CursorSizes, \* sizes of cursors, for all of which the canvas is equally large
  Lengths    \* bound: the instructions of a behaviour, by their family

Families == DOMAIN Lengths

VARIABLES
  world,      \* [objs: layers made, layers: index -> layer, cursor]
  tasks,      \* tasks of the frame under construction
  frames,     \* flushed and not yet shown
  blocked,    \* images of blocked tasks: "arriving", "loading" or "undecodable"
  streams,    \* open image streams, by their index
  state,      \* currentState
  currentTimestamp,
  acked,      \* the last timestamp sent back to the server
  syncs,      \* sync instructions received
  saved,      \* <<s>> for an exported state s, or <<>>
  asked,      \* history: <<screen>> when exportState was called
  received,   \* instructions received
  family,     \* the kind of instructions the server sends
  decoder     \* the browser has ImageDecoder

shownVars == <<world, currentTimestamp, acked, saved>>
bounds    == <<received, family, decoder>>
vars == <<shownVars, tasks, frames, blocked, streams, state, syncs, asked, bounds>>

-----------------------------------------------------------------------------
(* Tasks                                                                   *)

scheduleTask(do, on, src, arg, image) ==
  [do |-> do, on |-> on, src |-> src, arg |-> arg, image |-> image, epoch |-> syncs]

moveCursor(c, x) == [c EXCEPT !.x = x, !.at = x - c.hot]

\* Any size is another canvas than none; from one size to another the canvas stays
\* as it is, and its context is reset, which forgets the mask.
resizeCursor(c, size) ==
  [c EXCEPT !.size = size, !.mask = IF c.size \in {0, size} THEN @ ELSE "OVER"]

copyToCursor(c, src) ==
  [c EXCEPT !.pix = IF src.sized THEN Composite(c.mask, src.pix, @) ELSE @]

\* The hotspot is subtracted again from where the mouse is by now.
setCursor(c, hot, size, src) ==
  moveCursor(copyToCursor(resizeCursor([c EXCEPT !.hot = hot], size), src), c.x)

Execute(w, t) ==
  IF t.do = "cursor"
  THEN [w EXCEPT !.cursor = setCursor(@, t.arg.hot, t.arg.size, w.objs[t.on])]
  ELSE [w EXCEPT !.objs = Apply(@, t)]

\* FoldLeft.  Sets of one element, here and below, have TLC evaluate theirs once.
Reduce(Op(_, _), base, seq) ==
  LET Run[n \in 0..Len(seq)] ==
        IF n = 0 THEN base ELSE CHOOSE v \in {Op(u, seq[n]) : u \in {Run[n - 1]}} : TRUE
  IN  Run[Len(seq)]

\* An image that has not loaded when its task is executed is not drawn.
ExecuteLoaded(w, ts, waiting) ==
  Reduce(LAMBDA v, t : IF t.image \in waiting THEN v ELSE Execute(v, t), w, ts)

ExecuteAll(w, ts) == ExecuteLoaded(w, ts, {})

\* What waits, in frames and in the frame under construction.
Queued == FlattenSeq([k \in DOMAIN frames |-> frames[k].tasks]) \o tasks

\* A task "strokeLayer" is not told the layer to stroke with, and throws.
Strokes(ts) == {i \in DOMAIN ts : ts[i].do = "strokeLayer"}

UpToStroke(ts) == IF Strokes(ts) = {} THEN ts ELSE SubSeq(ts, 1, Min(Strokes(ts)) - 1)

\* The world once every task is executed that ever will be.
Drained ==
  CHOOSE w \in {ExecuteAll(world, UpToStroke(ts)) : ts \in {Queued}} : TRUE

-----------------------------------------------------------------------------
(* Frames                                                                  *)

NoCallback == [kind |-> "none"]

isReady(f, b) == \A i \in DOMAIN f.tasks : f.tasks[i].image \notin DOMAIN b

\* The parent is looked up among the layers of now, not among those exported.
getLayerIndex(w, o) ==
  IF \E i \in DOMAIN w.layers : w.layers[i] = o
  THEN CHOOSE i \in DOMAIN w.layers : w.layers[i] = o ELSE None

populateLayers(snapshot, now, timestamp, s) ==
  [currentState |-> now, currentTimestamp |-> timestamp,
   layers |-> [i \in DOMAIN snapshot |->
     LET o == s.world.objs[snapshot[i]]
     IN  [sized |-> o.sized, pix |-> o.pix, z |-> o.z, alpha |-> o.alpha, matrix |-> o.matrix,
          parent |-> getLayerIndex(s.world, o.parent)]]]

displaySyncComplete(t, s) ==
  IF t # s.currentTimestamp THEN [s EXCEPT !.acked = t, !.currentTimestamp = t] ELSE s

Call(callback, s) ==
  CASE callback.kind = "none"   -> s
    [] callback.kind = "sync"   -> displaySyncComplete(callback.t, s)
    [] callback.kind = "export" ->
         [s EXCEPT !.saved = <<populateLayers(callback.layers, callback.state, callback.t, s)>>]

FlushFrame(s, f, b) ==
  Call(f.callback, [s EXCEPT !.world = ExecuteLoaded(@, f.tasks, DOMAIN b)])

FlushEach(fs, s, b) ==
  \E after \in {Reduce(LAMBDA r, f : FlushFrame(r, f, b), s, fs)} :
    /\ world' = after.world /\ saved' = after.saved
    /\ acked' = after.acked /\ currentTimestamp' = after.currentTimestamp

\* The first n frames are drawn and removed.
ShowFrames(n, s, fs, b) ==
  /\ FlushEach(SubSeq(fs, 1, n), s, b)
  /\ frames' = SubSeq(fs, n + 1, Len(fs))
  /\ blocked' = b

Throws(f) == Strokes(f.tasks) # {}

BeforeThrow(f) == [tasks |-> UpToStroke(f.tasks), callback |-> NoCallback]

\* The frame after the first n throws: what is drawn by then is drawn, and no frame
\* is removed.
BreakOff(n, s, fs, b) ==
  /\ FlushEach(Append(SubSeq(fs, 1, n), BeforeThrow(fs[n + 1])), s, b)
  /\ frames' = fs /\ blocked' = b

\* Runs the first n frames, up to one that throws.
RunFrames(n, s, fs, b) ==
  \/ (\A k \in 1..n : ~Throws(fs[k])) /\ ShowFrames(n, s, fs, b)
  \/ \E m \in 1..n : /\ Throws(fs[m]) /\ \A k \in 1..(m - 1) : ~Throws(fs[k])
                    /\ BreakOff(m - 1, s, fs, b)

\* Faulty: only the newest frame has to be ready.
FlushIfLastReady(s, fs, b) ==
  RunFrames(IF fs # <<>> /\ isReady(Last(fs), b) THEN Len(fs) ELSE 0, s, fs, b)

\* Faulty: shows one frame and waits for the next event.
FlushOne(s, fs, b) ==
  RunFrames(IF fs # <<>> /\ isReady(Head(fs), b) THEN 1 ELSE 0, s, fs, b)

syncFlush(s, fs, b) ==
  \E n \in 0..Len(fs) :
    /\ \A k \in 1..n : isReady(fs[k], b)
    /\ n < Len(fs) => ~isReady(fs[n + 1], b)
    /\ RunFrames(n, s, fs, b)

\* A flush that leaves a frame that is ready in front has thrown, in its caller too.
Thrown == \E n \in DOMAIN frames :
            Throws(frames[n]) /\ \A k \in 1..n : isReady(frames[k], blocked)

Now(w) == [world |-> w, currentTimestamp |-> currentTimestamp, acked |-> acked, saved |-> saved]

\* Faulty: calls back without waiting for the frame.
FlushCallsAtOnce(callback) ==
  /\ tasks' = <<>>
  /\ syncFlush(Call(callback, Now(world)),
               Append(frames, [tasks |-> tasks, callback |-> NoCallback]), blocked)

flush(callback) ==
  /\ tasks' = <<>>
  /\ syncFlush(Now(world), Append(frames, [tasks |-> tasks, callback |-> callback]), blocked)

unblock(image) ==
  \E b \in {[i \in DOMAIN blocked \ {image} |-> blocked[i]]} :
      IF frames # <<>> THEN syncFlush(Now(world), frames, b)
      ELSE blocked' = b /\ UNCHANGED <<frames, shownVars>>

-----------------------------------------------------------------------------
(* Layers by index                                                         *)

\* f with an entry for x, which has none.
With(f, x, v) == [y \in DOMAIN f \cup {x} |-> IF y = x THEN v ELSE f[y]]

\* A layer is a child of the default layer as soon as it is made, and as large
\* as the display is by then.
createLayer(objs) ==
  LET o == Cardinality(DOMAIN objs)
  IN  MoveTo(With(objs, o, NewLayer(TRUE, objs[Default].sized)), o, Default, 0)

createBuffer(objs) == With(objs, Cardinality(DOMAIN objs), NewLayer(FALSE, FALSE))

getLayer(w, i) ==
  IF i \in DOMAIN w.layers THEN w
  ELSE IF i = 0 THEN [w EXCEPT !.layers = With(@, 0, Default)]
  ELSE [w EXCEPT !.layers = With(@, i, Cardinality(DOMAIN w.objs)),
                 !.objs   = IF i > 0 THEN createLayer(@) ELSE createBuffer(@)]

Receive(f) ==
  /\ family = f /\ received < Lengths[f]
  /\ received' = received + 1 /\ UNCHANGED <<family, decoder>>

Still == UNCHANGED <<frames, state, currentTimestamp, acked, syncs, saved, asked>>

Schedule(w, new) ==
  world' = w /\ tasks' = tasks \o new /\ Still /\ UNCHANGED <<blocked, streams>>

\* Handlers about one layer.
OnLayer(i, do, arg) ==
  LET w == getLayer(world, i)
  IN  Schedule(w, <<scheduleTask(do, w.layers[i], w.layers[i], arg, 0)>>)

\* Handlers that read one layer and draw on another.
FromLayer(i, src, do, arg) ==
  LET w == getLayer(getLayer(world, src), i)
  IN  Schedule(w, <<scheduleTask(do, w.layers[i], w.layers[src], arg, 0)>>)

\* Handlers that name a channel mask set it first.
Masked(i, src, mask, do, arg) ==
  LET w == getLayer(getLayer(world, src), i)
      o == w.layers[i]
  IN  Schedule(w, <<scheduleTask("mask", o, o, mask, 0),
                    scheduleTask(do, o, w.layers[src], arg, 0)>>)

-----------------------------------------------------------------------------
(* Paths and the context of a layer                                        *)

HandleStart(i)          == OnLayer(i, "trace", FALSE)
HandleLine(i, hit)      == OnLayer(i, "trace", hit)
HandleArc(i, hit)       == OnLayer(i, "trace", hit)
HandleCurve(i, hit)     == OnLayer(i, "trace", hit)
HandleRect(i, hit)      == OnLayer(i, "trace", hit)
HandleClose(i)          == OnLayer(i, "close", 0)
HandleClip(i)           == OnLayer(i, "clip", 0)
HandleCfill(i, m, c)    == Masked(i, i, m, "colour", c)
HandleCstroke(i, m, c)  == Masked(i, i, m, "colour", c)
HandlePush(i)           == OnLayer(i, "push", 0)
HandlePop(i)            == OnLayer(i, "pop", 0)
HandleReset(i)          == OnLayer(i, "reset", 0)
HandleIdentity(i)       == OnLayer(i, "identity", 0)
HandleTransform(i)      == OnLayer(i, "transform", 0)
HandleSet(i)            == OnLayer(i, "miterLimit", 0)

Path(i) ==
  \/ HandleStart(i) \/ HandleClose(i) \/ HandleClip(i)
  \/ \E hit \in BOOLEAN :
       HandleLine(i, hit) \/ HandleArc(i, hit) \/ HandleCurve(i, hit) \/ HandleRect(i, hit)
  \/ \E m \in Masks : HandleCfill(i, m, Bits) \/ HandleCstroke(i, m, {})
  \/ HandlePush(i) \/ HandlePop(i) \/ HandleReset(i)
  \/ HandleIdentity(i) \/ HandleTransform(i) \/ HandleSet(i)

-----------------------------------------------------------------------------
(* Layers as sources                                                       *)

HandleLfill(i, src, m)   == Masked(i, src, m, "pattern", 0)

\* strokeLayer is given two of its five arguments.
HandleLstroke(i, src, m) == Masked(i, src, m, "strokeLayer", 0)

HandleCopy(i, src, m)    == Masked(i, src, m, "copy", 0)

\* No mask; 0x3 is a put and 0x5 makes the layers and nothing else.
HandleTransfer(i, src, f) ==
  CASE f = 3  -> FromLayer(i, src, "put", 0)
    [] f = 5  -> Schedule(getLayer(getLayer(world, src), i), <<>>)
    [] OTHER  -> FromLayer(i, src, "transfer", f)

\* A pattern is made of a layer that has a size.
Pattern(i, src) ==
  /\ src \in DOMAIN world.layers /\ Drained.objs[world.layers[src]].sized
  /\ \E m \in Masks : HandleLfill(i, src, m)

-----------------------------------------------------------------------------
(* Images                                                                  *)

Used == {Queued[i].image : i \in DOMAIN Queued} \cup DOMAIN blocked

NewImage == Min((1..(1 + Cardinality(Used))) \ Used)

\* A mask, and a task that is blocked until the browser is done with the image.
DrawBlocked(i, mask, image, how) ==
  LET w == getLayer(world, i)
      o == w.layers[i]
  IN  /\ world' = w /\ Still
      /\ tasks' = tasks \o <<scheduleTask("mask", o, o, mask, 0),
                             scheduleTask("image", o, o, image, NewImage)>>
      /\ blocked' = With(blocked, NewImage, how)

HandlePng(i, mask, image)  == DrawBlocked(i, mask, image, "loading") /\ UNCHANGED streams
HandleJpeg(i, mask, image) == DrawBlocked(i, mask, image, "loading") /\ UNCHANGED streams

Stream(i, image, id) == [on |-> i, image |-> image, id |-> id, epoch |-> syncs]

\* Without ImageDecoder only the mask is scheduled by now.
HandleImg(s, i, mask, image) ==
  LET w == getLayer(world, i)
      o == w.layers[i]
  IN  IF decoder
      THEN /\ DrawBlocked(i, mask, image, "arriving")
           /\ streams' = With(streams, s, Stream(o, image, NewImage))
      ELSE /\ world' = w /\ Still
           /\ tasks' = Append(tasks, scheduleTask("mask", o, o, mask, 0))
           /\ streams' = With(streams, s, Stream(o, image, 0))
           /\ UNCHANGED blocked

\* What a decoder cannot decode it rejects, and nothing handles the rejection.
HandleEnd(s) ==
  LET st == streams[s]
  IN  /\ streams' = [r \in DOMAIN streams \ {s} |-> streams[r]]
      /\ Still /\ UNCHANGED world
      /\ IF decoder
         THEN /\ blocked' = [id \in DOMAIN blocked |->
                               IF id # st.id THEN blocked[id]
                               ELSE IF st.image.ok THEN "loading" ELSE "undecodable"]
              /\ UNCHANGED tasks
         ELSE /\ tasks' = Append(tasks, scheduleTask("image", st.on, st.on, st.image, NewImage))
              /\ blocked' = With(blocked, NewImage, "loading")

Good(c) == [ok |-> TRUE, pix |-> <<c>>]
Corrupt == [ok |-> FALSE, pix |-> Clear]
Images  == {Good(c) : c \in Colours} \cup {Corrupt}

Image(i, m, image) == HandlePng(i, m, image) \/ HandleJpeg(i, m, image)

\* Without a decoder an image takes its place among the instructions when its stream
\* ends, whatever comes before it.  A layer is not drawn on
\* meanwhile, so that the other properties are about a picture that is determined.
Undisturbed == decoder \/ streams = <<>>

\* onload, onerror, or the decoder's promise.
ImageSettles(id) ==
  /\ id \in DOMAIN blocked /\ blocked[id] = "loading"
  /\ unblock(id)
  /\ UNCHANGED <<tasks, streams, state, syncs, asked, bounds>>

-----------------------------------------------------------------------------
(* Layers: their size and place                                            *)

HandleSize(i, sized)      == OnLayer(i, "resize", sized)
HandleShade(i, alpha)     == i >= 0 /\ OnLayer(i, "shade", alpha)
HandleDistort(i, matrix)  == i >= 0 /\ OnLayer(i, "distort", matrix)

HandleMove(i, p, z) ==
  /\ i > 0 /\ p >= 0
  /\ LET w == getLayer(getLayer(world, i), p)
     IN  Schedule(w, <<scheduleTask("move", w.layers[i], w.layers[p], z, 0)>>)

\* The index is free at once, the layer goes when its task is executed.
HandleDispose(i) ==
  LET w    == IF i > 0 THEN getLayer(world, i) ELSE world
      gone == [w EXCEPT !.layers = [j \in DOMAIN @ \ {i} |-> @[j]]]
  IN  /\ i # Default
      /\ Schedule(gone, IF i > 0 THEN <<scheduleTask("dispose", w.layers[i], w.layers[i], 0, 0)>>
                        ELSE <<>>)

\* o is a, or a layer it lies on is.
Within(objs, o, a) ==
  LET Up[n \in 0..Cardinality(DOMAIN objs), x \in DOMAIN objs \cup {None}] ==
        x # None /\ (x = a \/ (n > 0 /\ Up[n - 1, objs[x].parent]))
  IN  Up[Cardinality(DOMAIN objs), o]

OutsideItself(i, p) ==
  {i, p} \subseteq DOMAIN world.layers =>
    ~Within(Drained.objs, world.layers[p], world.layers[i])

-----------------------------------------------------------------------------
(* The cursor, and the end of a frame                                      *)

\* The mouse moves at once, unlike the image of the cursor.
HandleMouse(x) ==
  /\ world' = [world EXCEPT !.cursor = moveCursor(@, x)]
  /\ Still /\ UNCHANGED <<tasks, blocked, streams>>

HandleCursor(i, hot, size) == OnLayer(i, "cursor", [hot |-> hot, size |-> size])

HandleSync ==
  /\ syncs' = syncs + 1
  /\ flush([kind |-> "sync", t |-> syncs + 1])
  /\ state' = IF state = "WAITING" /\ ~Thrown' THEN "CONNECTED" ELSE state
  /\ UNCHANGED <<streams, asked>>

-----------------------------------------------------------------------------
(* exportState and importState                                             *)

\* What of a layer is to be seen, its parent named by its index.
View(w) ==
  [i \in DOMAIN w.layers |->
     LET o == w.objs[w.layers[i]]
     IN  [o EXCEPT !.mask = "OVER", !.children = {}, !.place = 0,
                   !.saved = [k \in DOMAIN o.saved |-> [o.saved[k] EXCEPT !.mask = "OVER"]],
                   !.parent = getLayerIndex(w, @)]]

\* What is to be seen once everything that is queued is executed.
Screen == CHOOSE v \in {View(w) : w \in {Drained}} : TRUE

exportState ==
  /\ asked' = <<Screen>>
  /\ flush([kind |-> "export", layers |-> world.layers, state |-> state, t |-> currentTimestamp])
  /\ UNCHANGED <<streams, state, syncs>>

disposeAll(w) ==
  [w EXCEPT !.objs = FoldSet(LAMBDA i, objs : Dispose(objs, w.layers[i]), @,
                             {i \in DOMAIN w.layers : i > 0}),
            !.layers = <<>>]

\* Keys that are array indices come first, in ascending order.
KeyOrder(i, j) == IF i >= 0 /\ j >= 0 THEN i < j ELSE i > j

LastKey(keys) == CHOOSE j \in keys : \A i \in keys : i = j \/ KeyOrder(i, j)

\* The tasks that draw one exported layer; r = [world, tasks, blocked].
importLayer(r, i, layer) ==
  LET own    == getLayer(r.world, i)
      placed == i > 0 /\ layer.parent # None
      w      == IF placed THEN getLayer(own, layer.parent) ELSE own
      o      == w.layers[i]
      id     == 1 + Cardinality(DOMAIN r.blocked)
      Do(do, arg) == scheduleTask(do, o, o, arg, 0)
  IN  [world   |-> w,
       tasks   |-> r.tasks \o <<Do("resize", layer.sized)>>
         \o (IF ~layer.sized THEN <<>>
             ELSE <<Do("mask", "SRC"),
                    scheduleTask("image", o, o, [ok |-> TRUE, pix |-> layer.pix], id)>>)
         \o (IF ~placed THEN <<>>
             ELSE <<scheduleTask("move", o, w.layers[layer.parent], layer.z, 0),
                    Do("shade", layer.alpha), Do("distort", layer.matrix)>>),
       blocked |-> IF layer.sized THEN With(r.blocked, id, "loading") ELSE r.blocked]

importState(s) ==
  LET r == MapThenFoldSet(LAMBDA i, acc : importLayer(acc, i, s.layers[i]),
                          [world |-> disposeAll(world), tasks |-> <<>>, blocked |-> <<>>],
                          LAMBDA i : i, LastKey, DOMAIN s.layers)
  IN  /\ state' = s.currentState
      /\ tasks' = <<>>
      /\ syncFlush([Now(r.world) EXCEPT !.currentTimestamp = s.currentTimestamp],
                   <<[tasks |-> r.tasks, callback |-> NoCallback]>>, r.blocked)
      /\ UNCHANGED <<streams, syncs, asked>>

\* An application that exports once.  While it waits, and before it imports what
\* it got, the server disposes no layer that others lie on: an exported layer
\* without a parent cannot be imported.
Exporting == \E k \in DOMAIN frames : frames[k].callback.kind = "export"

Childless(i) ==
  /\ ~Exporting
  /\ i \in DOMAIN world.layers => \A c \in DOMAIN Drained.objs : Drained.objs[c].parent # world.layers[i]

-----------------------------------------------------------------------------
(* The behaviours                                                          *)

Init ==
  /\ world = [objs   |-> [o \in {Default} |-> NewLayer(TRUE, TRUE)],
              layers |-> [i \in {0} |-> Default],
              cursor |-> [x |-> 0, hot |-> 0, at |-> 0, size |-> 0, mask |-> "SRC",
                          pix |-> Clear]]
  /\ tasks = <<>> /\ frames = <<>> /\ blocked = <<>> /\ streams = <<>>
  /\ state = "WAITING" /\ currentTimestamp = 0 /\ acked = 0 /\ syncs = 0
  /\ saved = <<>> /\ asked = <<>>
  /\ received = 0 /\ family \in Families /\ decoder \in BOOLEAN
  /\ decoder => family = "frames"   \* the only ones that notice

NextPath ==
  /\ Receive("path")
  /\ Path(0) \/ Image(-1, "OVER", Good(Bits)) \/ Pattern(0, -1)

NextRaster ==
  /\ Receive("raster")
  /\ \E i \in {0, -1} : \/ \E c \in Colours : Image(i, "OVER", Good(c))
                        \/ \E src \in {0, -1}, m \in Masks : HandleCopy(i, src, m)
                        \/ i = 0 /\ \E f \in 0..15 : HandleTransfer(i, -1, f)
                        \/ HandleDispose(i)

NextTree ==
  /\ Receive("tree")
  /\ \/ \E i \in {1, 2} :
          \/ HandleSize(i, FALSE) \/ HandleShade(i, 0) \/ HandleDistort(i, 1) \/ HandleDispose(i)
          \/ \E p \in {0, 1, 2}, z \in 0..1 : i # p /\ OutsideItself(i, p) /\ HandleMove(i, p, z)
     \/ HandleSync

NextCursor ==
  /\ Receive("cursor")
  /\ \/ \E x \in Positions : HandleMouse(x)
     \/ \E i \in {0, -1}, h \in 0..1, size \in CursorSizes : HandleCursor(i, h, size)
     \/ Image(-1, "OVER", Good(Bits)) \/ HandleSync

NextFrames ==
  /\ Receive("frames")
  /\ \/ /\ Undisturbed
        /\ \/ \E image \in Images : Image(0, "OVER", image)
           \/ \E s \in Streams \ DOMAIN streams, image \in Images : HandleImg(s, 0, "OVER", image)
           \/ HandleCopy(1, 0, "OVER")
     \/ \E s \in DOMAIN streams : HandleEnd(s)
     \/ HandleSync

NextLstroke ==
  /\ Receive("lstroke")
  /\ \/ HandleLstroke(0, -1, "OVER") \/ Image(0, "OVER", Good(Bits)) \/ HandleSync

NextState ==
  /\ Receive("state")
  /\ \/ \E i \in {-1, 1} : Image(i, "OVER", Good(Bits))
     \/ \E i, p \in {1, 2} : i # p /\ OutsideItself(i, p) /\ HandleMove(i, p, 1)
     \/ HandleShade(1, 0)
     \/ Childless(2) /\ HandleDispose(2)
     \/ HandleSync
     \/ asked = <<>> /\ exportState
     \/ saved # <<>> /\ importState(saved[1])

Next ==
  \/ NextPath \/ NextRaster \/ NextTree \/ NextCursor \/ NextFrames \/ NextLstroke \/ NextState
  \/ \E id \in DOMAIN blocked : ImageSettles(id)

\* The browser calls back for an image that it has.
Spec == Init /\ [][Next]_vars /\ WF_vars(\E id \in DOMAIN blocked : ImageSettles(id))

-----------------------------------------------------------------------------
(* Properties                                                              *)

ShownCursor ==
  CHOOSE v \in {[x |-> c.x, hot |-> c.hot, at |-> c.at, pix |-> c.pix] : c \in {Drained.cursor}} : TRUE

Immediate == INSTANCE ImmediateScreen
               WITH screen <- Screen, cursor <- ShownCursor, snapshot <- asked

\* What is drawn, once all that is queued before an lstroke is executed, is what a
\* client draws that executes every instruction as it comes: queues, blocked images, layers
\* whose index is used again, and an exported state that is imported later
\* change nothing but the time (scheduleTask, syncFlush, importState).
ImplementsImmediate == Immediate!Spec

\* A layer is among the children of the layer that it calls its parent, and of
\* no other (VisibleLayer's move and dispose), whenever the queue is executed.
TreeConsistent == Consistent(Drained.objs)

\* A timestamp goes back to the server when everything received before it is on
\* the screen, so that the server's measure of lag is that of the screen (the
\* "sync" handler and the callbacks of flush).  When a flush has thrown, frames that
\* it has shown are still queued.
AckedMeansShown == Thrown \/ \A i \in DOMAIN Queued : Queued[i].epoch >= acked

\* No timestamp from that of a frame with an lstroke on goes back: its flush throws
\* before its callback, at once and whenever it is tried again, and no later frame
\* is reached (the "lstroke" handler, syncFlush).
AcksStopAtLstroke ==
  \A i \in DOMAIN Queued : Queued[i].do = "strokeLayer" => acked <= Queued[i].epoch

\* The layers from the default layer down to o, or <<>> when o is not on it.
Lineage(objs, o) ==
  LET Up[n \in 0..Cardinality(DOMAIN objs), x \in DOMAIN objs \cup {None}] ==
        IF x = Default THEN <<Default>>
        ELSE IF x = None \/ n = 0 THEN <<>>
        ELSE LET above == Up[n - 1, objs[x].parent]
             IN  IF above = <<>> THEN <<>> ELSE Append(above, x)
  IN  Up[Cardinality(DOMAIN objs), o]

Beneath(objs, a, b) ==
  LET la == Lineage(objs, a)
      lb == Lineage(objs, b)
  IN  \/ IsStrictPrefix(la, lb)
      \/ \E k \in DOMAIN la \cap DOMAIN lb :
           /\ SubSeq(la, 1, k - 1) = SubSeq(lb, 1, k - 1)
           /\ Below(objs, la[k], lb[k])

\* flatten draws each layer that lies on the default layer in layers that have a
\* size, once, above all it lies on and in the order of z, then of the document,
\* and a layer in a transparent one is transparent.
FlattenPaintersOrder ==
  \A objs \in {Drained.objs} : \A drawn \in {Flatten(objs)} :
  LET Up(o) == Lineage(objs, o)
  IN  /\ {drawn[k].layer : k \in DOMAIN drawn} =
           {o \in DOMAIN objs : Up(o) # <<>> /\ \A k \in DOMAIN Up(o) : objs[Up(o)[k]].sized}
      /\ \A j, k \in DOMAIN drawn : j < k => Beneath(objs, drawn[j].layer, drawn[k].layer)
      /\ \A k \in DOMAIN drawn :
           drawn[k].shown = \A j \in DOMAIN Up(drawn[k].layer) : objs[Up(drawn[k].layer)[j]].alpha > 0

\* The server has not ended the stream of an image of a flushed frame, or it
\* cannot be decoded.
Hopeless ==
  \E k \in DOMAIN frames : \E i \in DOMAIN frames[k].tasks :
    LET id == frames[k].tasks[i].image
    IN  id \in DOMAIN blocked /\ blocked[id] \in {"arriving", "undecodable"}

\* No flushed frame waits for ever for anything but its own images and a frame with
\* an lstroke (syncFlush and unblock).
EveryFrameSettles ==
  (frames # <<>>) ~> (frames = <<>> \/ Hopeless \/ \E k \in DOMAIN frames : Throws(frames[k]))
=============================================================================
