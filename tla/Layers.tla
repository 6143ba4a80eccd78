------------------------------- MODULE Layers -------------------------------
(***************************************************************************)
(* The layers of Guacamole.Display: what a drawing task does to the layer  *)
(* it was scheduled for, the tree of visible layers, and flatten.          *)
(*                                                                         *)
(* A canvas (Guacamole.Layer, of the guacamole-common-js the page loads)   *)
(* is one pixel and has one size or none.  A path, an image or a rectangle *)
(* covers the pixel or does not (hit); a transformed canvas (moved) is     *)
(* drawn on beside it.  Paint, Composite and the stack of contexts are     *)
(* what the browser's 2D context does for them.                            *)
(***************************************************************************)
EXTENDS TransferFunctions, Sequences, SequencesExt, FiniteSetsExt

Default == 0     \* default_layer
None    == -1    \* null
Opaque  == 255

NewLayer(visible, sized) ==
  [visible |-> visible, sized |-> sized, pix |-> Clear, mask |-> "OVER",
   clip |-> TRUE, path |-> FALSE, closed |-> TRUE, moved |-> FALSE, saved |-> <<>>,
   parent |-> None, children |-> {}, place |-> 0,
   z |-> 0, alpha |-> Opaque, matrix |-> 0]

-----------------------------------------------------------------------------
(* A canvas                                                                *)

Reset(o) == [o EXCEPT !.saved = <<>>, !.mask = "OVER", !.clip = TRUE, !.moved = FALSE,
                      !.path = FALSE, !.closed = FALSE]

\* A changed size resets the context, all but the mask; a layer of no size is empty.
Resize(o, sized) ==
  IF sized = o.sized THEN o
  ELSE [Reset(o) EXCEPT !.sized = sized, !.pix = Clear, !.mask = o.mask, !.closed = o.closed]

\* A buffer grows to what is drawn on it, and begins without a size.
Fit(o) == IF o.visible THEN o ELSE Resize(o, TRUE)

Composite(mask, new, old) ==
  CASE mask = "SRC"   -> new
    [] mask = "OVER"  -> IF new = Clear THEN old ELSE new
    [] mask = "ROVER" -> IF old = Clear THEN new ELSE old

Paint(o, p) ==
  IF o.sized /\ o.clip THEN [o EXCEPT !.pix = Composite(o.mask, p, @)] ELSE o

\* drawImage and copy honour the transformation.  What is not covered is painted
\* with nothing, which only SRC shows.
Draw(o, p) == LET g == Fit(o) IN Paint(g, IF g.moved THEN Clear ELSE p)

\* putImageData honours neither mask, clip nor transformation.
Overwrite(o, p) == LET g == Fit(o) IN IF g.sized THEN [g EXCEPT !.pix = p] ELSE g

\* moveTo, lineTo, arc, curveTo, and rect, which adds a closed figure to a path that
\* stays open.  A closed path is followed by a new one.
Trace(o, hit) ==
  LET g == Fit(o)
  IN  [g EXCEPT !.path = (@ /\ ~g.closed) \/ (hit /\ ~g.moved), !.closed = FALSE]

Close(o) == [o EXCEPT !.closed = TRUE]

Clip(o) == [o EXCEPT !.clip = @ /\ o.path, !.closed = TRUE]

\* strokeColor and fillColor; the path stays until another one is begun.
FillColor(o, c) == Close(Paint(o, IF o.path THEN <<c>> ELSE Clear))

\* strokeLayer and fillLayer; a pattern of a transparent layer paints nothing.
FillLayer(o, src) == Close(Paint(o, IF o.path THEN src.pix ELSE Clear))

Copy(o, src)        == IF src.sized THEN Draw(o, src.pix) ELSE o
Put(o, src)         == IF src.sized THEN Overwrite(o, src.pix) ELSE o
Transfer(o, src, f) ==
  IF src.sized THEN Overwrite(o, DefaultTransferFunction(f, src.pix, o.pix)) ELSE o

\* An image that did not load has no size and is not drawn.
DrawImage(o, image) == IF image.ok THEN Draw(o, image.pix) ELSE o

Context(o) == [mask |-> o.mask, clip |-> o.clip, moved |-> o.moved]

Restore(o, c) == [o EXCEPT !.mask = c.mask, !.clip = c.clip, !.moved = c.moved]

Push(o) == [o EXCEPT !.saved = Append(@, Context(o))]

Pop(o) == IF o.saved = <<>> THEN o
          ELSE [Restore(o, Last(o.saved)) EXCEPT !.saved = Front(@)]

\* setTransform to the identity and transform by a translation.
SetTransform(o) == [o EXCEPT !.moved = FALSE]
Transform(o)    == [o EXCEPT !.moved = TRUE]

SetChannelMask(o, mask) == [o EXCEPT !.mask = mask]

\* The miter limit shapes corners only.
SetMiterLimit(o) == o

-----------------------------------------------------------------------------
(* The tree of visible layers                                              *)

Shade(o, alpha)    == [o EXCEPT !.alpha = alpha]
Distort(o, matrix) == [o EXCEPT !.matrix = matrix]

\* s is the store: a function from the layers made so far, 0..n, to what they are.
Unlink(s, c) ==
  [o \in DOMAIN s |-> IF o = s[c].parent THEN [s[o] EXCEPT !.children = @ \ {c}] ELSE s[o]]

\* Where appendChild puts an element in document order.
LastPlace(s, p) == 1 + Max({0} \cup {s[c].place : c \in s[p].children})

\* Faulty: the former parent keeps the layer among its children.
ReparentKeepsFormer(s, c, p) ==
  [s EXCEPT ![c].parent = p, ![c].place = LastPlace(s, p), ![p].children = @ \cup {c}]

Reparent(s, c, p) ==
  IF s[c].parent = p THEN s
  ELSE [Unlink(s, c) EXCEPT ![c].parent = p, ![c].place = LastPlace(s, p),
                            ![p].children = @ \cup {c}]

MoveTo(s, c, p, z) == [Reparent(s, c, p) EXCEPT ![c].z = z]

\* Children stay with the layer that is disposed.
Dispose(s, c) == [Unlink(s, c) EXCEPT ![c].parent = None]

\* A layer is a child of its parent and of no other.
Consistent(s) == \A c, p \in DOMAIN s : c \in s[p].children <=> s[c].parent = p

-----------------------------------------------------------------------------
(* Tasks: t.do to layer t.on, from layer t.src where one is read           *)

Effect(t, o, src) ==
  CASE t.do = "trace"       -> Trace(o, t.arg)
    [] t.do = "close"       -> Close(o)
    [] t.do = "clip"        -> Clip(o)
    [] t.do = "push"        -> Push(o)
    [] t.do = "pop"         -> Pop(o)
    [] t.do = "reset"       -> Reset(o)
    [] t.do = "identity"    -> SetTransform(o)
    [] t.do = "transform"   -> Transform(o)
    [] t.do = "mask"        -> SetChannelMask(o, t.arg)
    [] t.do = "miterLimit"  -> SetMiterLimit(o)
    [] t.do = "colour"      -> FillColor(o, t.arg)
    [] t.do = "pattern"     -> FillLayer(o, src)
    [] t.do = "copy"        -> Copy(o, src)
    [] t.do = "put"         -> Put(o, src)
    [] t.do = "transfer"    -> Transfer(o, src, t.arg)
    [] t.do = "image"       -> DrawImage(o, t.arg)
    [] t.do = "resize"      -> Resize(o, t.arg)
    [] t.do = "shade"       -> Shade(o, t.arg)
    [] t.do = "distort"     -> Distort(o, t.arg)

Apply(s, t) ==
  CASE t.do = "move"    -> MoveTo(s, t.on, t.src, t.arg)
    [] t.do = "dispose" -> Dispose(s, t.on)
    [] OTHER            -> [s EXCEPT ![t.on] = Effect(t, @, s[t.src])]

-----------------------------------------------------------------------------
(* flatten                                                                 *)

\* By z; by document order where z is the same.
Below(s, a, b) == s[a].z < s[b].z \/ (s[a].z = s[b].z /\ s[a].place < s[b].place)

\* Faulty: the order in which the layers were made.
UnsortedChildren(s, o) == SetToSortSeq(s[o].children, <)

SortedChildren(s, o) == SetToSortSeq(s[o].children, LAMBDA a, b : Below(s, a, b))

\* A layer and then its children, with the product of their alphas; a layer
\* of no size hides what it contains.  depth only makes the function total.
Flatten(s) ==
  LET DrawLayer[o \in DOMAIN s, alpha \in BOOLEAN, depth \in 0..Cardinality(DOMAIN s)] ==
        LET shown == alpha /\ s[o].alpha > 0
            kids  == SortedChildren(s, o)
        IN  IF ~s[o].sized \/ depth = 0 THEN <<>>
            ELSE <<[layer |-> o, shown |-> shown]>> \o
                 FlattenSeq([i \in DOMAIN kids |-> DrawLayer[kids[i], shown, depth - 1]])
  IN  DrawLayer[Default, TRUE, Cardinality(DOMAIN s)]
=============================================================================
