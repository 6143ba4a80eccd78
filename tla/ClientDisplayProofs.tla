------------------------ MODULE ClientDisplayProofs ------------------------
(***************************************************************************)
(* Proofs about ClientDisplay and the tasks of Layers, for every set of    *)
(* bits, masks, positions, streams and every number of instructions: the   *)
(* raster operations are the truth tables their indices name, the layers   *)
(* stay a tree whatever is queued, and a timestamp is acknowledged when    *)
(* nothing scheduled before it waits.  The last two need that no lstroke   *)
(* comes: its frame throws, its tasks are executed again and again, and    *)
(* wait all the same.                                                      *)
(*                                                                         *)
(* Queues are executed by recursive functions.  What they compute is       *)
(* reached by induction over the set of lengths, or of sets of indices,    *)
(* for which a step is as it should be; Each names the steps, because a    *)
(* lemma cannot have an operator as its parameter.                         *)
(***************************************************************************)
EXTENDS ClientDisplay, FiniteSetTheorems, SequenceTheorems, WellFoundedInduction, TLAPS

\* The digits of the indices: where the function of index f gives one.
Gives(f, p, q) ==
  IF p THEN IF q THEN f \in {1, 3, 5, 7, 9, 11, 13, 15} ELSE f \in {2, 3, 6, 7, 10, 11, 14, 15}
       ELSE IF q THEN f \in {4, 5, 6, 7, 12, 13, 14, 15} ELSE f \in {8, 9, 10, 11, 12, 13, 14, 15}

\* For bits p and q that are the values of two memberships.
LEMMA Digits ==
  ASSUME NEW f \in 0..15, NEW b, NEW s, NEW d
  PROVE  Digit(f, b \in s, b \in d) <=> Gives(f, b \in s, b \in d)
<1>1. CASE b \in s /\ b \in d BY <1>1 DEF Digit, Place, Gives
<1>2. CASE b \in s /\ b \notin d BY <1>2 DEF Digit, Place, Gives
<1>3. CASE b \notin s /\ b \in d BY <1>3 DEF Digit, Place, Gives
<1>4. CASE b \notin s /\ b \notin d BY <1>4 DEF Digit, Place, Gives
<1> QED BY <1>1, <1>2, <1>3, <1>4

\* Each function of DefaultTransferFunction that changes the colour only computes,
\* bit by bit, the truth table whose digits its index is.
THEOREM BitwiseIsTruthTable ==
  ASSUME NEW f \in (0..15) \ {3, 12}, NEW s \in Colours, NEW d \in Colours
  PROVE  BitwiseTransfer(f, s, d) = TruthTable(f, s, d)
<1>1. SUFFICES ASSUME NEW b \in Bits
               PROVE  b \in BitwiseTransfer(f, s, d) <=> Digit(f, b \in s, b \in d)
  <2>1. BitwiseTransfer(f, s, d) \subseteq Bits
    BY DEF BitwiseTransfer, Xor, Colours
  <2> QED BY <1>1, <2>1 DEF TruthTable
<1>2. b \in BitwiseTransfer(f, s, d) <=> Gives(f, b \in s, b \in d)
  BY DEF BitwiseTransfer, Xor, Gives
<1> QED BY <1>2, Digits

(* The tree.  Only a layer's parent and its children matter to it.         *)

Linked(o) == /\ o = [f \in DOMAIN o |-> o[f]]
             /\ {"parent", "children", "place", "z"} \subseteq DOMAIN o

Store(s) ==
  /\ s = [o \in DOMAIN s |-> s[o]]
  /\ None \notin DOMAIN s
  /\ \A o \in DOMAIN s : /\ Linked(s[o])
                         /\ s[o].parent \in DOMAIN s \cup {None}
                         /\ s[o].children \subseteq DOMAIN s

Tree(s) == Store(s) /\ Consistent(s)

\* A store with the layers of s is a tree when each layer is a child of its parent only.
LEMMA TreeOf ==
  ASSUME NEW s, NEW r, DOMAIN r = DOMAIN s, r = [o \in DOMAIN r |-> r[o]], None \notin DOMAIN s,
         \A o \in DOMAIN s : /\ Linked(r[o])
                             /\ r[o].parent \in DOMAIN s \cup {None}
                             /\ r[o].children \subseteq DOMAIN s,
         \A a, b \in DOMAIN s : a \in r[b].children <=> r[a].parent = b
  PROVE  Tree(r)
  BY DEF Tree, Store, Consistent

\* Taking a layer from its parent leaves it a child of no layer.
LEMMA UnlinkTakesAway ==
  ASSUME NEW s, Tree(s), NEW c \in DOMAIN s
  PROVE  /\ DOMAIN Unlink(s, c) = DOMAIN s
         /\ \A o \in DOMAIN s : /\ Linked(Unlink(s, c)[o])
                                /\ DOMAIN Unlink(s, c)[o] = DOMAIN s[o]
                                /\ Unlink(s, c)[o].parent = s[o].parent
                                /\ Unlink(s, c)[o].children = s[o].children \ {c}
<1>1. SUFFICES ASSUME NEW o \in DOMAIN s
               PROVE  /\ Linked(Unlink(s, c)[o])
                      /\ DOMAIN Unlink(s, c)[o] = DOMAIN s[o]
                      /\ Unlink(s, c)[o].parent = s[o].parent
                      /\ Unlink(s, c)[o].children = s[o].children \ {c}
  BY DEF Unlink
<1>2. Linked(s[o])
  BY <1>1 DEF Tree, Store
<1>3. CASE o = s[c].parent
  <2>1. Unlink(s, c)[o] = [s[o] EXCEPT !.children = @ \ {c}]
    BY <1>1, <1>3 DEF Unlink
  <2> QED BY <2>1, <1>2 DEF Linked
<1>4. CASE o # s[c].parent
  <2>1. Unlink(s, c)[o] = s[o]
    BY <1>1, <1>4 DEF Unlink
  <2>2. c \notin s[o].children
    BY <1>1, <1>4 DEF Tree, Consistent
  <2> QED BY <2>1, <2>2, <1>2
<1> QED BY <1>3, <1>4

\* dispose takes a layer from its parent and leaves it its own children.
LEMMA DisposeKeepsTree ==
  ASSUME NEW s, Tree(s), NEW c \in DOMAIN s
  PROVE  Tree(Dispose(s, c)) /\ DOMAIN Dispose(s, c) = DOMAIN s
<1> DEFINE u == Unlink(s, c)
           r == Dispose(s, c)
<1>1. u = [o \in DOMAIN s |-> u[o]]
  BY DEF Unlink
<1>2. \A o \in DOMAIN s : /\ Linked(u[o]) /\ DOMAIN u[o] = DOMAIN s[o]
                          /\ u[o].parent = s[o].parent
                          /\ u[o].children = s[o].children \ {c}
  BY UnlinkTakesAway
<1>3. r = [u EXCEPT ![c] = [u[c] EXCEPT !.parent = None]]
  BY <1>1 DEF Dispose
<1> HIDE DEF u, r
<1>4. r[c] = [u[c] EXCEPT !.parent = None] /\ DOMAIN r = DOMAIN s /\ r = [o \in DOMAIN r |-> r[o]]
  BY <1>1, <1>3
<1>5. r[c].parent = None /\ r[c].children = u[c].children /\ Linked(r[c])
  BY <1>2, <1>4 DEF Linked
<1>6. \A o \in DOMAIN s : o # c => r[o] = u[o]
  BY <1>1, <1>3
<1>7. \A o \in DOMAIN s : /\ r[o].parent = IF o = c THEN None ELSE s[o].parent
                          /\ r[o].children = s[o].children \ {c}
                          /\ Linked(r[o])
  BY <1>2, <1>5, <1>6
<1>8. /\ None \notin DOMAIN s
      /\ \A o \in DOMAIN s : s[o].parent \in DOMAIN s \cup {None} /\ s[o].children \subseteq DOMAIN s
      /\ \A a, b \in DOMAIN s : a \in s[b].children <=> s[a].parent = b
  BY DEF Tree, Store, Consistent
<1>9. Tree(r)
  BY <1>4, <1>7, <1>8, TreeOf
<1> QED BY <1>4, <1>9 DEF r

\* move makes a layer the child of its new parent and of no other layer.
LEMMA MoveKeepsTree ==
  ASSUME NEW s, Tree(s), NEW c \in DOMAIN s, NEW p \in DOMAIN s, NEW z
  PROVE  Tree(MoveTo(s, c, p, z)) /\ DOMAIN MoveTo(s, c, p, z) = DOMAIN s
<1> DEFINE q == Reparent(s, c, p)
           r == MoveTo(s, c, p, z)
<1>0. /\ None \notin DOMAIN s
      /\ \A o \in DOMAIN s : /\ Linked(s[o]) /\ s[o].parent \in DOMAIN s \cup {None}
                             /\ s[o].children \subseteq DOMAIN s
      /\ \A a, b \in DOMAIN s : a \in s[b].children <=> s[a].parent = b
  BY DEF Tree, Store, Consistent
<1>1. /\ DOMAIN q = DOMAIN s /\ q = [o \in DOMAIN s |-> q[o]]
      /\ \A o \in DOMAIN s : /\ Linked(q[o])
                             /\ q[o].parent = IF o = c THEN p ELSE s[o].parent
                             /\ q[o].children = IF o = p THEN s[o].children \cup {c}
                                                        ELSE s[o].children \ {c}
  <2>1. CASE s[c].parent = p
    <3>1. q = s
      BY <2>1 DEF Reparent
    <3> HIDE DEF q
    <3>2. \A o \in DOMAIN s : c \in s[o].children <=> o = p
      BY <2>1, <1>0
    <3>3. \A o \in DOMAIN s : s[o].children = IF o = p THEN s[o].children \cup {c}
                                                   ELSE s[o].children \ {c}
      BY <3>2
    <3>4. s = [o \in DOMAIN s |-> s[o]]
      BY DEF Tree, Store
    <3>5. \A o \in DOMAIN s : s[o].parent = IF o = c THEN p ELSE s[o].parent
      BY <2>1
    <3>6. \A o \in DOMAIN s : Linked(s[o])
      BY <1>0
    <3> QED BY <3>1, <3>3, <3>4, <3>5, <3>6
  <2>2. CASE s[c].parent # p
    <3> DEFINE u == Unlink(s, c)
               k == LastPlace(s, p)
               v == [u EXCEPT ![c].parent = p, ![c].place = k]
    <3>1. q = [u EXCEPT ![c].parent = p, ![c].place = k, ![p].children = @ \cup {c}]
      BY <2>2 DEF Reparent
    <3>2. u = [o \in DOMAIN s |-> u[o]]
      BY DEF Unlink
    <3>3. \A o \in DOMAIN s : /\ Linked(u[o])
                              /\ u[o].parent = s[o].parent
                              /\ u[o].children = s[o].children \ {c}
      BY UnlinkTakesAway
    <3> HIDE DEF k, u, q
    <3>4. v[c] = [u[c] EXCEPT !.parent = p, !.place = k]
      BY <3>2
    <3>5. v = [o \in DOMAIN s |-> v[o]] /\ \A o \in DOMAIN s : o # c => v[o] = u[o]
      BY <3>2
    <3>6. q = [v EXCEPT ![p].children = @ \cup {c}]
      BY <3>1
    <3> HIDE DEF v
    <3>7. v[c].parent = p /\ v[c].children = u[c].children /\ Linked(v[c])
      BY <3>3, <3>4 DEF Linked
    <3>8. \A o \in DOMAIN s : /\ Linked(v[o])
                              /\ v[o].parent = IF o = c THEN p ELSE s[o].parent
                              /\ v[o].children = s[o].children \ {c}
      BY <3>3, <3>5, <3>7
    <3>9. q[p] = [v[p] EXCEPT !.children = @ \cup {c}]
      BY <3>5, <3>6
    <3>10. q = [o \in DOMAIN s |-> q[o]] /\ DOMAIN q = DOMAIN s
           /\ \A o \in DOMAIN s : o # p => q[o] = v[o]
      BY <3>5, <3>6
    <3>11. q[p].parent = v[p].parent /\ q[p].children = v[p].children \cup {c} /\ Linked(q[p])
      BY <3>8, <3>9 DEF Linked
    <3>12. q[p].children = s[p].children \cup {c}
      BY <3>8, <3>11
    <3> QED BY <3>8, <3>10, <3>11, <3>12
  <2> QED BY <2>1, <2>2
<1>2. r = [q EXCEPT ![c].z = z]
  BY DEF MoveTo
<1> HIDE DEF q, r
<1>3. r[c] = [q[c] EXCEPT !.z = z] /\ DOMAIN r = DOMAIN s /\ r = [o \in DOMAIN r |-> r[o]]
  BY <1>1, <1>2
<1>4. r[c].parent = q[c].parent /\ r[c].children = q[c].children /\ Linked(r[c])
  BY <1>1, <1>3 DEF Linked
<1>5. \A o \in DOMAIN s : o # c => r[o] = q[o]
  BY <1>1, <1>2
<1>6. \A o \in DOMAIN s : /\ r[o].parent = IF o = c THEN p ELSE s[o].parent
                          /\ r[o].children = IF o = p THEN s[o].children \cup {c}
                                                      ELSE s[o].children \ {c}
                          /\ Linked(r[o])
  BY <1>1, <1>4, <1>5
<1>7. ASSUME NEW a \in DOMAIN s, NEW b \in DOMAIN s
      PROVE  a \in r[b].children <=> r[a].parent = b
  <2>1. a \in s[b].children <=> s[a].parent = b
    BY <1>0
  <2> QED BY <1>6, <2>1
<1>8. \A o \in DOMAIN s : /\ Linked(r[o]) /\ r[o].parent \in DOMAIN s \cup {None}
                          /\ r[o].children \subseteq DOMAIN s
  <2>1. SUFFICES ASSUME NEW o \in DOMAIN s
                 PROVE  /\ Linked(r[o]) /\ r[o].parent \in DOMAIN s \cup {None}
                        /\ r[o].children \subseteq DOMAIN s
    OBVIOUS
  <2>2. Linked(r[o]) /\ r[o].parent \in DOMAIN s \cup {None}
    BY <1>0, <1>6
  <2>3. s[o].children \subseteq DOMAIN s
    BY <1>0
  <2>4. r[o].children = s[o].children \cup {c} \/ r[o].children = s[o].children \ {c}
    BY <1>6
  <2>5. r[o].children \subseteq DOMAIN s
    BY <2>3, <2>4
  <2> QED BY <2>2, <2>5
<1>9. Tree(r)
  BY <1>0, <1>3, <1>7, <1>8, TreeOf
<1> QED BY <1>3, <1>9 DEF r

-----------------------------------------------------------------------------
(* Drawing                                                                 *)

\* The drawing tasks, the size, the alpha and the distortion of a layer.
Drawing == {"trace", "close", "clip", "push", "pop", "reset", "identity", "transform",
            "mask", "miterLimit", "colour", "pattern", "copy", "put", "transfer", "image",
            "resize", "shade", "distort"}

\* r hangs in the tree where o does.
Alike(o, r) == /\ DOMAIN r = DOMAIN o
               /\ r = [f \in DOMAIN o |-> r[f]]
               /\ r.parent = o.parent
               /\ r.children = o.children

\* Changing the fields of a layer one after the other.
LEMMA AlikeSteps ==
  ASSUME NEW o, Linked(o), NEW q, Alike(o, q), NEW r, Alike(q, r)
  PROVE  Linked(q) /\ Alike(o, r)
  BY DEF Alike, Linked

\* What a task assigns to is never the place in the tree.
LEMMA Assigning ==
  ASSUME NEW o, Linked(o), NEW f \in STRING, f # "parent", f # "children", NEW v
  PROVE  Alike(o, [o EXCEPT ![f] = v])
  BY DEF Alike, Linked

\* resize and the properties of a layer that is shown.
LEMMA SizesKeepPlace ==
  ASSUME NEW o, Linked(o), NEW b
  PROVE  Alike(o, Reset(o)) /\ Alike(o, Resize(o, b)) /\ Alike(o, Fit(o))
<1>1. Alike(o, Reset(o))
  BY DEF Alike, Linked, Reset
<1>2. ASSUME NEW a PROVE Alike(o, Resize(o, a))
  <2>1. CASE a = o.sized BY <2>1 DEF Resize, Alike, Linked
  <2>2. CASE a # o.sized
    <3> DEFINE q == Reset(o)
    <3>1. Resize(o, a) = [q EXCEPT !.sized = a, !.pix = Clear, !.mask = o.mask,
                                   !.closed = o.closed]
      BY <2>2 DEF Resize
    <3> HIDE DEF q
    <3>2. Alike(o, q) BY <1>1 DEF q
    <3> QED BY <3>1, <3>2 DEF Alike, Linked
  <2> QED BY <2>1, <2>2
<1>3. Alike(o, Fit(o))
  BY <1>2 DEF Fit, Alike, Linked
<1> QED BY <1>1, <1>2, <1>3

\* Tasks that change pixels.
LEMMA PixelsKeepPlace ==
  ASSUME NEW o, Linked(o), NEW p
  PROVE  Alike(o, Paint(o, p)) /\ Alike(o, Draw(o, p)) /\ Alike(o, Overwrite(o, p))
<1>1. ASSUME NEW q, Linked(q), NEW v PROVE Alike(q, Paint(q, v))
  BY <1>1 DEF Paint, Alike, Linked
<1> DEFINE g == Fit(o)
<1>2. Alike(o, g) /\ Linked(g)
  BY SizesKeepPlace DEF Alike, Linked
<1>3. /\ Draw(o, p) = Paint(g, IF g.moved THEN Clear ELSE p)
      /\ Overwrite(o, p) = IF g.sized THEN [g EXCEPT !.pix = p] ELSE g
  BY DEF Draw, Overwrite
<1> HIDE DEF g
<1>5. Alike(g, Draw(o, p))
  BY <1>1, <1>2, <1>3
<1>6. Alike(g, Overwrite(o, p))
  BY <1>2, <1>3 DEF Alike, Linked
<1> QED BY <1>1, <1>2, <1>5, <1>6, AlikeSteps

\* Tasks about the path, the clip and the stack of contexts.
LEMMA PathsKeepPlace ==
  ASSUME NEW o, Linked(o), NEW a, NEW src
  PROVE  /\ Alike(o, Trace(o, a)) /\ Alike(o, Close(o)) /\ Alike(o, Clip(o))
         /\ Alike(o, FillColor(o, a)) /\ Alike(o, FillLayer(o, src))
<1>1. ASSUME NEW q, Linked(q) PROVE Alike(q, Close(q))
  BY <1>1 DEF Close, Alike, Linked
<1>2. Alike(o, Clip(o))
  BY DEF Clip, Alike, Linked
<1>3. Alike(o, Trace(o, a))
  <2> DEFINE g == Fit(o)
  <2>1. Alike(o, g) BY SizesKeepPlace
  <2>2. Trace(o, a) = [g EXCEPT !.path = (@ /\ ~g.closed) \/ (a /\ ~g.moved), !.closed = FALSE]
    BY DEF Trace
  <2> HIDE DEF g
  <2> QED BY <2>1, <2>2 DEF Alike, Linked
<1>4. ASSUME NEW p PROVE Alike(o, Close(Paint(o, p)))
  <2> DEFINE g == Paint(o, p)
  <2>1. Alike(o, g) /\ Linked(g)
    BY PixelsKeepPlace DEF Alike, Linked
  <2> HIDE DEF g
  <2>2. Alike(g, Close(g)) BY <1>1, <2>1
  <2>3. Alike(o, Close(g)) BY <2>1, <2>2, AlikeSteps
  <2> QED BY <2>3 DEF g
<1>5. Alike(o, FillColor(o, a)) /\ Alike(o, FillLayer(o, src))
  BY <1>4 DEF FillColor, FillLayer
<1> QED BY <1>1, <1>2, <1>3, <1>5

\* No task that draws moves its layer in the tree.
LEMMA EffectKeepsPlace ==
  ASSUME NEW o, Linked(o), NEW t, t.do \in Drawing, NEW src
  PROVE  Alike(o, Effect(t, o, src))
<1>1. CASE t.do \in {"trace", "close", "clip", "colour", "pattern"}
  BY <1>1, PathsKeepPlace DEF Effect
<1>2. CASE t.do \in {"copy", "put", "transfer", "image"}
  <2>1. Alike(o, o) BY DEF Alike, Linked
  <2> QED BY <1>2, <2>1, PixelsKeepPlace DEF Effect, Copy, Put, Transfer, DrawImage
<1>3. CASE t.do \in {"reset", "resize"}
  BY <1>3, SizesKeepPlace DEF Effect
<1>4. CASE t.do \in {"push", "identity", "transform", "mask", "miterLimit", "shade", "distort"}
  BY <1>4 DEF Effect, Push, SetTransform, Transform, SetChannelMask, SetMiterLimit, Shade,
              Distort, Alike, Linked
<1>5. CASE t.do = "pop"
  <2>1. CASE o.saved = <<>> BY <1>5, <2>1 DEF Effect, Pop, Alike, Linked
  <2>2. CASE o.saved # <<>>
    <3> DEFINE g == Restore(o, Last(o.saved))
    <3>1. Alike(o, g) BY DEF Restore, Alike, Linked
    <3>2. Pop(o) = [g EXCEPT !.saved = Front(@)] BY <2>2 DEF Pop
    <3> HIDE DEF g
    <3>3. Alike(o, Pop(o)) BY <3>1, <3>2 DEF Alike, Linked
    <3> QED BY <1>5, <3>3 DEF Effect
  <2> QED BY <2>1, <2>2
<1> QED BY <1>1, <1>2, <1>3, <1>4, <1>5 DEF Drawing

\* No task leaves a layer among the children of another layer than its parent, or of two:
\* flatten and exportState meet each layer of the tree once.
THEOREM TasksKeepTree ==
  ASSUME NEW s, Tree(s), NEW t, t.on \in DOMAIN s, t.src \in DOMAIN s,
         t.do \in Drawing \cup {"move", "dispose"}
  PROVE  Tree(Apply(s, t)) /\ DOMAIN Apply(s, t) = DOMAIN s
<1>1. CASE t.do = "move"
  BY <1>1, MoveKeepsTree DEF Apply
<1>2. CASE t.do = "dispose"
  BY <1>2, DisposeKeepsTree DEF Apply
<1>3. CASE t.do \in Drawing
  <2> DEFINE e == Effect(t, s[t.on], s[t.src])
             r == [s EXCEPT ![t.on] = e]
  <2>1. Apply(s, t) = r
    BY <1>3 DEF Apply, Drawing
  <2>2. /\ s = [o \in DOMAIN s |-> s[o]] /\ None \notin DOMAIN s
        /\ \A o \in DOMAIN s : /\ Linked(s[o]) /\ s[o].parent \in DOMAIN s \cup {None}
                               /\ s[o].children \subseteq DOMAIN s
        /\ \A a, b \in DOMAIN s : a \in s[b].children <=> s[a].parent = b
    BY DEF Tree, Store, Consistent
  <2>3. Alike(s[t.on], e)
    BY <1>3, <2>2, EffectKeepsPlace
  <2>4. Linked(e)
    BY <2>2, <2>3 DEF Alike, Linked
  <2> HIDE DEF e
  <2>5. /\ DOMAIN r = DOMAIN s /\ r = [o \in DOMAIN r |-> r[o]]
        /\ r[t.on] = e /\ \A o \in DOMAIN s : o # t.on => r[o] = s[o]
    BY <2>2
  <2>6. e.parent = s[t.on].parent /\ e.children = s[t.on].children
    BY <2>3 DEF Alike
  <2> HIDE DEF r
  <2>7. \A o \in DOMAIN s : /\ r[o].parent = s[o].parent /\ r[o].children = s[o].children
                            /\ Linked(r[o])
    BY <2>2, <2>4, <2>5, <2>6
  <2>8. Tree(r) BY <2>2, <2>5, <2>7, TreeOf
  <2> QED BY <2>1, <2>5, <2>8
<1> QED BY <1>1, <1>2, <1>3
(* Recursion.  What a recursive function computes is known once one such   *)
(* function exists; that is shown for one value more at a time.            *)

\* A set of numbers has a least one.
LEMMA Least ==
  ASSUME NEW T \in SUBSET Nat, T # {}
  PROVE  \E x \in T : \A y \in T : ~(y < x)
<1> DEFINE R == OpToRel(<, Nat)
<1>1. IsWellFoundedOn(R, Nat)
  BY NatLessThanWellFounded
<1> HIDE DEF R
<1>2. PICK x \in T : \A y \in T : <<y, x>> \notin R
  BY <1>1, WFMin
<1>3. \A a, b \in Nat : a < b => <<a, b>> \in R
  BY DEF R, OpToRel
<1> QED BY <1>2, <1>3

\* A set that has 0, and n + 1 with n, has every number.
LEMMA SetInduction ==
  ASSUME NEW S, 0 \in S, \A n \in Nat : n \in S => n + 1 \in S
  PROVE  Nat \subseteq S
<1> DEFINE T == {n \in Nat : n \notin S}
<1> SUFFICES ASSUME T # {} PROVE FALSE
  OBVIOUS
<1>1. PICK x \in T : \A y \in T : ~(y < x)
  <2> HIDE DEF T
  <2>1. T \in SUBSET Nat
    BY DEF T
  <2> QED BY <2>1, Least
<1>2. x \in Nat /\ x # 0 /\ x \notin S
  OBVIOUS
<1>3. x - 1 \in Nat /\ x - 1 < x /\ (x - 1) + 1 = x
  BY <1>2
<1>4. x - 1 \in S
  BY <1>1, <1>3
<1> QED BY <1>2, <1>3, <1>4

\* The same for the numbers up to k.
LEMMA Along ==
  ASSUME NEW k \in Nat, NEW S, 0 \in S, \A n \in 1..k : n - 1 \in S => n \in S
  PROVE  \A n \in 0..k : n \in S
<1> DEFINE T == {n \in Nat : n <= k => n \in S}
<1>1. 0 \in T
  OBVIOUS
<1>2. ASSUME NEW n \in Nat, n \in T PROVE n + 1 \in T
  <2>1. CASE n + 1 <= k
    <3>1. n + 1 \in 1..k /\ (n + 1) - 1 = n /\ n <= k
      BY <2>1
    <3> QED BY <1>2, <3>1
  <2>2. CASE ~(n + 1 <= k)
    BY <2>2
  <2> QED BY <2>1, <2>2
<1>3. Nat \subseteq T
  <2> HIDE DEF T
  <2> QED BY <1>1, <1>2, SetInduction
<1> QED BY <1>3

\* The way Reduce names a value.
LEMMA TheOne ==
  ASSUME NEW x PROVE (CHOOSE v \in {x} : TRUE) = x
  OBVIOUS

\* The provers cannot put an operator in the place of a parameter: the steps of
\* all recursive functions here have a name k instead.
Each(k, p, v, x) ==
  CASE k = "task"    -> IF x.image \in p THEN v ELSE Execute(v, x)
    [] k = "frame"   -> FlushFrame(v, x, p)
    [] k = "queue"   -> v \o x
    [] k = "dispose" -> Dispose(v, p[x])
    [] k = "import"  -> importLayer(v, x, p[x])

\* f makes one step after the other along a sequence.
Steps(f, k, p, base, seq, last) ==
  f = [n \in 0..last |-> IF n = 0 THEN base ELSE Each(k, p, f[n - 1], seq[n])]

\* There is such a function.
LEMMA Recursion ==
  ASSUME NEW k, NEW p, NEW base, NEW seq, NEW last \in Nat
  PROVE  \E f : Steps(f, k, p, base, seq, last)
<1> DEFINE Step(v, n) == Each(k, p, v, seq[n])
           Rec(f, m) == f = [n \in 0..m |-> IF n = 0 THEN base ELSE Step(f[n - 1], n)]
           S == {m \in Nat : \E f : Rec(f, m)}
<1> SUFFICES \E f : Rec(f, last)
  BY DEF Steps
<1> HIDE DEF Step
<1>1. 0 \in S
  <2> DEFINE g == [n \in 0..0 |-> base]
  <2>1. Rec(g, 0)
    OBVIOUS
  <2> QED BY <2>1
<1>2. ASSUME NEW m \in Nat, m \in S PROVE m + 1 \in S
  <2>1. PICK f : Rec(f, m)
    BY <1>2
  <2> DEFINE g == [n \in 0..(m + 1) |-> IF n = m + 1 THEN Step(f[m], m + 1) ELSE f[n]]
             h == [n \in 0..(m + 1) |-> IF n = 0 THEN base ELSE Step(g[n - 1], n)]
  <2>2. \A n \in 0..m : f[n] = IF n = 0 THEN base ELSE Step(f[n - 1], n)
    BY <2>1
  <2>3. ASSUME NEW n \in 0..(m + 1) PROVE g[n] = h[n]
    <3>1. CASE n = m + 1
      <4>1. n # 0 /\ n - 1 = m /\ m \in 0..(m + 1) /\ m # m + 1
        BY <3>1
      <4> QED BY <3>1, <4>1
    <3>2. CASE n # m + 1
      <4>1. n \in 0..m /\ (n # 0 => n - 1 \in 0..(m + 1) /\ n - 1 # m + 1)
        BY <3>2
      <4> QED BY <2>2, <3>2, <4>1
    <3> QED BY <3>1, <3>2
  <2>4. g = h
    <3>1. /\ DOMAIN g = 0..(m + 1) /\ DOMAIN h = 0..(m + 1)
          /\ g = [n \in DOMAIN g |-> g[n]] /\ h = [n \in DOMAIN h |-> h[n]]
      OBVIOUS
    <3> HIDE DEF g, h
    <3> QED BY <2>3, <3>1
  <2>5. Rec(g, m + 1)
    <3> HIDE DEF g
    <3> QED BY <2>4
  <2>6. \E x : Rec(x, m + 1)
    <3> HIDE DEF g, h, Rec
    <3> QED BY <2>5
  <2> HIDE DEF Rec
  <2> QED BY <2>6
<1>3. last \in S
  <2> HIDE DEF S
  <2> QED BY <1>1, <1>2, SetInduction
<1> QED BY <1>3

\* f makes a step for each subset of A, with the element picked from it.
SetSteps(f, k, p, base, A, pick) ==
  f = [s \in SUBSET A |-> IF s = {} THEN base ELSE Each(k, p, f[s \ {pick[s]}], pick[s])]

\* There is a function of sets that takes its elements one at a time.
LEMMA SetRecursion ==
  ASSUME NEW k, NEW p, NEW base, NEW A, IsFiniteSet(A),
         NEW pick, \A s \in SUBSET A : s # {} => pick[s] \in s
  PROVE  \E f : SetSteps(f, k, p, base, A, pick)
<1> DEFINE D(m) == {s \in SUBSET A : Cardinality(s) <= m}
           Step(v, s) == Each(k, p, v, pick[s])
           Rec(f, m) == f = [s \in D(m) |-> IF s = {} THEN base ELSE Step(f[s \ {pick[s]}], s)]
           S == {m \in Nat : \E f : Rec(f, m)}
<1>1. \A s \in SUBSET A : IsFiniteSet(s) /\ Cardinality(s) \in Nat
  BY FS_Subset, FS_CardinalityType
<1>2. ASSUME NEW s \in SUBSET A, s # {}
      PROVE  s \ {pick[s]} \in SUBSET A /\ Cardinality(s \ {pick[s]}) = Cardinality(s) - 1
  BY <1>1, <1>2, FS_RemoveElement
<1>3. \A s \in SUBSET A : Cardinality(s) <= 0 => s = {}
  BY <1>1, FS_EmptySet
<1> HIDE DEF Step
<1>4. 0 \in S
  <2> DEFINE g == [s \in D(0) |-> base]
             h == [s \in D(0) |-> IF s = {} THEN base ELSE Step(g[s \ {pick[s]}], s)]
  <2>1. \A s \in D(0) : g[s] = h[s]
    BY <1>3
  <2>2. g = h
    <3>1. /\ DOMAIN g = D(0) /\ DOMAIN h = D(0)
          /\ g = [s \in DOMAIN g |-> g[s]] /\ h = [s \in DOMAIN h |-> h[s]]
      OBVIOUS
    <3> HIDE DEF g, h, D
    <3> QED BY <2>1, <3>1
  <2>3. Rec(g, 0)
    <3> HIDE DEF g
    <3> QED BY <2>2
  <2> QED BY <2>3
<1>5. ASSUME NEW m \in Nat, m \in S PROVE m + 1 \in S
  <2>1. PICK f : Rec(f, m)
    BY <1>5
  <2> DEFINE g == [s \in D(m + 1) |-> IF Cardinality(s) <= m THEN f[s]
                                      ELSE Step(f[s \ {pick[s]}], s)]
             h == [s \in D(m + 1) |-> IF s = {} THEN base ELSE Step(g[s \ {pick[s]}], s)]
  <2>2. \A s \in D(m) : f[s] = IF s = {} THEN base ELSE Step(f[s \ {pick[s]}], s)
    BY <2>1
  <2>3. ASSUME NEW s \in D(m + 1) PROVE g[s] = h[s]
    <3>1. s \in SUBSET A /\ Cardinality(s) \in Nat
      BY <1>1
    <3>2. CASE s = {}
      <4>1. Cardinality(s) <= m
        BY <3>2, FS_EmptySet
      <4>2. s \in D(m)
        BY <3>1, <4>1
      <4>3. f[s] = base
        BY <2>2, <3>2, <4>2
      <4> QED BY <3>2, <4>1, <4>3
    <3>3. CASE s # {}
      <4> DEFINE r == s \ {pick[s]}
      <4>1. r \in SUBSET A /\ Cardinality(r) = Cardinality(s) - 1
        BY <1>2, <3>1, <3>3
      <4> HIDE DEF r
      <4>2. Cardinality(r) <= m /\ r \in D(m + 1) /\ r \in D(m)
        BY <3>1, <4>1
      <4>3. g[r] = f[r]
        BY <4>2
      <4>4. g[s] = Step(f[r], s)
        <5>1. CASE Cardinality(s) <= m
          <6>1. s \in D(m)
            BY <3>1, <5>1
          <6>2. f[s] = Step(f[r], s)
            BY <2>2, <3>3, <6>1 DEF r
          <6> QED BY <5>1, <6>2
        <5>2. CASE ~(Cardinality(s) <= m)
          BY <5>2 DEF r
        <5> QED BY <5>1, <5>2
      <4>5. h[s] = Step(g[r], s)
        <5> HIDE DEF g, D
        <5> QED BY <3>3 DEF r
      <4> HIDE DEF g, h
      <4> QED BY <4>3, <4>4, <4>5
    <3> QED BY <3>2, <3>3
  <2>4. g = h
    <3>1. /\ DOMAIN g = D(m + 1) /\ DOMAIN h = D(m + 1)
          /\ g = [s \in DOMAIN g |-> g[s]] /\ h = [s \in DOMAIN h |-> h[s]]
      OBVIOUS
    <3> HIDE DEF g, h, D
    <3> QED BY <2>3, <3>1
  <2>5. Rec(g, m + 1)
    <3> HIDE DEF g, D
    <3> QED BY <2>4
  <2>6. \E x : Rec(x, m + 1)
    <3> HIDE DEF g, h, Rec
    <3> QED BY <2>5
  <2> HIDE DEF Rec
  <2> QED BY <2>6
<1>6. Cardinality(A) \in Nat
  BY FS_CardinalityType
<1>7. Cardinality(A) \in S
  <2> HIDE DEF S
  <2> QED BY <1>4, <1>5, <1>6, SetInduction
<1>8. D(Cardinality(A)) = SUBSET A
  <2>1. ASSUME NEW s \in SUBSET A PROVE Cardinality(s) <= Cardinality(A)
    BY FS_Subset
  <2> QED BY <2>1
<1>9. PICK f : Rec(f, Cardinality(A))
  BY <1>7
<1> HIDE DEF D
<1>10. f = [s \in SUBSET A |-> IF s = {} THEN base ELSE Step(f[s \ {pick[s]}], s)]
  BY <1>8, <1>9
<1> QED BY <1>10 DEF Step, SetSteps

\* What holds of the empty set, and of a set if of the set without its picked
\* element, holds of all.
LEMMA SetAlong ==
  ASSUME NEW A, IsFiniteSet(A), NEW pick, \A s \in SUBSET A : s # {} => pick[s] \in s,
         NEW G, {} \in G, \A s \in SUBSET A : s # {} /\ s \ {pick[s]} \in G => s \in G
  PROVE  A \in G
<1> DEFINE S == {m \in Nat : \A s \in SUBSET A : Cardinality(s) = m => s \in G}
<1>1. \A s \in SUBSET A : IsFiniteSet(s) /\ Cardinality(s) \in Nat
  BY FS_Subset, FS_CardinalityType
<1>2. 0 \in S
  BY <1>1, FS_EmptySet
<1>3. ASSUME NEW m \in Nat, m \in S PROVE m + 1 \in S
  <2>1. SUFFICES ASSUME NEW s \in SUBSET A, Cardinality(s) = m + 1 PROVE s \in G
    OBVIOUS
  <2>2. s # {}
    BY <2>1, FS_EmptySet
  <2>3. Cardinality(s \ {pick[s]}) = Cardinality(s) - 1
    BY <1>1, <2>2, FS_RemoveElement
  <2>4. Cardinality(s \ {pick[s]}) = m
    BY <2>1, <2>3
  <2>5. s \ {pick[s]} \in G
    BY <1>3, <2>4
  <2> QED BY <2>2, <2>5
<1>4. Cardinality(A) \in Nat
  BY FS_CardinalityType
<1>5. Cardinality(A) \in S
  <2> HIDE DEF S
  <2> QED BY <1>2, <1>3, <1>4, SetInduction
<1> QED BY <1>5

\* run executes tasks one after the other, from w to v.
Executes(run, w, ts, waiting, v) ==
  /\ run[0] = w /\ run[Len(ts)] = v
  /\ \A n \in 1..Len(ts) :
       run[n] = IF ts[n].image \in waiting THEN run[n - 1] ELSE Execute(run[n - 1], ts[n])

\* What ExecuteLoaded returns is where such a run ends.
LEMMA Executing ==
  ASSUME NEW w, NEW ts, Len(ts) \in Nat, NEW waiting
  PROVE  \E run : Executes(run, w, ts, waiting, ExecuteLoaded(w, ts, waiting))
<1> DEFINE Op(v, x) == IF x.image \in waiting THEN v ELSE Execute(v, x)
           Step(v, n) == CHOOSE y \in {Op(u, ts[n]) : u \in {v}} : TRUE
           F == CHOOSE f : f = [n \in 0..Len(ts) |-> IF n = 0 THEN w ELSE Step(f[n - 1], n)]
<1>1. ASSUME NEW v, NEW n PROVE Step(v, n) = Op(v, ts[n])
  <2>1. {Op(u, ts[n]) : u \in {v}} = {Op(v, ts[n])}
    OBVIOUS
  <2> HIDE DEF Op
  <2> QED BY <2>1, TheOne
<1>2. \A v, n : Each("task", waiting, v, ts[n]) = Op(v, ts[n])
  BY DEF Each
<1>3. ExecuteLoaded(w, ts, waiting) = F[Len(ts)]
  BY DEF ExecuteLoaded, Reduce
<1> HIDE DEF Op, Step
<1>4. PICK f : Steps(f, "task", waiting, w, ts, Len(ts))
  BY Recursion
<1>5. f = [n \in 0..Len(ts) |-> IF n = 0 THEN w ELSE Step(f[n - 1], n)]
  <2> DEFINE h == [n \in 0..Len(ts) |-> IF n = 0 THEN w ELSE Step(f[n - 1], n)]
  <2>1. \A n \in 0..Len(ts) : f[n] = h[n]
    BY <1>1, <1>2, <1>4 DEF Steps
  <2>2. /\ DOMAIN f = 0..Len(ts) /\ DOMAIN h = 0..Len(ts)
        /\ f = [n \in DOMAIN f |-> f[n]] /\ h = [n \in DOMAIN h |-> h[n]]
    BY <1>4 DEF Steps
  <2>3. f = h
    <3> HIDE DEF h
    <3> QED BY <2>1, <2>2
  <2> QED BY <2>3
<1>6. F = [n \in 0..Len(ts) |-> IF n = 0 THEN w ELSE Step(F[n - 1], n)]
  <2> DEFINE Rec(g) == g = [n \in 0..Len(ts) |-> IF n = 0 THEN w ELSE Step(g[n - 1], n)]
  <2>1. \E g : Rec(g)
    BY <1>5
  <2>2. F = CHOOSE g : Rec(g)
    OBVIOUS
  <2> HIDE DEF Rec, F
  <2>3. Rec(F)
    BY <2>1, <2>2
  <2> QED BY <2>3 DEF Rec
<1> HIDE DEF F
<1>7. F[0] = w /\ \A n \in 1..Len(ts) : F[n] = Step(F[n - 1], n)
  BY <1>6
<1>8. \A n \in 1..Len(ts) : F[n] = IF ts[n].image \in waiting THEN F[n - 1]
                                    ELSE Execute(F[n - 1], ts[n])
  BY <1>1, <1>7 DEF Op
<1> QED BY <1>3, <1>7, <1>8 DEF Executes

\* run flushes frames one after the other, from s to r.
Flushes(run, s, fs, b, r) ==
  /\ run[0] = s /\ run[Len(fs)] = r
  /\ \A n \in 1..Len(fs) : run[n] = FlushFrame(run[n - 1], fs[n], b)

Shown(s, fs, b) == Reduce(LAMBDA r, f : FlushFrame(r, f, b), s, fs)

\* The same for the frames that ShowFrames draws.
LEMMA Showing ==
  ASSUME NEW s, NEW fs, Len(fs) \in Nat, NEW b
  PROVE  \E run : Flushes(run, s, fs, b, Shown(s, fs, b))
<1> DEFINE Op(v, x) == FlushFrame(v, x, b)
           Step(v, n) == CHOOSE y \in {Op(u, fs[n]) : u \in {v}} : TRUE
           F == CHOOSE f : f = [n \in 0..Len(fs) |-> IF n = 0 THEN s ELSE Step(f[n - 1], n)]
<1>1. ASSUME NEW v, NEW n PROVE Step(v, n) = Op(v, fs[n])
  <2>1. {Op(u, fs[n]) : u \in {v}} = {Op(v, fs[n])}
    OBVIOUS
  <2> HIDE DEF Op
  <2> QED BY <2>1, TheOne
<1>2. \A v, n : Each("frame", b, v, fs[n]) = Op(v, fs[n])
  BY DEF Each
<1>3. Shown(s, fs, b) = F[Len(fs)]
  BY DEF Shown, Reduce
<1> HIDE DEF Op, Step
<1>4. PICK f : Steps(f, "frame", b, s, fs, Len(fs))
  BY Recursion
<1>5. f = [n \in 0..Len(fs) |-> IF n = 0 THEN s ELSE Step(f[n - 1], n)]
  <2> DEFINE h == [n \in 0..Len(fs) |-> IF n = 0 THEN s ELSE Step(f[n - 1], n)]
  <2>1. \A n \in 0..Len(fs) : f[n] = h[n]
    BY <1>1, <1>2, <1>4 DEF Steps
  <2>2. /\ DOMAIN f = 0..Len(fs) /\ DOMAIN h = 0..Len(fs)
        /\ f = [n \in DOMAIN f |-> f[n]] /\ h = [n \in DOMAIN h |-> h[n]]
    BY <1>4 DEF Steps
  <2>3. f = h
    <3> HIDE DEF h
    <3> QED BY <2>1, <2>2
  <2> QED BY <2>3
<1>6. F = [n \in 0..Len(fs) |-> IF n = 0 THEN s ELSE Step(F[n - 1], n)]
  <2> DEFINE Rec(g) == g = [n \in 0..Len(fs) |-> IF n = 0 THEN s ELSE Step(g[n - 1], n)]
  <2>1. \E g : Rec(g)
    BY <1>5
  <2>2. F = CHOOSE g : Rec(g)
    OBVIOUS
  <2> HIDE DEF Rec, F
  <2>3. Rec(F)
    BY <2>1, <2>2
  <2> QED BY <2>3 DEF Rec
<1> HIDE DEF F
<1>7. F[0] = s /\ \A n \in 1..Len(fs) : F[n] = Step(F[n - 1], n)
  BY <1>6
<1>8. \A n \in 1..Len(fs) : F[n] = FlushFrame(F[n - 1], fs[n], b)
  BY <1>1, <1>7 DEF Op
<1> QED BY <1>3, <1>7, <1>8 DEF Flushes

-----------------------------------------------------------------------------
(* Sequences of tasks                                                      *)

Listed(s) == s \in Seq(Range(s))

\* A sequence over any set is a sequence over its elements.
LEMMA ListedOf ==
  ASSUME NEW S, NEW s \in Seq(S)
  PROVE  Listed(s) /\ Range(s) \subseteq S
<1>1. Len(s) \in Nat /\ s \in [1..Len(s) -> S] /\ DOMAIN s = 1..Len(s)
  BY LenProperties
<1>2. Range(s) \subseteq S /\ s \in [1..Len(s) -> Range(s)]
  BY <1>1 DEF Range
<1>3. s \in Seq(Range(s))
  BY <1>1, <1>2, SeqDef
<1> QED BY <1>2, <1>3 DEF Listed

\* The elements of two sequences one after the other.
LEMMA Joined ==
  ASSUME NEW a, Listed(a), NEW b, Listed(b)
  PROVE  Listed(a \o b) /\ Range(a \o b) \subseteq Range(a) \cup Range(b)
<1> DEFINE S == Range(a) \cup Range(b)
<1>1. \A A, B : A \subseteq B => Seq(A) \subseteq Seq(B)
  OBVIOUS
<1>2. a \in Seq(S) /\ b \in Seq(S)
  BY <1>1 DEF Listed
<1> HIDE DEF S
<1>3. a \o b \in Seq(S)
  BY <1>2, ConcatProperties
<1> QED BY <1>3, ListedOf DEF S

\* What is flattened consists of what its parts consist of.
LEMMA Flattened ==
  ASSUME NEW S, NEW ss \in Seq(Seq(S))
  PROVE  FlattenSeq(ss) \in Seq(S)
<1> DEFINE last == Len(ss)
           Rec(f) == f = [i \in 1..last |-> IF i = 1 THEN ss[i] ELSE f[i - 1] \o ss[i]]
           F == CHOOSE f : Rec(f)
<1>1. last \in Nat /\ \A i \in 1..last : ss[i] \in Seq(S)
  BY LenProperties
<1>2. CASE last = 0
  <2>1. ss = <<>> /\ FlattenSeq(ss) = ss
    BY <1>2, EmptySeq DEF FlattenSeq
  <2>2. ss \in Seq(S)
    BY <2>1, EmptySeq
  <2> QED BY <2>1, <2>2
<1>3. CASE last # 0
  <2>1. FlattenSeq(ss) = F[last]
    BY <1>3 DEF FlattenSeq
  <2>2. PICK f : Steps(f, "queue", 0, <<>>, ss, last)
    BY <1>1, Recursion
  <2> HIDE DEF last
  <2>a. f[0] = <<>>
    BY <1>1, <2>2 DEF Steps
  <2>3. \A n \in 1..last : f[n] = f[n - 1] \o ss[n]
    <3>1. \A n \in 1..last : f[n] = Each("queue", 0, f[n - 1], ss[n])
      BY <1>1, <2>2 DEF Steps
    <3>2. \A v, x : Each("queue", 0, v, x) = v \o x
      BY DEF Each
    <3> QED BY <3>1, <3>2
  <2> DEFINE G == {n \in 0..last : f[n] \in Seq(S)}
  <2>4. \A n \in 0..last : n \in G
    <3>1. 0 \in G
      <4>0. <<>> \in Seq(S)
        BY EmptySeq
      <4>1. f[0] \in Seq(S)
        BY <2>a, <4>0
      <4>2. 0 \in 0..last
        BY <1>1
      <4> QED BY <4>1, <4>2
    <3>2. ASSUME NEW n \in 1..last, n - 1 \in G PROVE n \in G
      <4>1. f[n - 1] \in Seq(S) /\ ss[n] \in Seq(S)
        BY <1>1, <3>2
      <4>2. f[n - 1] \o ss[n] \in Seq(S)
        BY <4>1, ConcatProperties
      <4>3. f[n] = f[n - 1] \o ss[n]
        BY <2>3, ZenonT(20)
      <4>5. n \in 0..last
        BY <1>1
      <4>4. f[n] \in Seq(S)
        BY <4>2, <4>3
      <4> QED BY <4>4, <4>5
    <3> HIDE DEF G
    <3> QED BY <1>1, <3>1, <3>2, Along
  <2>5. \A n \in 0..last : f[n] \in Seq(S)
    BY <2>4
  <2>6. last \in 1..last /\ 1 \in 1..last
    BY <1>1, <1>3
  <2> DEFINE h == [i \in 1..last |-> f[i]]
             r == [i \in 1..last |-> IF i = 1 THEN ss[i] ELSE h[i - 1] \o ss[i]]
  <2>7. f[1] = ss[1]
    <3>a. f[1] = f[1 - 1] \o ss[1]
      BY <2>3, <2>6, Zenon
    <3>1. ss[1] \in Seq(S) /\ 1 - 1 = 0
      BY <1>1, <2>6
    <3>2. f[1] = <<>> \o ss[1]
      BY <2>a, <3>1, <3>a
    <3> QED BY <3>1, <3>2, ConcatEmptySeq
  <2>8. h = r
    <3>1. ASSUME NEW i \in 1..last PROVE h[i] = r[i]
      <4>1. CASE i = 1
        BY <2>7, <4>1
      <4>2. CASE i # 1
        <5>1. i - 1 \in 1..last
          BY <1>1, <4>2
        <5> QED BY <2>3, <4>2, <5>1
      <4> QED BY <4>1, <4>2
    <3>2. /\ DOMAIN h = 1..last /\ DOMAIN r = 1..last
          /\ h = [i \in DOMAIN h |-> h[i]] /\ r = [i \in DOMAIN r |-> r[i]]
      OBVIOUS
    <3> HIDE DEF h, r
    <3> QED BY <3>1, <3>2
  <2>9. Rec(h)
    <3> HIDE DEF h
    <3> QED BY <2>8
  <2>10. Rec(F)
    <3> HIDE DEF Rec, h
    <3> QED BY <2>9
  <2> HIDE DEF F
  <2>11. F[1] = ss[1] /\ \A i \in 1..last : i # 1 => F[i] = F[i - 1] \o ss[i]
    BY <2>6, <2>10
  <2> DEFINE K == {n \in 0..last : n = 0 \/ F[n] \in Seq(S)}
  <2>12. \A n \in 0..last : n \in K
    <3>1. 0 \in K
      BY <1>1
    <3>2. ASSUME NEW n \in 1..last, n - 1 \in K PROVE n \in K
      <4>1. CASE n = 1
        BY <1>1, <2>11, <4>1
      <4>2. CASE n # 1
        <5>1. F[n - 1] \in Seq(S) /\ ss[n] \in Seq(S)
          BY <1>1, <3>2, <4>2
        <5>2. F[n - 1] \o ss[n] \in Seq(S)
          BY <5>1, ConcatProperties
        <5>3. F[n] = F[n - 1] \o ss[n]
          BY <2>11, <4>2, Zenon
        <5>4. n \in 0..last
          BY <1>1
        <5>5. F[n] \in Seq(S)
          BY <5>2, <5>3
        <5> QED BY <5>4, <5>5
      <4> QED BY <4>1, <4>2
    <3> HIDE DEF K
    <3> QED BY <1>1, <3>1, <3>2, Along
  <2>13. last \in K
    BY <1>1, <2>12
  <2>14. F[last] \in Seq(S)
    BY <1>3, <2>13
  <2> QED BY <2>1, <2>14
<1> QED BY <1>2, <1>3
-----------------------------------------------------------------------------
(* The world: layers, their indices and the cursor                         *)

World(w) ==
  /\ w = [objs |-> w.objs, layers |-> w.layers, cursor |-> w.cursor]
  /\ Tree(w.objs) /\ \E n \in Nat : DOMAIN w.objs = 0..n
  /\ IsFiniteSet(DOMAIN w.layers) /\ DOMAIN w.layers \subseteq Int
  /\ w.layers \in [DOMAIN w.layers -> DOMAIN w.objs]

\* A layer that is made is a child of no layer and has no children.
LEMMA NewLayersKeepTree ==
  ASSUME NEW s, Tree(s), NEW n \in Nat, DOMAIN s = 0..n, NEW visible, NEW sized
  PROVE  /\ Cardinality(DOMAIN s) = n + 1
         /\ Tree(With(s, n + 1, NewLayer(visible, sized)))
         /\ DOMAIN With(s, n + 1, NewLayer(visible, sized)) = 0..(n + 1)
<1> DEFINE new == NewLayer(visible, sized)
           r == With(s, n + 1, new)
<1>1. Cardinality(DOMAIN s) = n + 1
  BY FS_Interval
<1>2. /\ None \notin DOMAIN s
      /\ \A o \in DOMAIN s : /\ Linked(s[o])
                             /\ s[o].parent \in DOMAIN s \cup {None}
                             /\ s[o].children \subseteq DOMAIN s
      /\ \A a, b \in DOMAIN s : a \in s[b].children <=> s[a].parent = b
  BY DEF Tree, Store, Consistent
<1>3. Linked(new) /\ new.parent = None /\ new.children = {}
  BY DEF NewLayer, Linked
<1> HIDE DEF new
<1>4. /\ DOMAIN r = DOMAIN s \cup {n + 1} /\ r = [o \in DOMAIN r |-> r[o]]
      /\ r[n + 1] = new /\ \A o \in DOMAIN s : o # n + 1 => r[o] = s[o]
  BY DEF With
<1>5. n + 1 \notin DOMAIN s /\ n + 1 # None /\ None \notin DOMAIN r /\ DOMAIN r = 0..(n + 1)
  <2>1. 0..(n + 1) = 0..n \cup {n + 1} /\ n + 1 \notin 0..n /\ -1 \notin 0..(n + 1) /\ n + 1 # -1
    OBVIOUS
  <2> HIDE DEF r
  <2> QED BY <1>4, <2>1 DEF None
<1> HIDE DEF r
<1>6. \A o \in DOMAIN s : r[o] = s[o] /\ o # n + 1
  BY <1>4, <1>5
<1>7. \A o \in DOMAIN r : /\ Linked(r[o])
                          /\ r[o].parent \in DOMAIN r \cup {None}
                          /\ r[o].children \subseteq DOMAIN r
  <2> HIDE DEF Linked
  <2> QED BY <1>2, <1>3, <1>4, <1>6
<1>8. ASSUME NEW a \in DOMAIN r, NEW b \in DOMAIN r
      PROVE  a \in r[b].children <=> r[a].parent = b
  <2>1. CASE a \in DOMAIN s /\ b \in DOMAIN s
    BY <1>2, <1>6, <2>1
  <2>2. CASE a = n + 1 /\ b \in DOMAIN s
    <3>1. r[a].parent # b
      BY <1>2, <1>3, <1>4, <2>2
    <3>2. a \notin r[b].children
      BY <1>2, <1>5, <1>6, <2>2
    <3> QED BY <3>1, <3>2
  <2>3. CASE b = n + 1 /\ a \in DOMAIN s
    <3>1. r[a].parent # b
      BY <1>2, <1>5, <1>6, <2>3
    <3> QED BY <1>3, <1>4, <2>3, <3>1
  <2>4. CASE a = n + 1 /\ b = n + 1
    BY <1>3, <1>4, <1>5, <2>4
  <2> QED BY <1>4, <2>1, <2>2, <2>3, <2>4
<1>9. Tree(r)
  BY <1>4, <1>5, <1>7, <1>8, TreeOf
<1> QED BY <1>1, <1>5, <1>9 DEF r, new

\* createLayer and createBuffer keep the tree, and add one layer.
LEMMA LayersMade ==
  ASSUME NEW s, Tree(s), NEW n \in Nat, DOMAIN s = 0..n
  PROVE  /\ Tree(createLayer(s)) /\ DOMAIN createLayer(s) = 0..(n + 1)
         /\ Tree(createBuffer(s)) /\ DOMAIN createBuffer(s) = 0..(n + 1)
<1> DEFINE r == With(s, n + 1, NewLayer(TRUE, s[Default].sized))
<1>1. Cardinality(DOMAIN s) = n + 1 /\ Tree(r) /\ DOMAIN r = 0..(n + 1)
  BY NewLayersKeepTree
<1>2. Tree(createBuffer(s)) /\ DOMAIN createBuffer(s) = 0..(n + 1)
  BY <1>1, NewLayersKeepTree DEF createBuffer
<1>3. createLayer(s) = MoveTo(r, n + 1, Default, 0)
  BY <1>1 DEF createLayer
<1> HIDE DEF r
<1>4. n + 1 \in DOMAIN r /\ Default \in DOMAIN r
  BY <1>1 DEF Default
<1>5. Tree(MoveTo(r, n + 1, Default, 0)) /\ DOMAIN MoveTo(r, n + 1, Default, 0) = DOMAIN r
  <2> DEFINE c == n + 1
  <2>1. c \in DOMAIN r /\ Tree(r) /\ Default \in DOMAIN r
    BY <1>1, <1>4
  <2> HIDE DEF c
  <2>2. Tree(MoveTo(r, c, Default, 0)) /\ DOMAIN MoveTo(r, c, Default, 0) = DOMAIN r
    BY <2>1, MoveKeepsTree
  <2> QED BY <2>2 DEF c
<1> QED BY <1>1, <1>2, <1>3, <1>5

\* v is w, with a layer more perhaps.
Grown(w, v) ==
  /\ World(v)
  /\ DOMAIN w.objs \subseteq DOMAIN v.objs
  /\ DOMAIN w.layers \subseteq DOMAIN v.layers

\* Looking up a layer after another.
LEMMA GrownTwice ==
  ASSUME NEW u, NEW v, NEW w, Grown(u, v), Grown(v, w) PROVE Grown(u, w)
  BY DEF Grown

\* getLayer finds a layer, or makes it.
LEMMA getLayerGrows ==
  ASSUME NEW w, World(w), NEW i \in Int
  PROVE  Grown(w, getLayer(w, i)) /\ i \in DOMAIN getLayer(w, i).layers
<1> DEFINE v == getLayer(w, i)
<1>1. PICK n \in Nat : DOMAIN w.objs = 0..n
  BY DEF World
<1>2. /\ w = [objs |-> w.objs, layers |-> w.layers, cursor |-> w.cursor]
      /\ Tree(w.objs) /\ IsFiniteSet(DOMAIN w.layers) /\ DOMAIN w.layers \subseteq Int
      /\ w.layers \in [DOMAIN w.layers -> DOMAIN w.objs]
  BY DEF World
<1>3. CASE i \in DOMAIN w.layers
  BY <1>3 DEF getLayer, Grown
<1>4. CASE i \notin DOMAIN w.layers
  <2>1. PICK o, objs : /\ v = [w EXCEPT !.layers = With(w.layers, i, o), !.objs = objs]
                       /\ Tree(objs) /\ o \in DOMAIN objs
                       /\ (objs = w.objs \/ DOMAIN objs = 0..(n + 1))
    <3>1. CASE i = 0
      <4>1. v = [w EXCEPT !.layers = With(w.layers, i, Default), !.objs = w.objs]
        BY <1>2, <1>4, <3>1 DEF getLayer
      <4>2. Default \in DOMAIN w.objs
        BY <1>1 DEF Default
      <4> QED BY <1>2, <4>1, <4>2
    <3>2. CASE i # 0
      <4> DEFINE objs == IF i > 0 THEN createLayer(w.objs) ELSE createBuffer(w.objs)
      <4>1. v = [w EXCEPT !.layers = With(w.layers, i, Cardinality(DOMAIN w.objs)), !.objs = objs]
        BY <1>4, <3>2 DEF getLayer
      <4>2. Cardinality(DOMAIN w.objs) = n + 1
        BY <1>1, FS_Interval
      <4>3. Tree(objs) /\ DOMAIN objs = 0..(n + 1)
        BY <1>1, <1>2, LayersMade
      <4> HIDE DEF objs
      <4>4. n + 1 \in DOMAIN objs
        BY <4>3
      <4> QED BY <4>1, <4>2, <4>3, <4>4
    <3> QED BY <3>1, <3>2
  <2> HIDE DEF v
  <2>2. /\ v = [objs |-> v.objs, layers |-> v.layers, cursor |-> v.cursor]
        /\ v.objs = objs /\ v.layers = With(w.layers, i, o)
    BY <1>2, <2>1
  <2>3. DOMAIN w.objs \subseteq DOMAIN objs /\ \E m \in Nat : DOMAIN objs = 0..m
    BY <1>1, <2>1
  <2>4. DOMAIN v.layers = DOMAIN w.layers \cup {i}
    BY <2>2 DEF With
  <2>5. v.layers \in [DOMAIN v.layers -> DOMAIN objs]
    BY <1>2, <2>1, <2>2, <2>3 DEF With
  <2>6. IsFiniteSet(DOMAIN v.layers)
    BY <1>2, <2>4, FS_AddElement
  <2>7. World(v)
    BY <1>2, <2>1, <2>2, <2>3, <2>4, <2>5, <2>6 DEF World
  <2>8. Grown(w, v) /\ i \in DOMAIN v.layers
    BY <2>2, <2>3, <2>4, <2>7 DEF Grown
  <2> QED BY <2>8 DEF v
<1> QED BY <1>3, <1>4
-----------------------------------------------------------------------------
(* Executing tasks                                                         *)

Valid(t, made) ==
  /\ t.do \in Drawing \cup {"move", "dispose", "cursor"}
  /\ t.on \in made /\ t.src \in made

\* Tasks on layers that are made, scheduled since a timestamp.
Due(ts, made, since) ==
  /\ Listed(ts)
  /\ \A t \in Range(ts) : Valid(t, made) /\ t.epoch \in Nat /\ t.epoch >= since

\* v has the layers and the indices of w.
Like(w, v) == World(v) /\ v.layers = w.layers /\ DOMAIN v.objs = DOMAIN w.objs

\* One task.
LEMMA ExecuteKeeps ==
  ASSUME NEW w, World(w), NEW t, Valid(t, DOMAIN w.objs)
  PROVE  Like(w, Execute(w, t))
<1> DEFINE v == Execute(w, t)
<1>1. /\ w = [objs |-> w.objs, layers |-> w.layers, cursor |-> w.cursor]
      /\ Tree(w.objs) /\ \E n \in Nat : DOMAIN w.objs = 0..n
      /\ IsFiniteSet(DOMAIN w.layers) /\ DOMAIN w.layers \subseteq Int
      /\ w.layers \in [DOMAIN w.layers -> DOMAIN w.objs]
  BY DEF World
<1>2. /\ v = [objs |-> v.objs, layers |-> v.layers, cursor |-> v.cursor]
      /\ v.layers = w.layers /\ Tree(v.objs) /\ DOMAIN v.objs = DOMAIN w.objs
  <2>1. CASE t.do = "cursor"
    <3> DEFINE c == setCursor(w.cursor, t.arg.hot, t.arg.size, w.objs[t.on])
    <3>1. v = [w EXCEPT !.cursor = c]
      BY <2>1 DEF Execute
    <3> HIDE DEF c, v
    <3> QED BY <1>1, <3>1
  <2>2. CASE t.do # "cursor"
    <3> DEFINE a == Apply(w.objs, t)
    <3>1. v = [w EXCEPT !.objs = a]
      BY <2>2 DEF Execute
    <3>2. t.on \in DOMAIN w.objs /\ t.src \in DOMAIN w.objs
          /\ t.do \in Drawing \cup {"move", "dispose"}
      BY <2>2 DEF Valid
    <3>3. Tree(a) /\ DOMAIN a = DOMAIN w.objs
      BY <1>1, <3>2, TasksKeepTree
    <3> HIDE DEF a, v
    <3>4. v.objs = a
      BY <1>1, <3>1
    <3> QED BY <1>1, <3>1, <3>3, <3>4
  <2> QED BY <2>1, <2>2
<1> HIDE DEF v
<1>3. World(v)
  BY <1>1, <1>2 DEF World
<1> QED BY <1>2, <1>3 DEF Like, v

\* What a sequence has are its elements.
LEMMA ListedHas ==
  ASSUME NEW s, Listed(s)
  PROVE  Len(s) \in Nat /\ DOMAIN s = 1..Len(s) /\ \A n \in 1..Len(s) : s[n] \in Range(s)
<1>1. Len(s) \in Nat /\ DOMAIN s = 1..Len(s)
  BY LenProperties DEF Listed
<1> QED BY <1>1 DEF Range

\* A queue of tasks, whatever images it waits for.
LEMMA ExecutingKeeps ==
  ASSUME NEW w, World(w), NEW ts, Listed(ts), \A t \in Range(ts) : Valid(t, DOMAIN w.objs),
         NEW waiting
  PROVE  Like(w, ExecuteLoaded(w, ts, waiting))
<1>1. Len(ts) \in Nat /\ \A n \in 1..Len(ts) : Valid(ts[n], DOMAIN w.objs)
  BY ListedHas
<1>a. PICK run : Executes(run, w, ts, waiting, ExecuteLoaded(w, ts, waiting))
  BY <1>1, Executing
<1>2. /\ run[0] = w
      /\ ExecuteLoaded(w, ts, waiting) = run[Len(ts)]
      /\ \A n \in 1..Len(ts) :
           run[n] = IF ts[n].image \in waiting THEN run[n - 1] ELSE Execute(run[n - 1], ts[n])
  BY <1>a DEF Executes
<1> DEFINE G == {n \in 0..Len(ts) : Like(w, run[n])}
<1>3. 0 \in G
  BY <1>1, <1>2 DEF Like
<1>4. ASSUME NEW n \in 1..Len(ts), n - 1 \in G PROVE n \in G
  <2>1. Like(w, run[n - 1])
    BY <1>4
  <2>2. Like(w, run[n])
    <3>1. CASE ts[n].image \in waiting
      BY <1>2, <2>1, <3>1
    <3>2. CASE ts[n].image \notin waiting
      <4>1. World(run[n - 1]) /\ Valid(ts[n], DOMAIN run[n - 1].objs)
        BY <1>1, <2>1 DEF Like
      <4>2. Like(run[n - 1], Execute(run[n - 1], ts[n]))
        BY <4>1, ExecuteKeeps
      <4>3. run[n] = Execute(run[n - 1], ts[n])
        BY <1>2, <3>2
      <4> QED BY <2>1, <4>2, <4>3 DEF Like
    <3> QED BY <3>1, <3>2
  <2> QED BY <1>1, <2>2
<1>5. \A n \in 0..Len(ts) : n \in G
  <2> HIDE DEF G
  <2> QED BY <1>1, <1>3, <1>4, Along
<1>6. Len(ts) \in G
  BY <1>1, <1>5
<1> QED BY <1>2, <1>6

-----------------------------------------------------------------------------
(* Frames                                                                  *)

SavedOK(exported) ==
  exported # <<>> =>
    LET layers == exported[1].layers
    IN  /\ IsFiniteSet(DOMAIN layers) /\ DOMAIN layers \subseteq Int
        /\ \A i \in DOMAIN layers : layers[i].parent \in Int

\* The timestamp of a sync is at most the number n of syncs received.
CallbackOK(c, n) ==
  /\ c.kind \in {"none", "sync", "export"}
  /\ c.kind = "sync"   => c.t \in Nat /\ c.t <= n
  /\ c.kind = "export" => IsFiniteSet(DOMAIN c.layers) /\ DOMAIN c.layers \subseteq Int

Shape(s) == s = [world |-> s.world, currentTimestamp |-> s.currentTimestamp,
                 acked |-> s.acked, saved |-> s.saved]

\* What is shown and what the client was told.
Shows(s, n) == Shape(s) /\ World(s.world) /\ SavedOK(s.saved) /\ s.acked \in 0..n

\* An exported parent is an index or null.
LEMMA ExportedOK ==
  ASSUME NEW c, IsFiniteSet(DOMAIN c.layers), DOMAIN c.layers \subseteq Int,
         NEW s, World(s.world), NEW now, NEW timestamp
  PROVE  SavedOK(<<populateLayers(c.layers, now, timestamp, s)>>)
<1> DEFINE p == populateLayers(c.layers, now, timestamp, s)
<1>1. DOMAIN p.layers = DOMAIN c.layers
  BY DEF populateLayers
<1>2. ASSUME NEW o PROVE getLayerIndex(s.world, o) \in Int
  <2>1. DOMAIN s.world.layers \subseteq Int
    BY DEF World
  <2> QED BY <2>1 DEF getLayerIndex, None
<1>3. ASSUME NEW i \in DOMAIN p.layers PROVE p.layers[i].parent \in Int
  <2>1. p.layers[i].parent = getLayerIndex(s.world, s.world.objs[c.layers[i]].parent)
    BY <1>1 DEF populateLayers
  <2> QED BY <1>2, <2>1
<1> HIDE DEF p
<1>4. <<p>>[1] = p
  OBVIOUS
<1> QED BY <1>1, <1>3, <1>4 DEF SavedOK, p

\* A frame that is shown moves the acknowledged timestamp to its own, or not.
LEMMA FlushFrameKeeps ==
  ASSUME NEW n \in Nat, NEW s, Shows(s, n), NEW b,
         NEW f, Due(f.tasks, DOMAIN s.world.objs, s.acked), CallbackOK(f.callback, n)
  PROVE  /\ Shows(FlushFrame(s, f, b), n)
         /\ Like(s.world, FlushFrame(s, f, b).world)
         /\ \/ FlushFrame(s, f, b).acked = s.acked
            \/ f.callback.kind = "sync" /\ FlushFrame(s, f, b).acked = f.callback.t
<1> DEFINE w == ExecuteLoaded(s.world, f.tasks, DOMAIN b)
           u == [s EXCEPT !.world = w]
           r == FlushFrame(s, f, b)
           c == f.callback
<1>1. Like(s.world, w)
  BY ExecutingKeeps DEF Shows, Due
<1>2. r = Call(c, u)
  BY DEF FlushFrame
<1> HIDE DEF w, r
<1>3. /\ Shape(u) /\ u.world = w /\ u.currentTimestamp = s.currentTimestamp
      /\ u.acked = s.acked /\ u.saved = s.saved
  BY DEF Shows, Shape
<1> HIDE DEF u
<1>4. World(w) /\ SavedOK(s.saved) /\ s.acked \in 0..n
  BY <1>1 DEF Like, Shows
<1>5. CASE c.kind = "none"
  BY <1>1, <1>2, <1>3, <1>4, <1>5 DEF Call, Shows, r
<1>6. CASE c.kind = "sync"
  <2>1. c.t \in 0..n
    BY <1>6 DEF CallbackOK
  <2>2. r = displaySyncComplete(c.t, u)
    BY <1>2, <1>6 DEF Call
  <2>3. CASE c.t = u.currentTimestamp
    <3>1. r = u
      BY <2>2, <2>3 DEF displaySyncComplete
    <3> QED BY <1>1, <1>3, <1>4, <3>1 DEF Shows, r
  <2>4. CASE c.t # u.currentTimestamp
    <3>1. r = [u EXCEPT !.acked = c.t, !.currentTimestamp = c.t]
      BY <2>2, <2>4 DEF displaySyncComplete
    <3>2. Shape(r) /\ r.world = w /\ r.acked = c.t /\ r.saved = s.saved
      BY <1>3, <3>1 DEF Shape
    <3> QED BY <1>1, <1>4, <1>6, <2>1, <3>2 DEF Shows, r
  <2> QED BY <2>3, <2>4
<1>7. CASE c.kind = "export"
  <2> DEFINE p == <<populateLayers(c.layers, c.state, c.t, u)>>
  <2>1. r = [u EXCEPT !.saved = p]
    BY <1>2, <1>7 DEF Call
  <2>2. SavedOK(p)
    BY <1>3, <1>4, <1>7, ExportedOK DEF CallbackOK
  <2> HIDE DEF p
  <2>3. Shape(r) /\ r.world = w /\ r.acked = s.acked /\ r.saved = p
    BY <1>3, <2>1 DEF Shape
  <2> QED BY <1>1, <1>4, <2>2, <2>3 DEF Shows, r
<1> QED BY <1>5, <1>6, <1>7 DEF CallbackOK
-----------------------------------------------------------------------------
(* What waits                                                              *)

\* The tasks of frames and the tasks ts after them are due since the timestamp
\* acknowledged last, and those after a sync since its timestamp.
Pending(s, fs, ts, n) ==
  /\ Shows(s, n) /\ Listed(fs)
  /\ Due(ts, DOMAIN s.world.objs, s.acked)
  /\ \A k \in 1..Len(fs) :
       /\ Due(fs[k].tasks, DOMAIN s.world.objs, s.acked)
       /\ CallbackOK(fs[k].callback, n)
       /\ fs[k].callback.kind = "sync" =>
            /\ Due(ts, DOMAIN s.world.objs, fs[k].callback.t)
            /\ \A j \in 1..Len(fs) : j > k => Due(fs[j].tasks, DOMAIN s.world.objs, fs[k].callback.t)

\* The frames that are shown and those that stay.
LEMMA Parts ==
  ASSUME NEW fs, Listed(fs), NEW m \in 0..Len(fs)
  PROVE  /\ Listed(SubSeq(fs, 1, m)) /\ Len(SubSeq(fs, 1, m)) = m
         /\ \A k \in 1..m : SubSeq(fs, 1, m)[k] = fs[k]
         /\ Listed(SubSeq(fs, m + 1, Len(fs))) /\ Len(SubSeq(fs, m + 1, Len(fs))) = Len(fs) - m
         /\ \A k \in 1..(Len(fs) - m) : SubSeq(fs, m + 1, Len(fs))[k] = fs[m + k]
<1> DEFINE S == Range(fs)
<1>1. fs \in Seq(S) /\ Len(fs) \in Nat
  BY ListedHas DEF Listed
<1> HIDE DEF S
<1>2. SubSeq(fs, 1, m) \in Seq(S) /\ SubSeq(fs, m + 1, Len(fs)) \in Seq(S)
  BY <1>1
<1>3. Len(SubSeq(fs, 1, m)) = m /\ Len(SubSeq(fs, m + 1, Len(fs))) = Len(fs) - m
  BY <1>1
<1>4. /\ \A k \in 1..m : SubSeq(fs, 1, m)[k] = fs[k]
      /\ \A k \in 1..(Len(fs) - m) : SubSeq(fs, m + 1, Len(fs))[k] = fs[m + k]
  BY <1>1
<1> QED BY <1>2, <1>3, <1>4, ListedOf

\* Showing the first frames leaves the others pending.
LEMMA ShowingKeeps ==
  ASSUME NEW n \in Nat, NEW s, NEW fs, NEW ts, Pending(s, fs, ts, n), NEW m \in 0..Len(fs), NEW b
  PROVE  /\ Pending(Shown(s, SubSeq(fs, 1, m), b), SubSeq(fs, m + 1, Len(fs)), ts, n)
         /\ Like(s.world, Shown(s, SubSeq(fs, 1, m), b).world)
<1> DEFINE first == SubSeq(fs, 1, m)
           rest  == SubSeq(fs, m + 1, Len(fs))
           made  == DOMAIN s.world.objs
           r     == Shown(s, first, b)
<1>1. /\ Listed(fs) /\ Len(fs) \in Nat /\ m \in Nat /\ m <= Len(fs)
      /\ Listed(first) /\ Len(first) = m /\ \A k \in 1..m : first[k] = fs[k]
      /\ Listed(rest) /\ Len(rest) = Len(fs) - m /\ \A k \in 1..(Len(fs) - m) : rest[k] = fs[m + k]
  <2>1. Listed(fs)
    BY DEF Pending
  <2>2. Len(fs) \in Nat
    BY <2>1, ListedHas
  <2>3. /\ Listed(first) /\ Len(first) = m /\ \A k \in 1..m : first[k] = fs[k]
        /\ Listed(rest) /\ Len(rest) = Len(fs) - m
        /\ \A k \in 1..(Len(fs) - m) : rest[k] = fs[m + k]
    BY <2>1, Parts
  <2> HIDE DEF first, rest
  <2> QED BY <2>1, <2>2, <2>3
<1>2. /\ Shows(s, n) /\ Due(ts, made, s.acked)
      /\ \A k \in 1..Len(fs) :
           /\ Due(fs[k].tasks, made, s.acked)
           /\ CallbackOK(fs[k].callback, n)
           /\ fs[k].callback.kind = "sync" =>
                /\ Due(ts, made, fs[k].callback.t)
                /\ \A j \in 1..Len(fs) : j > k => Due(fs[j].tasks, made, fs[k].callback.t)
  BY DEF Pending
<1> HIDE DEF first, rest, made, r
<1>3. PICK run : Flushes(run, s, first, b, r)
  BY <1>1, Showing DEF r
<1>4. run[0] = s /\ run[m] = r /\ \A k \in 1..m : run[k] = FlushFrame(run[k - 1], fs[k], b)
  BY <1>1, <1>3 DEF Flushes
<1> DEFINE After(k) == /\ Shows(run[k], n) /\ Like(s.world, run[k].world)
                       /\ Due(ts, made, run[k].acked)
                       /\ \A j \in 1..Len(fs) : j > k => Due(fs[j].tasks, made, run[k].acked)
           G == {k \in 0..m : After(k)}
<1>5. 0 \in G
  <2>1. After(0)
    BY <1>2, <1>4 DEF Like, Shows
  <2> QED BY <1>1, <2>1
<1>6. ASSUME NEW k \in 1..m, k - 1 \in G PROVE k \in G
  <2>1. After(k - 1)
    BY <1>6
  <2> DEFINE u == run[k - 1]
             v == run[k]
             f == fs[k]
  <2>2. k \in 1..Len(fs) /\ k > k - 1 /\ \A j \in 1..Len(fs) : j > k => j > k - 1
    BY <1>1
  <2>3. /\ Shows(u, n) /\ Like(s.world, u.world) /\ Due(ts, made, u.acked)
        /\ Due(f.tasks, made, u.acked)
        /\ \A j \in 1..Len(fs) : j > k => Due(fs[j].tasks, made, u.acked)
    BY <2>1, <2>2
  <2>4. CallbackOK(f.callback, n) /\ v = FlushFrame(u, f, b)
    BY <1>2, <1>4, <2>2
  <2>5. f.callback.kind = "sync" =>
          /\ Due(ts, made, f.callback.t)
          /\ \A j \in 1..Len(fs) : j > k => Due(fs[j].tasks, made, f.callback.t)
    BY <1>2, <2>2
  <2> HIDE DEF u, v, f
  <2>6. DOMAIN u.world.objs = made
    BY <2>3 DEF Like, made
  <2>7. /\ Shows(v, n) /\ Like(u.world, v.world)
        /\ v.acked = u.acked \/ (f.callback.kind = "sync" /\ v.acked = f.callback.t)
    BY <2>3, <2>4, <2>6, FlushFrameKeeps
  <2>8. Like(s.world, v.world)
    BY <2>3, <2>7 DEF Like
  <2>9. Due(ts, made, v.acked) /\ \A j \in 1..Len(fs) : j > k => Due(fs[j].tasks, made, v.acked)
    BY <2>3, <2>5, <2>7
  <2>10. After(k)
    BY <2>7, <2>8, <2>9 DEF v
  <2>11. k \in 0..m
    BY <1>1
  <2> HIDE DEF After
  <2> QED BY <2>10, <2>11
<1>7. After(m)
  <2>1. \A k \in 0..m : k \in G
    <3> HIDE DEF G
    <3> QED BY <1>1, <1>5, <1>6, Along
  <2>2. m \in G
    BY <1>1, <2>1
  <2> HIDE DEF After
  <2> QED BY <2>2
<1>8. Shows(r, n) /\ Like(s.world, r.world) /\ DOMAIN r.world.objs = made /\ Due(ts, made, r.acked)
  BY <1>4, <1>7 DEF Like, made
<1>9. ASSUME NEW k \in 1..Len(rest)
      PROVE  /\ Due(rest[k].tasks, made, r.acked)
             /\ CallbackOK(rest[k].callback, n)
             /\ rest[k].callback.kind = "sync" =>
                  /\ Due(ts, made, rest[k].callback.t)
                  /\ \A j \in 1..Len(rest) : j > k => Due(rest[j].tasks, made, rest[k].callback.t)
  <2>1. /\ \A j \in 1..Len(rest) : rest[j] = fs[m + j] /\ m + j \in 1..Len(fs)
        /\ m + k > m /\ \A j \in 1..Len(rest) : j > k => m + j > m + k
    BY <1>1
  <2>2. rest[k] = fs[m + k] /\ m + k \in 1..Len(fs)
    BY <2>1
  <2>3. Due(rest[k].tasks, made, r.acked)
    BY <1>4, <1>7, <2>1, <2>2
  <2>4. CallbackOK(rest[k].callback, n)
    BY <1>2, <2>2
  <2>5. ASSUME rest[k].callback.kind = "sync"
        PROVE  /\ Due(ts, made, rest[k].callback.t)
               /\ \A j \in 1..Len(rest) : j > k => Due(rest[j].tasks, made, rest[k].callback.t)
    <3>1. /\ Due(ts, made, fs[m + k].callback.t)
          /\ \A j \in 1..Len(fs) : j > m + k => Due(fs[j].tasks, made, fs[m + k].callback.t)
      BY <1>2, <2>2, <2>5
    <3> QED BY <2>1, <2>2, <3>1
  <2> QED BY <2>3, <2>4, <2>5
<1>10. Pending(r, rest, ts, n)
  BY <1>1, <1>8, <1>9 DEF Pending
<1> QED BY <1>8, <1>10 DEF r, rest, first

\* No frame that is pending throws.
LEMMA NoneThrows ==
  ASSUME NEW n \in Nat, NEW s, NEW fs, NEW ts, Pending(s, fs, ts, n), NEW k \in 1..Len(fs)
  PROVE  ~Throws(fs[k])
<1>1. Due(fs[k].tasks, DOMAIN s.world.objs, s.acked)
  BY DEF Pending
<1>2. \A i \in DOMAIN fs[k].tasks : fs[k].tasks[i] \in Range(fs[k].tasks)
  BY <1>1, ListedHas DEF Due
<1>3. \A t \in Range(fs[k].tasks) : t.do # "strokeLayer"
  BY <1>1 DEF Due, Valid, Drawing
<1> QED BY <1>2, <1>3 DEF Throws, Strokes

\* Frames that are ready are shown, and what the next state has is what is pending then.
LEMMA syncFlushKeeps ==
  ASSUME NEW n \in Nat, NEW s, NEW fs, NEW ts, Pending(s, fs, ts, n), NEW b, syncFlush(s, fs, b)
  PROVE  Pending(Now(world)', frames', ts, n) /\ Like(s.world, world')
<1>1. PICK m \in 0..Len(fs) : ShowFrames(m, s, fs, b)
  <2>1. Len(fs) \in Nat
    BY ListedHas DEF Pending
  <2>2. PICK m \in 0..Len(fs) : RunFrames(m, s, fs, b)
    BY DEF syncFlush
  <2>3. ASSUME NEW k \in 1..m PROVE ~Throws(fs[k])
    <3>1. k \in 1..Len(fs)
      BY <2>1, <2>2, <2>3
    <3> QED BY <3>1, NoneThrows
  <2> QED BY <2>2, <2>3 DEF RunFrames
<1> DEFINE r == Shown(s, SubSeq(fs, 1, m), b)
<1>2. /\ world' = r.world /\ saved' = r.saved
      /\ acked' = r.acked /\ currentTimestamp' = r.currentTimestamp
      /\ frames' = SubSeq(fs, m + 1, Len(fs))
  BY <1>1 DEF ShowFrames, FlushEach, Shown
<1>3. Pending(r, SubSeq(fs, m + 1, Len(fs)), ts, n) /\ Like(s.world, r.world)
  BY ShowingKeeps
<1> HIDE DEF r
<1>4. Now(world)' = r
  BY <1>2, <1>3 DEF Now, Pending, Shows, Shape
<1> QED BY <1>2, <1>3, <1>4

\* Layers are never taken out of the store.
LEMMA DueLater ==
  ASSUME NEW ts, NEW made, NEW since, Due(ts, made, since), NEW more, made \subseteq more
  PROVE  Due(ts, more, since)
  BY DEF Due, Valid

\* What is due since n is due since any time before.
LEMMA DueSooner ==
  ASSUME NEW ts, NEW made, NEW n \in Int, Due(ts, made, n), NEW since \in Int, since <= n
  PROVE  Due(ts, made, since)
  BY DEF Due

\* Two queues one after the other.
LEMMA DueJoined ==
  ASSUME NEW made, NEW since, NEW a, Due(a, made, since), NEW b, Due(b, made, since)
  PROVE  Due(a \o b, made, since)
<1>1. Listed(a \o b) /\ Range(a \o b) \subseteq Range(a) \cup Range(b)
  BY Joined DEF Due
<1> QED BY <1>1 DEF Due

\* No tasks.
LEMMA DueNone ==
  ASSUME NEW made, NEW since PROVE Due(<<>>, made, since)
<1>1. Listed(<<>>) /\ Range(<<>>) = {}
  <2>1. <<>> \in Seq({}) /\ DOMAIN <<>> = {}
    BY EmptySeq
  <2> QED BY <2>1, ListedOf DEF Range
<1> QED BY <1>1 DEF Due

\* More tasks and more layers.
LEMMA PendingGrows ==
  ASSUME NEW n \in Nat, NEW s, NEW fs, NEW ts, Pending(s, fs, ts, n),
         NEW w, World(w), DOMAIN s.world.objs \subseteq DOMAIN w.objs,
         NEW new, Due(new, DOMAIN w.objs, n)
  PROVE  Pending([s EXCEPT !.world = w], fs, ts \o new, n)
<1> DEFINE r == [s EXCEPT !.world = w]
           made == DOMAIN s.world.objs
           more == DOMAIN w.objs
<1>1. Shape(s) /\ World(w) /\ SavedOK(s.saved) /\ s.acked \in 0..n /\ made \subseteq more
  BY DEF Pending, Shows
<1>2. Shape(r) /\ r.world = w /\ r.acked = s.acked /\ r.saved = s.saved
  BY <1>1 DEF Shape
<1>3. Listed(fs) /\ Due(ts, made, s.acked) /\ \A k \in 1..Len(fs) :
        /\ Due(fs[k].tasks, made, s.acked)
        /\ CallbackOK(fs[k].callback, n)
        /\ fs[k].callback.kind = "sync" =>
             /\ Due(ts, made, fs[k].callback.t)
             /\ \A j \in 1..Len(fs) : j > k => Due(fs[j].tasks, made, fs[k].callback.t)
  BY DEF Pending
<1> HIDE DEF r, made, more
<1>4. \A since, old : since \in 0..n /\ Due(old, made, since) => Due(old \o new, more, since)
  <2>1. ASSUME NEW since \in 0..n, NEW old, Due(old, made, since)
        PROVE  Due(old \o new, more, since)
    <3>1. Due(old, more, since)
      BY <1>1, <2>1, DueLater
    <3>2. Due(new, more, since)
      BY DueSooner DEF more
    <3> QED BY <3>1, <3>2, DueJoined
  <2> QED BY <2>1
<1>5. \A since, old : Due(old, made, since) => Due(old, more, since)
  BY <1>1, DueLater
<1>6. Shows(r, n) /\ Due(ts \o new, more, s.acked)
  BY <1>1, <1>2, <1>3, <1>4 DEF Shows
<1>7. ASSUME NEW k \in 1..Len(fs)
      PROVE  /\ Due(fs[k].tasks, more, s.acked)
             /\ CallbackOK(fs[k].callback, n)
             /\ fs[k].callback.kind = "sync" =>
                  /\ Due(ts \o new, more, fs[k].callback.t)
                  /\ \A j \in 1..Len(fs) : j > k => Due(fs[j].tasks, more, fs[k].callback.t)
  <2>1. Due(fs[k].tasks, more, s.acked) /\ CallbackOK(fs[k].callback, n)
    BY <1>3, <1>5
  <2>2. ASSUME fs[k].callback.kind = "sync"
        PROVE  /\ Due(ts \o new, more, fs[k].callback.t)
               /\ \A j \in 1..Len(fs) : j > k => Due(fs[j].tasks, more, fs[k].callback.t)
    <3>1. fs[k].callback.t \in 0..n
      BY <1>3, <2>2 DEF CallbackOK
    <3>2. Due(ts, made, fs[k].callback.t)
      BY <1>3, <2>2
    <3>3. \A j \in 1..Len(fs) : j > k => Due(fs[j].tasks, made, fs[k].callback.t)
      BY <1>3, <2>2
    <3> QED BY <1>4, <1>5, <3>1, <3>2, <3>3
  <2> QED BY <2>1, <2>2
<1>8. Pending(r, fs, ts \o new, n)
  BY <1>2, <1>3, <1>6, <1>7 DEF Pending, more
<1> QED BY <1>8 DEF r

\* The frame under construction is closed.
LEMMA PendingClosed ==
  ASSUME NEW n \in Nat, NEW s, NEW fs, NEW ts, Pending(s, fs, ts, n),
         NEW m \in Nat, n <= m, NEW c, CallbackOK(c, m)
  PROVE  Pending(s, Append(fs, [tasks |-> ts, callback |-> c]), <<>>, m)
<1> DEFINE f == [tasks |-> ts, callback |-> c]
           gs == Append(fs, f)
           made == DOMAIN s.world.objs
<1>1. Shows(s, n) /\ Listed(fs) /\ Due(ts, made, s.acked) /\ \A k \in 1..Len(fs) :
        /\ Due(fs[k].tasks, made, s.acked)
        /\ CallbackOK(fs[k].callback, n)
        /\ fs[k].callback.kind = "sync" =>
             /\ Due(ts, made, fs[k].callback.t)
             /\ \A j \in 1..Len(fs) : j > k => Due(fs[j].tasks, made, fs[k].callback.t)
  BY DEF Pending
<1>2. f.tasks = ts /\ f.callback = c
  OBVIOUS
<1> HIDE DEF f
<1>3. /\ Listed(gs) /\ Len(gs) = Len(fs) + 1 /\ Len(fs) \in Nat
      /\ gs[Len(fs) + 1] = f /\ \A k \in 1..Len(fs) : gs[k] = fs[k]
  <2> DEFINE S == Range(fs) \cup {f}
  <2>1. \A A, B : A \subseteq B => Seq(A) \subseteq Seq(B)
    OBVIOUS
  <2>2. fs \in Seq(S) /\ f \in S
    BY <1>1, <2>1 DEF Listed
  <2> HIDE DEF S
  <2>3. /\ gs \in Seq(S) /\ Len(gs) = Len(fs) + 1 /\ Len(fs) \in Nat
        /\ gs[Len(fs) + 1] = f /\ \A k \in 1..Len(fs) : gs[k] = fs[k]
    BY <2>2, AppendProperties
  <2> HIDE DEF gs
  <2> QED BY <2>3, ListedOf
<1> HIDE DEF gs, made
<1>4. Shows(s, m)
  BY <1>1 DEF Shows
<1>5. \A d : CallbackOK(d, n) => CallbackOK(d, m)
  BY DEF CallbackOK
<1>6. ASSUME NEW k \in 1..Len(gs)
      PROVE  /\ Due(gs[k].tasks, made, s.acked)
             /\ CallbackOK(gs[k].callback, m)
             /\ gs[k].callback.kind = "sync" =>
                  /\ Due(<<>>, made, gs[k].callback.t)
                  /\ \A j \in 1..Len(gs) : j > k => Due(gs[j].tasks, made, gs[k].callback.t)
  <2>1. CASE k = Len(fs) + 1
    <3>1. gs[k].tasks = ts /\ gs[k].callback = c /\ \A j \in 1..Len(gs) : ~(j > k)
      BY <1>2, <1>3, <2>1
    <3> QED BY <1>1, <3>1, DueNone
  <2>2. CASE k # Len(fs) + 1
    <3>1. k \in 1..Len(fs) /\ gs[k] = fs[k]
      BY <1>3, <2>2
    <3>2. Due(gs[k].tasks, made, s.acked) /\ CallbackOK(gs[k].callback, m)
      BY <1>1, <1>5, <3>1
    <3>3. ASSUME gs[k].callback.kind = "sync", NEW j \in 1..Len(gs), j > k
          PROVE  Due(gs[j].tasks, made, gs[k].callback.t)
      <4>1. CASE j = Len(fs) + 1
        <5>1. gs[j].tasks = ts
          BY <1>2, <1>3, <4>1
        <5>2. Due(ts, made, fs[k].callback.t)
          BY <1>1, <3>1, <3>3
        <5> QED BY <3>1, <5>1, <5>2
      <4>2. CASE j # Len(fs) + 1
        <5>1. j \in 1..Len(fs) /\ gs[j] = fs[j]
          BY <1>3, <4>2
        <5> QED BY <1>1, <3>1, <3>3, <5>1
      <4> QED BY <4>1, <4>2
    <3> QED BY <3>2, <3>3, DueNone
  <2> QED BY <1>3, <2>1, <2>2
<1>7. Due(<<>>, made, s.acked)
  BY DueNone
<1> QED BY <1>3, <1>4, <1>6, <1>7 DEF Pending, made, gs, f
-----------------------------------------------------------------------------
(* Import                                                                  *)

\* Finite sets of indices have a last key.
LEMMA LastKeys ==
  ASSUME NEW A, IsFiniteSet(A), A \subseteq Int
  PROVE  \A s \in SUBSET A : s # {} => LastKey(s) \in s
<1> DEFINE Has(s) == \E j \in s : \A i \in s : i = j \/ KeyOrder(i, j)
           S == {m \in Nat : \A s \in SUBSET A : Cardinality(s) = m => s = {} \/ Has(s)}
<1>1. \A s \in SUBSET A : IsFiniteSet(s) /\ Cardinality(s) \in Nat
  BY FS_Subset, FS_CardinalityType
<1>2. 0 \in S
  BY <1>1, FS_EmptySet
<1>3. ASSUME NEW m \in Nat, m \in S PROVE m + 1 \in S
  <2>1. SUFFICES ASSUME NEW s \in SUBSET A, Cardinality(s) = m + 1 PROVE s = {} \/ Has(s)
    OBVIOUS
  <2>2. CASE s = {}
    BY <2>2
  <2>3. CASE s # {}
    <3>1. PICK x \in s : TRUE
      BY <2>3
    <3> DEFINE r == s \ {x}
    <3>2. Cardinality(r) = Cardinality(s) - 1 /\ r \in SUBSET A
      BY <1>1, <3>1, FS_RemoveElement
    <3>3. Cardinality(r) = m
      BY <2>1, <3>2
    <3>4. r = {} \/ Has(r)
      BY <1>3, <3>2, <3>3
    <3>5. CASE r = {}
      <4>1. s = {x}
        BY <3>1, <3>5
      <4> QED BY <4>1
    <3>6. CASE Has(r)
      <4>1. PICK j \in r : \A i \in r : i = j \/ KeyOrder(i, j)
        BY <3>6
      <4>2. x \in Int /\ j \in Int /\ j \in s /\ \A i \in s : i \in Int /\ (i = x \/ i \in r)
        BY <3>1, <4>1
      <4> HIDE DEF r
      <4>3. CASE x = j \/ KeyOrder(x, j)
        BY <4>1, <4>2, <4>3
      <4>4. CASE ~(x = j \/ KeyOrder(x, j))
        <5>1. \A i \in Int : i = j \/ KeyOrder(i, j) => KeyOrder(i, x)
          BY <4>2, <4>4 DEF KeyOrder
        <5> QED BY <3>1, <4>1, <4>2, <5>1
      <4> QED BY <4>3, <4>4
    <3> QED BY <3>4, <3>5, <3>6
  <2> QED BY <2>2, <2>3
<1>4. ASSUME NEW s \in SUBSET A, s # {} PROVE Has(s)
  <2>1. Nat \subseteq S
    <3> HIDE DEF S
    <3> QED BY <1>2, <1>3, SetInduction
  <2>2. Cardinality(s) \in S
    BY <1>1, <2>1
  <2> HIDE DEF Has
  <2> QED BY <1>4, <2>2
<1>5. ASSUME NEW s \in SUBSET A, s # {} PROVE LastKey(s) \in s
  BY <1>4, <1>5 DEF LastKey
<1> QED BY <1>5

\* What SetSteps says, at each set.
LEMMA ApplySetSteps ==
  ASSUME NEW f, NEW k, NEW p, NEW base, NEW A, NEW pick, SetSteps(f, k, p, base, A, pick)
  PROVE  /\ f[{}] = base
         /\ \A s \in SUBSET A : s # {} => f[s] = Each(k, p, f[s \ {pick[s]}], pick[s])
  BY DEF SetSteps
\* Disposing of all layers leaves a tree of the same layers.
LEMMA disposeAllKeeps ==
  ASSUME NEW w, World(w)
  PROVE  World(disposeAll(w)) /\ DOMAIN disposeAll(w).objs = DOMAIN w.objs
<1> DEFINE A    == {i \in DOMAIN w.layers : i > 0}
           base == w.objs
           objs == FoldSet(LAMBDA i, s : Dispose(s, w.layers[i]), w.objs, A)
<1>1. IsFiniteSet(A)
  BY FS_Subset DEF World
<1> DEFINE Step(v, s) == Dispose(v, w.layers[CHOOSE x \in s : TRUE])
           Rec(f) == f = [s \in SUBSET A |-> IF s = {} THEN base ELSE Step(f[s \ {CHOOSE x \in s : TRUE}], s)]
           F == CHOOSE f : Rec(f)
           pick == [s \in SUBSET A |-> CHOOSE x \in s : TRUE]
<1>2. F[A] = objs
  BY DEF FoldSet, MapThenFoldSet
<1>3. \A s \in SUBSET A : s # {} => pick[s] \in s
  BY <1>1
<1>4. PICK f : SetSteps(f, "dispose", w.layers, base, A, pick)
  <2> HIDE DEF pick
  <2> QED BY <1>1, <1>3, SetRecursion
<1>5. \A v : \A s \in SUBSET A : Each("dispose", w.layers, v, pick[s]) = Step(v, s)
  BY DEF Each
<1>6. Rec(f)
  <2> DEFINE h == [s \in SUBSET A |-> IF s = {} THEN base ELSE Step(f[s \ {CHOOSE x \in s : TRUE}], s)]
  <2> HIDE DEF Step
  <2>1. \A s \in SUBSET A : f[s] = h[s]
    BY <1>4, <1>5 DEF SetSteps
  <2>2. /\ DOMAIN f = SUBSET A /\ DOMAIN h = SUBSET A
        /\ f = [s \in DOMAIN f |-> f[s]] /\ h = [s \in DOMAIN h |-> h[s]]
    BY <1>4 DEF SetSteps
  <2>3. f = h
    <3> HIDE DEF h
    <3> QED BY <2>1, <2>2
  <2> QED BY <2>3
<1>7. Rec(F)
  <2> HIDE DEF Rec
  <2> QED BY <1>6
<1> HIDE DEF F
<1>8. F[{}] = base /\ \A s \in SUBSET A : s # {} => F[s] = Step(F[s \ {pick[s]}], s)
  <2> HIDE DEF Step
  <2> QED BY <1>7
<1>9. /\ Tree(w.objs) /\ \E n \in Nat : DOMAIN w.objs = 0..n
      /\ \A i \in A : w.layers[i] \in DOMAIN w.objs
      /\ w = [objs |-> w.objs, layers |-> w.layers, cursor |-> w.cursor]
  BY DEF World
<1> DEFINE G == {s \in SUBSET A : Tree(F[s]) /\ DOMAIN F[s] = DOMAIN w.objs}
<1> HIDE DEF objs
<1>10. {} \in G
  BY <1>8, <1>9
<1>11. ASSUME NEW s \in SUBSET A, s # {}, s \ {pick[s]} \in G PROVE s \in G
  <2> DEFINE v == F[s \ {pick[s]}]
             o == w.layers[CHOOSE x \in s : TRUE]
  <2>1. Tree(v) /\ DOMAIN v = DOMAIN w.objs
    BY <1>11
  <2>2. F[s] = Dispose(v, o)
    BY <1>8, <1>11
  <2>3. o \in DOMAIN w.objs
    BY <1>9, <1>11
  <2> HIDE DEF v, o
  <2>4. Tree(Dispose(v, o)) /\ DOMAIN Dispose(v, o) = DOMAIN v
    BY <2>1, <2>3, DisposeKeepsTree
  <2> QED BY <2>1, <2>2, <2>4
<1>12. A \in G
  <2> HIDE DEF G, A, pick
  <2> QED BY <1>1, <1>3, <1>10, <1>11, SetAlong
<1>13. Tree(objs) /\ DOMAIN objs = DOMAIN w.objs
  BY <1>2, <1>12
<1>14. disposeAll(w) = [w EXCEPT !.objs = objs, !.layers = <<>>]
  BY DEF disposeAll, objs
<1>15. DOMAIN <<>> = {} /\ <<>> \in [{} -> DOMAIN w.objs] /\ IsFiniteSet({})
  BY FS_EmptySet
<1> HIDE DEF A, base, F, pick, G
<1>16. LET v == disposeAll(w)
       IN  v = [objs |-> v.objs, layers |-> v.layers, cursor |-> v.cursor] /\ v.objs = objs /\ v.layers = <<>>
  BY <1>9, <1>14
<1> QED BY <1>9, <1>13, <1>15, <1>16 DEF World

\* What an import has made and scheduled so far.
Imported(r, made, n) ==
  /\ r = [world |-> r.world, tasks |-> r.tasks, blocked |-> r.blocked]
  /\ World(r.world) /\ made \subseteq DOMAIN r.world.objs
  /\ Due(r.tasks, DOMAIN r.world.objs, n)

\* Queues of one, two and three tasks.
LEMMA DueOne ==
  ASSUME NEW made, NEW n \in Nat, NEW t, Valid(t, made), t.epoch = n
  PROVE  Due(<<t>>, made, n)
<1>1. <<t>> \in Seq({t})
  OBVIOUS
<1>2. Listed(<<t>>) /\ Range(<<t>>) \subseteq {t}
  BY <1>1, ListedOf
<1> QED BY <1>2 DEF Due

\* See DueOne.
LEMMA DueTwo ==
  ASSUME NEW made, NEW n \in Nat, NEW t, Valid(t, made), t.epoch = n,
         NEW u, Valid(u, made), u.epoch = n
  PROVE  Due(<<t, u>>, made, n)
<1>1. <<t, u>> \in Seq({t, u})
  OBVIOUS
<1>2. Listed(<<t, u>>) /\ Range(<<t, u>>) \subseteq {t, u}
  BY <1>1, ListedOf
<1> QED BY <1>2 DEF Due

\* See DueOne.
LEMMA DueThree ==
  ASSUME NEW made, NEW n \in Nat, NEW t, Valid(t, made), t.epoch = n,
         NEW u, Valid(u, made), u.epoch = n, NEW v, Valid(v, made), v.epoch = n
  PROVE  Due(<<t, u, v>>, made, n)
<1>1. <<t, u, v>> \in Seq({t, u, v})
  OBVIOUS
<1>2. Listed(<<t, u, v>>) /\ Range(<<t, u, v>>) \subseteq {t, u, v}
  BY <1>1, ListedOf
<1> QED BY <1>2 DEF Due

Kinds == Drawing \cup {"move", "dispose", "cursor"}

\* A task that is scheduled is due from now on.
LEMMA Scheduled ==
  ASSUME NEW made, NEW do \in Kinds, NEW on \in made, NEW src \in made, NEW arg, NEW image
  PROVE  /\ Valid(scheduleTask(do, on, src, arg, image), made)
         /\ scheduleTask(do, on, src, arg, image).epoch = syncs
  BY DEF Valid, Kinds, scheduleTask

\* One exported layer is imported.
LEMMA importLayerKeeps ==
  ASSUME syncs \in Nat, NEW made, NEW r, Imported(r, made, syncs),
         NEW i \in Int, NEW layer, layer.parent \in Int
  PROVE  Imported(importLayer(r, i, layer), made, syncs)
<1> DEFINE own    == getLayer(r.world, i)
           placed == i > 0 /\ layer.parent # None
           w      == IF placed THEN getLayer(own, layer.parent) ELSE own
           o      == w.layers[i]
           more   == DOMAIN w.objs
           id     == 1 + Cardinality(DOMAIN r.blocked)
           Do(do, arg) == scheduleTask(do, o, o, arg, 0)
           resize == <<Do("resize", layer.sized)>>
           draw   == IF ~layer.sized THEN <<>>
                     ELSE <<Do("mask", "SRC"),
                            scheduleTask("image", o, o, [ok |-> TRUE, pix |-> layer.pix], id)>>
           place  == IF ~placed THEN <<>>
                     ELSE <<scheduleTask("move", o, w.layers[layer.parent], layer.z, 0),
                            Do("shade", layer.alpha), Do("distort", layer.matrix)>>
           q      == importLayer(r, i, layer)
<1>1. /\ q = [world |-> q.world, tasks |-> q.tasks, blocked |-> q.blocked]
      /\ q.world = w /\ q.tasks = r.tasks \o resize \o draw \o place
  BY DEF importLayer
<1>2. /\ Grown(r.world, w) /\ i \in DOMAIN w.layers
      /\ placed => layer.parent \in DOMAIN w.layers
  <2>1. Grown(r.world, own) /\ i \in DOMAIN own.layers
    BY getLayerGrows DEF Imported
  <2>2. CASE placed
    <3>1. w = getLayer(own, layer.parent)
      BY <2>2
    <3>2. World(own)
      BY <2>1 DEF Grown
    <3> HIDE DEF own, w, placed
    <3>3. Grown(own, w) /\ layer.parent \in DOMAIN w.layers
      BY <3>1, <3>2, getLayerGrows
    <3> QED BY <2>1, <3>3, GrownTwice DEF Grown
  <2>3. CASE ~placed
    BY <2>1, <2>3
  <2> QED BY <2>2, <2>3
<1>3. /\ World(w) /\ made \subseteq more /\ o \in more
      /\ placed => w.layers[layer.parent] \in more
  BY <1>2 DEF Grown, World, Imported
<1> HIDE DEF w, o, more, id, q, placed
<1>4. /\ Valid(Do("resize", layer.sized), more) /\ Do("resize", layer.sized).epoch = syncs
      /\ Valid(Do("mask", "SRC"), more) /\ Do("mask", "SRC").epoch = syncs
      /\ Valid(Do("shade", layer.alpha), more) /\ Do("shade", layer.alpha).epoch = syncs
      /\ Valid(Do("distort", layer.matrix), more) /\ Do("distort", layer.matrix).epoch = syncs
  BY <1>3, Scheduled DEF Kinds, Drawing
<1>5. Due(resize, more, syncs)
  BY <1>4, DueOne
<1>6. Due(draw, more, syncs)
  <2> DEFINE t == scheduleTask("image", o, o, [ok |-> TRUE, pix |-> layer.pix], id)
  <2>1. Valid(t, more) /\ t.epoch = syncs
    BY <1>3, Scheduled DEF Kinds, Drawing
  <2> HIDE DEF t
  <2>2. CASE ~layer.sized
    BY <2>2, DueNone
  <2>3. CASE ~~layer.sized
    <3>1. Due(<<Do("mask", "SRC"), t>>, more, syncs)
      <4> HIDE DEF Do
      <4> QED BY <1>4, <2>1, DueTwo
    <3> QED BY <2>3, <3>1 DEF t
  <2> QED BY <2>2, <2>3
<1>7. Due(place, more, syncs)
  <2> DEFINE t == scheduleTask("move", o, w.layers[layer.parent], layer.z, 0)
  <2>1. CASE ~placed
    BY <2>1, DueNone
  <2>2. CASE placed
    <3>1. Valid(t, more) /\ t.epoch = syncs
      BY <1>3, <2>2, Scheduled DEF Kinds
    <3> HIDE DEF t
    <3>2. Due(<<t, Do("shade", layer.alpha), Do("distort", layer.matrix)>>, more, syncs)
      <4> HIDE DEF Do
      <4> QED BY <1>4, <3>1, DueThree
    <3> QED BY <2>2, <3>2 DEF t
  <2> QED BY <2>1, <2>2
<1>8. Due(r.tasks, more, syncs)
  <2>1. DOMAIN r.world.objs \subseteq more
    BY <1>2 DEF Grown, more
  <2>2. Due(r.tasks, DOMAIN r.world.objs, syncs)
    BY DEF Imported
  <2> QED BY <2>1, <2>2, DueLater
<1> HIDE DEF resize, draw, place
<1>9. Due(r.tasks \o resize \o draw \o place, more, syncs)
  <2>1. Due(r.tasks \o resize, more, syncs)
    BY <1>5, <1>8, DueJoined
  <2>2. Due((r.tasks \o resize) \o draw, more, syncs)
    BY <1>6, <2>1, DueJoined
  <2> QED BY <1>7, <2>2, DueJoined
<1>10. Imported(q, made, syncs)
  BY <1>1, <1>3, <1>9 DEF Imported, more
<1> QED BY <1>10 DEF q

\* Import as a whole: one layer after the other.
Importing(layers, w) ==
  MapThenFoldSet(LAMBDA i, acc : importLayer(acc, i, layers[i]),
                 [world |-> disposeAll(w), tasks |-> <<>>, blocked |-> <<>>],
                 LAMBDA i : i, LastKey, DOMAIN layers)

\* All of them are, in the order of LastKey.
LEMMA ImportingKeeps ==
  ASSUME syncs \in Nat, NEW w, World(w), NEW layers,
         IsFiniteSet(DOMAIN layers), DOMAIN layers \subseteq Int,
         \A i \in DOMAIN layers : layers[i].parent \in Int
  PROVE  Imported(Importing(layers, w), DOMAIN w.objs, syncs)
<1> DEFINE A    == DOMAIN layers
           base == [world |-> disposeAll(w), tasks |-> <<>>, blocked |-> <<>>]
           all  == Importing(layers, w)
<1>1. IsFiniteSet(A) /\ \A s \in SUBSET A : s # {} => LastKey(s) \in s
  BY LastKeys
<1> DEFINE Step(v, s) == importLayer(v, LastKey(s), layers[LastKey(s)])
           Rec(f) == f = [s \in SUBSET A |-> IF s = {} THEN base ELSE Step(f[s \ {LastKey(s)}], s)]
           F == CHOOSE f : Rec(f)
           pick == [s \in SUBSET A |-> LastKey(s)]
<1>2. F[A] = all
  BY DEF Importing, MapThenFoldSet
<1>3. \A s \in SUBSET A : s # {} => pick[s] \in s
  BY <1>1
<1>4. PICK f : SetSteps(f, "import", layers, base, A, pick)
  <2> HIDE DEF pick
  <2> QED BY <1>1, <1>3, SetRecursion
<1>5. \A v : \A s \in SUBSET A : Each("import", layers, v, pick[s]) = Step(v, s)
  BY DEF Each
<1>6. Rec(f)
  <2> DEFINE h == [s \in SUBSET A |-> IF s = {} THEN base ELSE Step(f[s \ {LastKey(s)}], s)]
  <2> HIDE DEF Step
  <2>1. \A s \in SUBSET A : f[s] = h[s]
    BY <1>4, <1>5 DEF SetSteps
  <2>2. /\ DOMAIN f = SUBSET A /\ DOMAIN h = SUBSET A
        /\ f = [s \in DOMAIN f |-> f[s]] /\ h = [s \in DOMAIN h |-> h[s]]
    BY <1>4 DEF SetSteps
  <2>3. f = h
    <3> HIDE DEF h
    <3> QED BY <2>1, <2>2
  <2> QED BY <2>3
<1>7. Rec(F)
  <2> HIDE DEF Rec
  <2> QED BY <1>6
<1> HIDE DEF F
<1>8. F[{}] = base /\ \A s \in SUBSET A : s # {} => F[s] = Step(F[s \ {pick[s]}], s)
  <2> HIDE DEF Step
  <2> QED BY <1>7
<1> DEFINE made == DOMAIN w.objs
           G == {s \in SUBSET A : Imported(F[s], made, syncs)}
<1>9. {} \in G
  <2>1. World(disposeAll(w)) /\ DOMAIN disposeAll(w).objs = made
    BY disposeAllKeeps
  <2>2. Due(<<>>, made, syncs)
    BY DueNone
  <2>3. Imported(base, made, syncs)
    BY <2>1, <2>2 DEF Imported
  <2> QED BY <1>8, <2>3
<1>10. ASSUME NEW s \in SUBSET A, s # {}, s \ {pick[s]} \in G PROVE s \in G
  <2> DEFINE v == F[s \ {pick[s]}]
             i == LastKey(s)
  <2>1. Imported(v, made, syncs)
    BY <1>10
  <2>2. F[s] = importLayer(v, i, layers[i])
    BY <1>8, <1>10
  <2>3. i \in A /\ i \in Int /\ layers[i].parent \in Int
    BY <1>1, <1>10
  <2> HIDE DEF v, i, made
  <2>4. Imported(importLayer(v, i, layers[i]), made, syncs)
    BY <2>1, <2>3, importLayerKeeps
  <2> QED BY <2>2, <2>4
<1>11. A \in G
  <2>1. IsFiniteSet(A)
    BY <1>1
  <2> HIDE DEF G, A, pick
  <2> QED BY <2>1, <1>3, <1>9, <1>10, SetAlong
<1> QED BY <1>2, <1>11
-----------------------------------------------------------------------------
(* The invariant                                                           *)

IInv ==
  /\ syncs \in Nat
  /\ Pending(Now(world), frames, tasks, syncs)
  /\ \A s \in DOMAIN streams : streams[s].on \in DOMAIN world.objs

\* The invariant holds when the client is made.
LEMMA InvariantBegins == Init => IInv
<1> SUFFICES ASSUME Init PROVE IInv
  OBVIOUS
<1> DEFINE objs == [o \in {Default} |-> NewLayer(TRUE, TRUE)]
           layers == [i \in {0} |-> Default]
           cursor == [x |-> 0, hot |-> 0, at |-> 0, size |-> 0, mask |-> "SRC", pix |-> Clear]
           s == Now(world)
<1>1. /\ world = [objs |-> objs, layers |-> layers, cursor |-> cursor]
      /\ tasks = <<>> /\ frames = <<>> /\ streams = <<>> /\ syncs = 0 /\ acked = 0 /\ saved = <<>>
  BY DEF Init
<1>2. Tree(objs) /\ DOMAIN objs = 0..0
  <2>1. /\ DOMAIN objs = {0} /\ objs = [o \in DOMAIN objs |-> objs[o]]
        /\ None \notin DOMAIN objs /\ 0..0 = {0}
    BY DEF Default, None
  <2>2. objs[0] = NewLayer(TRUE, TRUE)
    BY DEF Default
  <2> DEFINE new == NewLayer(TRUE, TRUE)
  <2>5. Linked(new) /\ new.parent = None /\ new.children = {}
    BY DEF NewLayer, Linked
  <2>6. objs[0] = new
    BY <2>2
  <2> HIDE DEF objs, new
  <2>3. Linked(objs[0]) /\ objs[0].parent = None /\ objs[0].children = {}
    BY <2>5, <2>6
  <2>4. /\ \A o \in DOMAIN objs : /\ Linked(objs[o])
                                  /\ objs[o].parent \in DOMAIN objs \cup {None}
                                  /\ objs[o].children \subseteq DOMAIN objs
        /\ \A a, b \in DOMAIN objs : a \in objs[b].children <=> objs[a].parent = b
    BY <2>1, <2>3 DEF None
  <2> QED BY <2>1, <2>4, TreeOf
<1>3. /\ DOMAIN layers = {0} /\ IsFiniteSet({0}) /\ {0} \subseteq Int /\ layers \in [{0} -> 0..0]
  BY FS_Singleton DEF Default
<1> HIDE DEF objs, layers, cursor
<1>4. World(world)
  <2>1. world.objs = objs /\ world.layers = layers /\ world.cursor = cursor
    BY <1>1
  <2>2. \E n \in Nat : DOMAIN objs = 0..n
    BY <1>2
  <2> QED BY <1>1, <1>2, <1>3, <2>1, <2>2 DEF World
<1>5. s.world = world /\ s.acked = 0 /\ s.saved = <<>> /\ Shape(s)
  BY <1>1 DEF Now, Shape
<1> HIDE DEF s
<1>6. Shows(s, 0)
  BY <1>4, <1>5 DEF Shows, SavedOK
<1>7. Due(<<>>, DOMAIN world.objs, 0) /\ Listed(<<>>) /\ Len(<<>>) = 0
  BY DueNone DEF Due
<1>8. Pending(s, <<>>, <<>>, 0)
  BY <1>5, <1>6, <1>7 DEF Pending
<1>9. DOMAIN streams = {}
  BY <1>1
<1> QED BY <1>1, <1>8, <1>9 DEF IInv, s

-----------------------------------------------------------------------------
(* Scheduling                                                              *)

\* Handlers that schedule tasks on layers that they find or make.
LEMMA Appending ==
  ASSUME IInv, NEW w, World(w), DOMAIN world.objs \subseteq DOMAIN w.objs,
         NEW new, Due(new, DOMAIN w.objs, syncs),
         world' = w, tasks' = tasks \o new, Still,
         \A s \in DOMAIN streams' : streams'[s].on \in DOMAIN w.objs
  PROVE  IInv'
<1>1. frames' = frames /\ currentTimestamp' = currentTimestamp /\ acked' = acked
      /\ syncs' = syncs /\ saved' = saved
  BY DEF Still
<1>2. Now(world)' = [Now(world) EXCEPT !.world = w] /\ Now(world).world = world
  BY <1>1 DEF Now
<1>3. Pending([Now(world) EXCEPT !.world = w], frames, tasks \o new, syncs)
  BY <1>2, PendingGrows DEF IInv
<1>4. Pending(Now(world)', frames', tasks', syncs')
  BY <1>1, <1>2, <1>3
<1>5. syncs' \in Nat
  BY <1>1 DEF IInv
<1> QED BY <1>4, <1>5 DEF IInv

\* What most handlers need of the invariant.
LEMMA WorldNow ==
  ASSUME IInv PROVE World(world) /\ syncs \in Nat
  BY DEF IInv, Pending, Shows, Now

\* The same with the streams as they are.
LEMMA Scheduling ==
  ASSUME IInv, NEW w, World(w), DOMAIN world.objs \subseteq DOMAIN w.objs,
         NEW new, Due(new, DOMAIN w.objs, syncs), Schedule(w, new)
  PROVE  IInv'
<1>1. /\ world' = w /\ tasks' = tasks \o new /\ Still /\ streams' = streams
  BY DEF Schedule
<1>2. \A s \in DOMAIN streams' : streams'[s].on \in DOMAIN w.objs
  BY <1>1 DEF IInv
<1> QED BY <1>1, <1>2, Appending

\* Handlers about one layer.
LEMMA OnLayerKeeps ==
  ASSUME IInv, NEW i \in Int, NEW do \in Kinds, NEW arg, OnLayer(i, do, arg)
  PROVE  IInv'
<1> DEFINE w == getLayer(world, i)
           t == scheduleTask(do, w.layers[i], w.layers[i], arg, 0)
<1>1. World(world) /\ syncs \in Nat
  BY WorldNow
<1>2. Grown(world, w) /\ i \in DOMAIN w.layers
  BY <1>1, getLayerGrows
<1>3. Schedule(w, <<t>>)
  BY DEF OnLayer
<1> HIDE DEF w
<1>4. World(w) /\ DOMAIN world.objs \subseteq DOMAIN w.objs /\ w.layers[i] \in DOMAIN w.objs
  BY <1>2 DEF Grown, World
<1>5. Valid(t, DOMAIN w.objs) /\ t.epoch = syncs
  BY <1>4, Scheduled
<1> HIDE DEF t
<1>6. Due(<<t>>, DOMAIN w.objs, syncs)
  BY <1>1, <1>5, DueOne
<1> QED BY <1>3, <1>4, <1>6, Scheduling

\* The world when two layers were looked up.
LEMMA TwoLayers ==
  ASSUME NEW v, World(v), NEW i \in Int, NEW j \in Int
  PROVE  LET w == getLayer(getLayer(v, i), j)
         IN  /\ World(w) /\ DOMAIN v.objs \subseteq DOMAIN w.objs
             /\ w.layers[i] \in DOMAIN w.objs /\ w.layers[j] \in DOMAIN w.objs
<1> DEFINE u == getLayer(v, i)
           w == getLayer(u, j)
<1>1. Grown(v, u) /\ i \in DOMAIN u.layers
  BY getLayerGrows
<1> HIDE DEF u
<1>2. Grown(u, w) /\ j \in DOMAIN w.layers
  BY <1>1, getLayerGrows DEF Grown
<1> HIDE DEF w
<1>3. /\ World(w) /\ DOMAIN v.objs \subseteq DOMAIN w.objs
      /\ w.layers[i] \in DOMAIN w.objs /\ w.layers[j] \in DOMAIN w.objs
  BY <1>1, <1>2 DEF Grown, World
<1> QED BY <1>3 DEF u, w

\* Handlers about two layers.
LEMMA FromLayerKeeps ==
  ASSUME IInv, NEW i \in Int, NEW src \in Int, NEW do \in Kinds, NEW arg, FromLayer(i, src, do, arg)
  PROVE  IInv'
<1> DEFINE w == getLayer(getLayer(world, src), i)
           t == scheduleTask(do, w.layers[i], w.layers[src], arg, 0)
<1>1. World(world) /\ syncs \in Nat
  BY WorldNow
<1>2. Schedule(w, <<t>>)
  BY DEF FromLayer
<1>3. /\ World(w) /\ DOMAIN world.objs \subseteq DOMAIN w.objs
      /\ w.layers[i] \in DOMAIN w.objs /\ w.layers[src] \in DOMAIN w.objs
  BY <1>1, TwoLayers
<1> HIDE DEF w
<1>4. Valid(t, DOMAIN w.objs) /\ t.epoch = syncs
  BY <1>3, Scheduled
<1> HIDE DEF t
<1>5. Due(<<t>>, DOMAIN w.objs, syncs)
  BY <1>1, <1>4, DueOne
<1> QED BY <1>2, <1>3, <1>5, Scheduling

\* Handlers that schedule a channel mask first.
LEMMA MaskedKeeps ==
  ASSUME IInv, NEW i \in Int, NEW src \in Int, NEW do \in Kinds, NEW mask, NEW arg,
         Masked(i, src, mask, do, arg)
  PROVE  IInv'
<1> DEFINE w == getLayer(getLayer(world, src), i)
           t == scheduleTask("mask", w.layers[i], w.layers[i], mask, 0)
           u == scheduleTask(do, w.layers[i], w.layers[src], arg, 0)
<1>1. World(world) /\ syncs \in Nat
  BY WorldNow
<1>2. Schedule(w, <<t, u>>)
  BY DEF Masked
<1>3. /\ World(w) /\ DOMAIN world.objs \subseteq DOMAIN w.objs
      /\ w.layers[i] \in DOMAIN w.objs /\ w.layers[src] \in DOMAIN w.objs
  BY <1>1, TwoLayers
<1> HIDE DEF w
<1>4. "mask" \in Kinds
  BY DEF Kinds, Drawing
<1>5. Valid(t, DOMAIN w.objs) /\ t.epoch = syncs
  BY <1>3, <1>4, Scheduled
<1>6. Valid(u, DOMAIN w.objs) /\ u.epoch = syncs
  BY <1>3, Scheduled
<1> HIDE DEF t, u
<1>7. Due(<<t, u>>, DOMAIN w.objs, syncs)
  BY <1>1, <1>5, <1>6, DueTwo
<1> QED BY <1>2, <1>3, <1>7, Scheduling
-----------------------------------------------------------------------------
(* Images                                                                  *)

\* A mask and an image that is waited for.
LEMMA DrawBlockedKeeps ==
  ASSUME IInv, NEW i \in Int, NEW mask, NEW image, NEW how, DrawBlocked(i, mask, image, how),
         streams' = streams
  PROVE  IInv'
<1> DEFINE w == getLayer(world, i)
           o == w.layers[i]
           t == scheduleTask("mask", o, o, mask, 0)
           u == scheduleTask("image", o, o, image, NewImage)
<1>1. World(world) /\ syncs \in Nat
  BY WorldNow
<1>2. Grown(world, w) /\ i \in DOMAIN w.layers
  BY <1>1, getLayerGrows
<1>3. world' = w /\ tasks' = tasks \o <<t, u>> /\ Still
  BY DEF DrawBlocked
<1> HIDE DEF w
<1>4. World(w) /\ DOMAIN world.objs \subseteq DOMAIN w.objs /\ o \in DOMAIN w.objs
  BY <1>2 DEF Grown, World
<1>5. "mask" \in Kinds /\ "image" \in Kinds
  BY DEF Kinds, Drawing
<1> HIDE DEF o
<1>6. Valid(t, DOMAIN w.objs) /\ t.epoch = syncs
  BY <1>4, <1>5, Scheduled
<1>7. Valid(u, DOMAIN w.objs) /\ u.epoch = syncs
  BY <1>4, <1>5, Scheduled
<1> HIDE DEF t, u
<1>8. Due(<<t, u>>, DOMAIN w.objs, syncs)
  BY <1>1, <1>6, <1>7, DueTwo
<1>9. \A s \in DOMAIN streams' : streams'[s].on \in DOMAIN w.objs
  BY <1>4 DEF IInv
<1> QED BY <1>3, <1>4, <1>8, <1>9, Appending

\* One task at the end.
LEMMA Appended ==
  ASSUME IInv, NEW t PROVE Append(tasks, t) = tasks \o <<t>>
<1>1. tasks \in Seq(Range(tasks))
  BY DEF IInv, Pending, Due, Listed
<1> DEFINE S == Range(tasks) \cup {t}
<1>2. \A A, B : A \subseteq B => Seq(A) \subseteq Seq(B)
  OBVIOUS
<1>3. tasks \in Seq(S) /\ t \in S
  BY <1>1, <1>2
<1> HIDE DEF S
<1> QED BY <1>3, AppendIsConcat

\* No task at the end.
LEMMA NothingAdded == ASSUME IInv PROVE tasks \o <<>> = tasks
<1>1. tasks \in Seq(Range(tasks))
  BY DEF IInv, Pending, Due, Listed
<1> QED BY <1>1, ConcatEmptySeq

\* A stream that is opened draws on a layer that is made.
LEMMA HandleImgKeeps ==
  ASSUME IInv, NEW s, NEW i \in Int, NEW mask, NEW image, HandleImg(s, i, mask, image)
  PROVE  IInv'
<1> DEFINE w == getLayer(world, i)
           o == w.layers[i]
           t == scheduleTask("mask", o, o, mask, 0)
           u == scheduleTask("image", o, o, image, NewImage)
<1>1. World(world) /\ syncs \in Nat
  BY WorldNow
<1>2. Grown(world, w) /\ i \in DOMAIN w.layers
  BY <1>1, getLayerGrows
<1>3. \/ /\ world' = w /\ tasks' = tasks \o <<t, u>> /\ Still
         /\ streams' = With(streams, s, Stream(o, image, NewImage))
      \/ /\ world' = w /\ tasks' = Append(tasks, t) /\ Still
         /\ streams' = With(streams, s, Stream(o, image, 0))
  BY DEF HandleImg, DrawBlocked
<1> HIDE DEF w
<1>4. World(w) /\ DOMAIN world.objs \subseteq DOMAIN w.objs /\ o \in DOMAIN w.objs
  BY <1>2 DEF Grown, World
<1>5. "mask" \in Kinds /\ "image" \in Kinds
  BY DEF Kinds, Drawing
<1> HIDE DEF o
<1>6. Valid(t, DOMAIN w.objs) /\ t.epoch = syncs
  BY <1>4, <1>5, Scheduled
<1>7. Valid(u, DOMAIN w.objs) /\ u.epoch = syncs
  BY <1>4, <1>5, Scheduled
<1> HIDE DEF t, u
<1>8. Due(<<t, u>>, DOMAIN w.objs, syncs) /\ Due(<<t>>, DOMAIN w.objs, syncs)
  BY <1>1, <1>6, <1>7, DueOne, DueTwo
<1>9. ASSUME NEW id, streams' = With(streams, s, Stream(o, image, id))
      PROVE  \A r \in DOMAIN streams' : streams'[r].on \in DOMAIN w.objs
  <2>1. Stream(o, image, id).on = o
    BY DEF Stream
  <2> DEFINE new == Stream(o, image, id)
  <2> HIDE DEF new
  <2>2. \A r \in DOMAIN streams' : r \in DOMAIN streams \cup {s}
                                   /\ streams'[r] = IF r = s THEN new ELSE streams[r]
    BY <1>9 DEF With, new
  <2>3. \A r \in DOMAIN streams : streams[r].on \in DOMAIN w.objs
    BY <1>4 DEF IInv
  <2> QED BY <1>4, <2>1, <2>2, <2>3 DEF new
<1>10. \A r \in DOMAIN streams' : streams'[r].on \in DOMAIN w.objs
  BY <1>3, <1>9
<1>11. world' = w /\ Still /\ (tasks' = tasks \o <<t, u>> \/ tasks' = tasks \o <<t>>)
  BY <1>3, Appended
<1> QED BY <1>4, <1>8, <1>10, <1>11, Appending

\* The layer of a stream that ends is still made, if disposed of perhaps.
LEMMA HandleEndKeeps ==
  ASSUME IInv, NEW s \in DOMAIN streams, HandleEnd(s)
  PROVE  IInv'
<1> DEFINE st == streams[s]
           t  == scheduleTask("image", st.on, st.on, st.image, NewImage)
<1>1. World(world) /\ syncs \in Nat
  BY WorldNow
<1>2. /\ world' = world /\ Still /\ streams' = [r \in DOMAIN streams \ {s} |-> streams[r]]
      /\ tasks' = tasks \/ tasks' = Append(tasks, t)
  BY DEF HandleEnd
<1>3. st.on \in DOMAIN world.objs /\ \A r \in DOMAIN streams' : streams'[r].on \in DOMAIN world.objs
  BY <1>2 DEF IInv
<1>4. "image" \in Kinds
  BY DEF Kinds, Drawing
<1>5. Valid(t, DOMAIN world.objs) /\ t.epoch = syncs
  BY <1>3, <1>4, Scheduled
<1> HIDE DEF t
<1>6. Due(<<t>>, DOMAIN world.objs, syncs) /\ Due(<<>>, DOMAIN world.objs, syncs)
  BY <1>1, <1>5, DueOne, DueNone
<1>7. tasks' = tasks \o <<>> \/ tasks' = tasks \o <<t>>
  BY <1>2, Appended, NothingAdded
<1> QED BY <1>1, <1>2, <1>3, <1>6, <1>7, Appending

\* An image has loaded or failed: frames that are ready are shown.
LEMMA ImageSettlesKeeps ==
  ASSUME IInv, NEW id, ImageSettles(id)
  PROVE  IInv'
<1>1. PICK b : IF frames # <<>> THEN syncFlush(Now(world), frames, b)
               ELSE blocked' = b /\ UNCHANGED <<frames, shownVars>>
  BY DEF ImageSettles, unblock
<1>2. tasks' = tasks /\ streams' = streams /\ syncs' = syncs
  BY DEF ImageSettles
<1>3. CASE frames # <<>>
  <2>1. Pending(Now(world), frames, tasks, syncs) /\ syncs \in Nat
    BY DEF IInv
  <2>2. syncFlush(Now(world), frames, b)
    BY <1>1, <1>3
  <2>3. Pending(Now(world)', frames', tasks, syncs) /\ Like(Now(world).world, world')
    BY <2>1, <2>2, syncFlushKeeps
  <2>4. Now(world).world = world
    BY DEF Now
  <2>5. \A s \in DOMAIN streams' : streams'[s].on \in DOMAIN world'.objs
    BY <1>2, <2>3, <2>4 DEF IInv, Like
  <2>6. Pending(Now(world)', frames', tasks', syncs') /\ syncs' \in Nat
    BY <1>2, <2>1, <2>3
  <2> QED BY <2>5, <2>6 DEF IInv
<1>4. CASE frames = <<>>
  <2>1. frames' = frames /\ world' = world /\ currentTimestamp' = currentTimestamp
        /\ acked' = acked /\ saved' = saved
    BY <1>1, <1>4 DEF shownVars
  <2>2. Now(world)' = Now(world)
    BY <2>1 DEF Now
  <2> QED BY <1>2, <2>1, <2>2 DEF IInv
<1> QED BY <1>3, <1>4
-----------------------------------------------------------------------------
(* Layers, the cursor and the end of a frame                               *)

\* A put, the making of layers, or a transfer.
LEMMA HandleTransferKeeps ==
  ASSUME IInv, NEW i \in Int, NEW src \in Int, NEW f, HandleTransfer(i, src, f)
  PROVE  IInv'
<1>1. "put" \in Kinds /\ "transfer" \in Kinds
  BY DEF Kinds, Drawing
<1>2. CASE f = 3
  <2>1. FromLayer(i, src, "put", 0)
    BY <1>2 DEF HandleTransfer
  <2> QED BY <1>1, <2>1, FromLayerKeeps
<1>3. CASE f = 5
  <2> DEFINE w == getLayer(getLayer(world, src), i)
  <2>1. Schedule(w, <<>>)
    BY <1>3 DEF HandleTransfer
  <2>2. World(w) /\ DOMAIN world.objs \subseteq DOMAIN w.objs
    BY WorldNow, TwoLayers
  <2> HIDE DEF w
  <2>3. Due(<<>>, DOMAIN w.objs, syncs)
    BY DueNone
  <2> QED BY <2>1, <2>2, <2>3, Scheduling
<1>4. CASE f # 3 /\ f # 5
  <2>1. FromLayer(i, src, "transfer", f)
    BY <1>4 DEF HandleTransfer
  <2> QED BY <1>1, <2>1, FromLayerKeeps
<1> QED BY <1>2, <1>3, <1>4

\* Both layers are looked up before the move is scheduled.
LEMMA HandleMoveKeeps ==
  ASSUME IInv, NEW i \in Int, NEW p \in Int, NEW z, HandleMove(i, p, z)
  PROVE  IInv'
<1> DEFINE w == getLayer(getLayer(world, i), p)
           t == scheduleTask("move", w.layers[i], w.layers[p], z, 0)
<1>1. World(world) /\ syncs \in Nat
  BY WorldNow
<1>2. Schedule(w, <<t>>)
  BY DEF HandleMove
<1>3. /\ World(w) /\ DOMAIN world.objs \subseteq DOMAIN w.objs
      /\ w.layers[i] \in DOMAIN w.objs /\ w.layers[p] \in DOMAIN w.objs
  BY <1>1, TwoLayers
<1> HIDE DEF w
<1>4. "move" \in Kinds
  BY DEF Kinds
<1>5. Valid(t, DOMAIN w.objs) /\ t.epoch = syncs
  BY <1>3, <1>4, Scheduled
<1> HIDE DEF t
<1>6. Due(<<t>>, DOMAIN w.objs, syncs)
  BY <1>1, <1>5, DueOne
<1> QED BY <1>2, <1>3, <1>6, Scheduling

\* An index that is forgotten leaves its layer made.
LEMMA Forgotten ==
  ASSUME NEW w, World(w), NEW i
  PROVE  LET gone == [w EXCEPT !.layers = [j \in DOMAIN @ \ {i} |-> @[j]]]
         IN  World(gone) /\ gone.objs = w.objs
<1> DEFINE kept == [j \in DOMAIN w.layers \ {i} |-> w.layers[j]]
           gone == [w EXCEPT !.layers = kept]
<1>1. /\ w = [objs |-> w.objs, layers |-> w.layers, cursor |-> w.cursor]
      /\ Tree(w.objs) /\ \E n \in Nat : DOMAIN w.objs = 0..n
      /\ IsFiniteSet(DOMAIN w.layers) /\ DOMAIN w.layers \subseteq Int
      /\ w.layers \in [DOMAIN w.layers -> DOMAIN w.objs]
  BY DEF World
<1>2. DOMAIN kept = DOMAIN w.layers \ {i} /\ kept \in [DOMAIN kept -> DOMAIN w.objs]
  BY <1>1
<1>3. IsFiniteSet(DOMAIN kept) /\ DOMAIN kept \subseteq Int
  BY <1>1, <1>2, FS_Subset
<1> HIDE DEF kept
<1>4. /\ gone = [objs |-> gone.objs, layers |-> gone.layers, cursor |-> gone.cursor]
      /\ gone.objs = w.objs /\ gone.layers = kept
  BY <1>1
<1> HIDE DEF gone
<1>5. World(gone)
  BY <1>1, <1>2, <1>3, <1>4 DEF World
<1> QED BY <1>4, <1>5 DEF gone, kept

\* The index goes at once, the layer with its task.
LEMMA HandleDisposeKeeps ==
  ASSUME IInv, NEW i \in Int, HandleDispose(i)
  PROVE  IInv'
<1> DEFINE w    == IF i > 0 THEN getLayer(world, i) ELSE world
           gone == [w EXCEPT !.layers = [j \in DOMAIN @ \ {i} |-> @[j]]]
           t    == scheduleTask("dispose", w.layers[i], w.layers[i], 0, 0)
<1>1. World(world) /\ syncs \in Nat
  BY WorldNow
<1>2. Schedule(gone, IF i > 0 THEN <<t>> ELSE <<>>)
  BY DEF HandleDispose
<1>3. Grown(world, w) /\ (i > 0 => i \in DOMAIN w.layers)
  <2>1. CASE i > 0
    <3>1. Grown(world, getLayer(world, i)) /\ i \in DOMAIN getLayer(world, i).layers
      BY <1>1, getLayerGrows
    <3> QED BY <2>1, <3>1
  <2>2. CASE ~(i > 0)
    <3>1. Grown(world, world)
      BY <1>1 DEF Grown
    <3> QED BY <2>2, <3>1
  <2> QED BY <2>1, <2>2
<1> HIDE DEF w
<1>4. World(w) /\ DOMAIN world.objs \subseteq DOMAIN w.objs /\ (i > 0 => w.layers[i] \in DOMAIN w.objs)
  BY <1>3 DEF Grown, World
<1>5. World(gone) /\ gone.objs = w.objs
  BY <1>4, Forgotten
<1> HIDE DEF gone
<1>6. "dispose" \in Kinds
  BY DEF Kinds
<1>7. i > 0 => Valid(t, DOMAIN w.objs) /\ t.epoch = syncs
  BY <1>4, <1>6, Scheduled
<1> HIDE DEF t
<1>8. i > 0 => Due(<<t>>, DOMAIN w.objs, syncs)
  BY <1>1, <1>7, DueOne
<1>9. Due(IF i > 0 THEN <<t>> ELSE <<>>, DOMAIN gone.objs, syncs)
  BY <1>5, <1>8, DueNone
<1> QED BY <1>2, <1>4, <1>5, <1>9, Scheduling

\* The cursor moves without a task.
LEMMA HandleMouseKeeps ==
  ASSUME IInv, NEW x, HandleMouse(x)
  PROVE  IInv'
<1> DEFINE c == moveCursor(world.cursor, x)
           w == [world EXCEPT !.cursor = c]
<1>1. World(world) /\ syncs \in Nat
  BY WorldNow
<1>2. world' = w /\ Still /\ tasks' = tasks /\ streams' = streams
  BY DEF HandleMouse
<1> HIDE DEF c
<1>3. /\ w = [objs |-> w.objs, layers |-> w.layers, cursor |-> w.cursor]
      /\ w.objs = world.objs /\ w.layers = world.layers
  BY <1>1 DEF World
<1> HIDE DEF w
<1>4. World(w)
  BY <1>1, <1>3 DEF World
<1>5. Due(<<>>, DOMAIN w.objs, syncs)
  BY DueNone
<1>6. tasks' = tasks \o <<>>
  BY <1>2, NothingAdded
<1>7. \A s \in DOMAIN streams' : streams'[s].on \in DOMAIN w.objs
  BY <1>2, <1>3 DEF IInv
<1> QED BY <1>2, <1>3, <1>4, <1>5, <1>6, <1>7, Appending

\* The cursor is a task like any other.
LEMMA HandleCursorKeeps ==
  ASSUME IInv, NEW i \in Int, NEW hot, NEW size, HandleCursor(i, hot, size)
  PROVE  IInv'
<1>1. OnLayer(i, "cursor", [hot |-> hot, size |-> size])
  BY DEF HandleCursor
<1>2. "cursor" \in Kinds
  BY DEF Kinds
<1> QED BY <1>1, <1>2, OnLayerKeeps

\* A frame is closed and what is ready is shown; m is the syncs received by then.
LEMMA flushKeeps ==
  ASSUME IInv, NEW m \in Nat, syncs <= m, syncs' = m, NEW c, CallbackOK(c, m),
         flush(c), streams' = streams
  PROVE  IInv'
<1> DEFINE gs == Append(frames, [tasks |-> tasks, callback |-> c])
<1>1. Pending(Now(world), frames, tasks, syncs) /\ syncs \in Nat
  BY DEF IInv
<1>2. Pending(Now(world), gs, <<>>, m)
  BY <1>1, PendingClosed
<1>3. tasks' = <<>> /\ syncFlush(Now(world), gs, blocked)
  BY DEF flush
<1> HIDE DEF gs
<1>4. Pending(Now(world)', frames', <<>>, m) /\ Like(Now(world).world, world')
  BY <1>2, <1>3, syncFlushKeeps
<1>5. Now(world).world = world
  BY DEF Now
<1>6. \A s \in DOMAIN streams' : streams'[s].on \in DOMAIN world'.objs
  BY <1>4, <1>5 DEF IInv, Like
<1>7. Pending(Now(world)', frames', tasks', syncs') /\ syncs' \in Nat
  BY <1>3, <1>4
<1> QED BY <1>6, <1>7 DEF IInv

\* The callback of a sync has the number of this sync.
LEMMA HandleSyncKeeps == ASSUME IInv, HandleSync PROVE IInv'
<1> DEFINE c == [kind |-> "sync", t |-> syncs + 1]
<1>1. syncs \in Nat
  BY DEF IInv
<1>2. syncs' = syncs + 1 /\ flush(c) /\ streams' = streams
  BY DEF HandleSync
<1>3. CallbackOK(c, syncs + 1)
  <2>1. c.kind = "sync" /\ c.t = syncs + 1
    OBVIOUS
  <2> HIDE DEF c
  <2> QED BY <1>1, <2>1 DEF CallbackOK
<1> HIDE DEF c
<1>4. syncs + 1 \in Nat /\ syncs <= syncs + 1
  BY <1>1
<1> QED BY <1>2, <1>3, <1>4, flushKeeps

-----------------------------------------------------------------------------
(* exportState and importState                                             *)

\* The callback of an export has the indices of now.
LEMMA exportStateKeeps == ASSUME IInv, exportState PROVE IInv'
<1> DEFINE c == [kind |-> "export", layers |-> world.layers, state |-> state, t |-> currentTimestamp]
<1>1. World(world) /\ syncs \in Nat
  BY WorldNow
<1>2. syncs' = syncs /\ flush(c) /\ streams' = streams
  BY DEF exportState
<1>3. CallbackOK(c, syncs)
  <2>1. c.kind = "export" /\ c.layers = world.layers
    OBVIOUS
  <2> HIDE DEF c
  <2> QED BY <1>1, <2>1 DEF CallbackOK, World
<1> HIDE DEF c
<1>4. syncs <= syncs
  BY <1>1
<1> QED BY <1>1, <1>2, <1>3, <1>4, flushKeeps

\* All that waits is given up; the layers are those there were, and more.
LEMMA importStateKeeps ==
  ASSUME IInv, saved # <<>>, importState(saved[1])
  PROVE  IInv'
<1> DEFINE e == saved[1]
           r == Importing(e.layers, world)
           f == [tasks |-> r.tasks, callback |-> NoCallback]
           s == [Now(r.world) EXCEPT !.currentTimestamp = e.currentTimestamp]
<1>1. /\ World(world) /\ syncs \in Nat /\ SavedOK(saved) /\ acked \in 0..syncs
  BY WorldNow DEF IInv, Pending, Shows, Now
<1>2. Imported(r, DOMAIN world.objs, syncs)
  <2>1. /\ IsFiniteSet(DOMAIN e.layers) /\ DOMAIN e.layers \subseteq Int
        /\ \A i \in DOMAIN e.layers : e.layers[i].parent \in Int
    BY <1>1 DEF SavedOK
  <2> QED BY <1>1, <2>1, ImportingKeeps
<1>3. /\ tasks' = <<>> /\ syncFlush(s, <<f>>, r.blocked)
      /\ streams' = streams /\ syncs' = syncs
  BY DEF importState, Importing
<1> HIDE DEF r, e
<1>4. /\ Shape(s) /\ s.world = r.world /\ s.acked = acked /\ s.saved = saved
  BY DEF Now, Shape
<1>5. f.tasks = r.tasks /\ f.callback = NoCallback
  OBVIOUS
<1> HIDE DEF s, f
<1>6. World(r.world) /\ DOMAIN world.objs \subseteq DOMAIN r.world.objs
      /\ Due(r.tasks, DOMAIN r.world.objs, syncs)
  BY <1>2 DEF Imported
<1>7. Shows(s, syncs)
  BY <1>1, <1>4, <1>6 DEF Shows
<1>8. Due(r.tasks, DOMAIN s.world.objs, s.acked)
  BY <1>1, <1>4, <1>6, DueSooner
<1>9. CallbackOK(f.callback, syncs) /\ f.callback.kind # "sync"
  BY <1>5 DEF CallbackOK, NoCallback
<1>10. Listed(<<f>>) /\ Len(<<f>>) = 1 /\ \A k \in 1..1 : <<f>>[k] = f
  <2>1. <<f>> \in Seq({f})
    OBVIOUS
  <2>2. Len(<<f>>) = 1 /\ <<f>>[1] = f /\ \A k \in 1..1 : k = 1
    OBVIOUS
  <2>3. Listed(<<f>>)
    BY <2>1, ListedOf
  <2> QED BY <2>2, <2>3
<1>11. Due(<<>>, DOMAIN s.world.objs, s.acked)
  BY DueNone
<1> DEFINE gs == <<f>>
<1>12. Listed(gs) /\ \A k \in 1..Len(gs) : gs[k] = f
  BY <1>10
<1> HIDE DEF gs
<1>13. Pending(s, gs, <<>>, syncs)
  BY <1>5, <1>7, <1>8, <1>9, <1>11, <1>12 DEF Pending
<1>14. Pending(Now(world)', frames', <<>>, syncs) /\ Like(s.world, world')
  BY <1>1, <1>3, <1>13, syncFlushKeeps DEF gs
<1>15. \A q \in DOMAIN streams' : streams'[q].on \in DOMAIN world'.objs
  BY <1>3, <1>4, <1>6, <1>14 DEF IInv, Like
<1>16. Pending(Now(world)', frames', tasks', syncs') /\ syncs' \in Nat
  BY <1>1, <1>3, <1>14
<1> QED BY <1>15, <1>16 DEF IInv
-----------------------------------------------------------------------------
(* The steps                                                               *)

\* png and jpeg.
LEMMA ImageKeeps ==
  ASSUME IInv, NEW i \in Int, NEW m, NEW image, Image(i, m, image)
  PROVE  IInv'
<1>1. \E how : DrawBlocked(i, m, image, how) /\ streams' = streams
  BY DEF Image, HandlePng, HandleJpeg
<1> QED BY <1>1, DrawBlockedKeeps

\* One family of instructions after the other: paths.
LEMMA NextPathKeeps == ASSUME IInv, NextPath PROVE IInv'
<1>1. 0 \in Int /\ -1 \in Int
  OBVIOUS
<1>2. \A k \in {"trace", "close", "clip", "push", "pop", "reset", "identity", "transform",
                "miterLimit", "colour", "pattern"} : k \in Kinds
  BY DEF Kinds, Drawing
<1>3. CASE Path(0)
  <2>1. \/ \E k \in Kinds : \E arg : OnLayer(0, k, arg)
        \/ \E m, arg : Masked(0, 0, m, "colour", arg)
    <3>1. ASSUME NEW k, k \in {"trace", "close", "clip", "push", "pop", "reset", "identity",
                               "transform", "miterLimit"}, NEW arg, OnLayer(0, k, arg)
          PROVE  \E j \in Kinds : \E a : OnLayer(0, j, a)
      BY <1>2, <3>1
    <3>2. \/ HandleStart(0) \/ HandleClose(0) \/ HandleClip(0)
          \/ HandlePush(0) \/ HandlePop(0) \/ HandleReset(0)
          \/ HandleIdentity(0) \/ HandleTransform(0) \/ HandleSet(0)
          => \E j \in Kinds : \E a : OnLayer(0, j, a)
      BY <3>1 DEF HandleStart, HandleClose, HandleClip, HandlePush, HandlePop, HandleReset,
                  HandleIdentity, HandleTransform, HandleSet
    <3>3. (\E hit \in BOOLEAN : HandleLine(0, hit) \/ HandleArc(0, hit)
                                \/ HandleCurve(0, hit) \/ HandleRect(0, hit))
          => \E j \in Kinds : \E a : OnLayer(0, j, a)
      BY <3>1 DEF HandleLine, HandleArc, HandleCurve, HandleRect
    <3>4. (\E m \in Masks : HandleCfill(0, m, Bits) \/ HandleCstroke(0, m, {}))
          => \E m, a : Masked(0, 0, m, "colour", a)
      BY DEF HandleCfill, HandleCstroke
    <3> QED BY <1>3, <3>2, <3>3, <3>4 DEF Path
  <2>2. ASSUME NEW k \in Kinds, NEW arg, OnLayer(0, k, arg) PROVE IInv'
    BY <1>1, <2>2, OnLayerKeeps
  <2>3. ASSUME NEW m, NEW arg, Masked(0, 0, m, "colour", arg) PROVE IInv'
    BY <1>1, <1>2, <2>3, MaskedKeeps
  <2> QED BY <2>1, <2>2, <2>3
<1>4. CASE Image(-1, "OVER", Good(Bits))
  BY <1>1, <1>4, ImageKeeps
<1>5. CASE Pattern(0, -1)
  <2>1. \E m : Masked(0, -1, m, "pattern", 0)
    BY <1>5 DEF Pattern, HandleLfill
  <2>2. "pattern" \in Kinds
    BY <1>2
  <2> QED BY <1>1, <2>1, <2>2, MaskedKeeps
<1> QED BY <1>3, <1>4, <1>5 DEF NextPath

\* Raster operations.
LEMMA NextRasterKeeps == ASSUME IInv, NextRaster PROVE IInv'
<1>1. PICK i \in {0, -1} : \/ \E c \in Colours : Image(i, "OVER", Good(c))
                           \/ \E src \in {0, -1} : \E m \in Masks : HandleCopy(i, src, m)
                           \/ i = 0 /\ \E f \in 0..15 : HandleTransfer(i, -1, f)
                           \/ HandleDispose(i)
  BY DEF NextRaster
<1>2. i \in Int /\ -1 \in Int /\ \A src \in {0, -1} : src \in Int
  OBVIOUS
<1>3. CASE \E c \in Colours : Image(i, "OVER", Good(c))
  BY <1>2, <1>3, ImageKeeps
<1>4. CASE \E src \in {0, -1} : \E m \in Masks : HandleCopy(i, src, m)
  <2>1. \E src \in Int : \E m : Masked(i, src, m, "copy", 0)
    BY <1>2, <1>4 DEF HandleCopy
  <2>2. "copy" \in Kinds
    BY DEF Kinds, Drawing
  <2> QED BY <1>2, <2>1, <2>2, MaskedKeeps
<1>5. CASE i = 0 /\ \E f \in 0..15 : HandleTransfer(i, -1, f)
  BY <1>2, <1>5, HandleTransferKeeps
<1>6. CASE HandleDispose(i)
  BY <1>2, <1>6, HandleDisposeKeeps
<1> QED BY <1>1, <1>3, <1>4, <1>5, <1>6

\* The tree of layers.
LEMMA NextTreeKeeps == ASSUME IInv, NextTree PROVE IInv'
<1>1. CASE HandleSync
  BY <1>1, HandleSyncKeeps
<1>2. ASSUME NEW i \in {1, 2}, HandleSize(i, FALSE) \/ HandleShade(i, 0) \/ HandleDistort(i, 1)
      PROVE  IInv'
  <2>1. i \in Int
    BY <1>2
  <2>2. "resize" \in Kinds /\ "shade" \in Kinds /\ "distort" \in Kinds
    BY DEF Kinds, Drawing
  <2>3. OnLayer(i, "resize", FALSE) \/ OnLayer(i, "shade", 0) \/ OnLayer(i, "distort", 1)
    BY <1>2 DEF HandleSize, HandleShade, HandleDistort
  <2> QED BY <2>1, <2>2, <2>3, OnLayerKeeps
<1>3. ASSUME NEW i \in {1, 2}, HandleDispose(i) PROVE IInv'
  <2>1. i \in Int
    BY <1>3
  <2> QED BY <1>3, <2>1, HandleDisposeKeeps
<1>4. ASSUME NEW i \in {1, 2}, NEW p \in {0, 1, 2}, NEW z \in 0..1, HandleMove(i, p, z) PROVE IInv'
  <2>1. i \in Int /\ p \in Int
    BY <1>4
  <2> QED BY <1>4, <2>1, HandleMoveKeeps
<1> QED BY <1>1, <1>2, <1>3, <1>4 DEF NextTree

\* The cursor.
LEMMA NextCursorKeeps == ASSUME IInv, NextCursor PROVE IInv'
<1>1. \A i \in {0, -1} : i \in Int
  OBVIOUS
<1>2. CASE \E x \in Positions : HandleMouse(x)
  BY <1>2, HandleMouseKeeps
<1>3. CASE \E i \in {0, -1}, h \in 0..1, size \in CursorSizes : HandleCursor(i, h, size)
  BY <1>1, <1>3, HandleCursorKeeps
<1>4. CASE Image(-1, "OVER", Good(Bits))
  BY <1>1, <1>4, ImageKeeps
<1>5. CASE HandleSync
  BY <1>5, HandleSyncKeeps
<1> QED BY <1>2, <1>3, <1>4, <1>5 DEF NextCursor

\* Images and frames.
LEMMA NextFramesKeeps == ASSUME IInv, NextFrames PROVE IInv'
<1>1. 0 \in Int /\ 1 \in Int
  OBVIOUS
<1>2. CASE \E image \in Images : Image(0, "OVER", image)
  BY <1>1, <1>2, ImageKeeps
<1>3. CASE \E s \in Streams \ DOMAIN streams : \E image \in Images : HandleImg(s, 0, "OVER", image)
  BY <1>1, <1>3, HandleImgKeeps
<1>4. CASE HandleCopy(1, 0, "OVER")
  <2>1. Masked(1, 0, "OVER", "copy", 0) /\ "copy" \in Kinds
    BY <1>4 DEF HandleCopy, Kinds, Drawing
  <2> QED BY <1>1, <2>1, MaskedKeeps
<1>5. CASE \E s \in DOMAIN streams : HandleEnd(s)
  BY <1>5, HandleEndKeeps
<1>6. CASE HandleSync
  BY <1>6, HandleSyncKeeps
<1> QED BY <1>2, <1>3, <1>4, <1>5, <1>6 DEF NextFrames

\* Export and import.
LEMMA NextStateKeeps == ASSUME IInv, NextState PROVE IInv'
<1>1. \A i \in {-1, 1, 2} : i \in Int
  OBVIOUS
<1>2. CASE \E i \in {-1, 1} : Image(i, "OVER", Good(Bits))
  <2>1. \A i \in {-1, 1} : i \in Int
    OBVIOUS
  <2> QED BY <1>2, <2>1, ImageKeeps
<1>3. ASSUME NEW i \in {1, 2}, NEW p \in {1, 2}, HandleMove(i, p, 1) PROVE IInv'
  <2>1. i \in Int /\ p \in Int
    BY <1>3
  <2> QED BY <1>3, <2>1, HandleMoveKeeps
<1>4. CASE HandleShade(1, 0)
  <2>1. OnLayer(1, "shade", 0) /\ "shade" \in Kinds
    BY <1>4 DEF HandleShade, Kinds, Drawing
  <2> QED BY <1>1, <2>1, OnLayerKeeps
<1>5. CASE HandleDispose(2)
  BY <1>1, <1>5, HandleDisposeKeeps
<1>6. CASE HandleSync
  BY <1>6, HandleSyncKeeps
<1>7. CASE exportState
  BY <1>7, exportStateKeeps
<1>8. CASE saved # <<>> /\ importState(saved[1])
  BY <1>8, importStateKeeps
<1> QED BY <1>2, <1>3, <1>4, <1>5, <1>6, <1>7, <1>8 DEF NextState

\* Stuttering steps.
LEMMA NothingKeeps == ASSUME IInv, UNCHANGED vars PROVE IInv'
<1>1. /\ world' = world /\ currentTimestamp' = currentTimestamp /\ acked' = acked /\ saved' = saved
      /\ tasks' = tasks /\ frames' = frames /\ streams' = streams /\ syncs' = syncs
  BY DEF vars, shownVars
<1>2. Now(world)' = Now(world)
  BY <1>1 DEF Now
<1> QED BY <1>1, <1>2 DEF IInv

\* The server keeps to the instructions it began with.
LEMMA FamilyStays == [Next]_vars => family' = family
  BY DEF Next, NextPath, NextRaster, NextTree, NextCursor, NextFrames, NextLstroke, NextState,
         Receive, ImageSettles, bounds, vars

\* The invariant is inductive where no lstroke comes.
LEMMA StepKeeps == ASSUME family # "lstroke", IInv, [Next]_vars PROVE IInv'
<1>1. CASE NextPath
  BY <1>1, NextPathKeeps
<1>2. CASE NextRaster
  BY <1>2, NextRasterKeeps
<1>3. CASE NextTree
  BY <1>3, NextTreeKeeps
<1>4. CASE NextCursor
  BY <1>4, NextCursorKeeps
<1>5. CASE NextFrames
  BY <1>5, NextFramesKeeps
<1>6. CASE NextState
  BY <1>6, NextStateKeeps
<1>7. ASSUME NEW id \in DOMAIN blocked, ImageSettles(id) PROVE IInv'
  BY <1>7, ImageSettlesKeeps
<1>8. CASE UNCHANGED vars
  BY <1>8, NothingKeeps
<1>9. ~NextLstroke
  BY DEF NextLstroke, Receive
<1> QED BY <1>1, <1>2, <1>3, <1>4, <1>5, <1>6, <1>7, <1>8, <1>9 DEF Next

-----------------------------------------------------------------------------
(* Theorems                                                                *)

\* Whatever the constants, where no lstroke comes, whose frame throws: all that
\* waits is on layers that are made, in frames whose tasks were scheduled no earlier
\* than the syncs before them, and every open stream draws on a layer that is made.
THEOREM InvariantHolds == Spec => [](family # "lstroke" => IInv)
<1>1. Init => (family # "lstroke" => IInv)
  BY InvariantBegins
<1>2. (family # "lstroke" => IInv) /\ [Next]_vars => (family # "lstroke" => IInv)'
  BY StepKeeps, FamilyStays
<1> QED BY <1>1, <1>2, PTL DEF Spec

\* What waits, in one sequence, is due since the timestamp acknowledged last.
LEMMA QueuedIsDue ==
  ASSUME IInv PROVE Due(Queued, DOMAIN world.objs, acked)
<1> DEFINE made == DOMAIN world.objs
           ss   == [k \in DOMAIN frames |-> frames[k].tasks]
           S    == UNION {Range(frames[k].tasks) : k \in DOMAIN frames}
<1>1. /\ Listed(frames) /\ Due(tasks, made, acked)
      /\ \A k \in 1..Len(frames) : Due(frames[k].tasks, made, acked)
  BY DEF IInv, Pending, Now
<1>2. Len(frames) \in Nat /\ DOMAIN frames = 1..Len(frames)
  BY <1>1, ListedHas
<1>3. \A t \in S : Valid(t, made) /\ t.epoch \in Nat /\ t.epoch >= acked
  BY <1>1, <1>2 DEF Due
<1>4. ss \in Seq(Seq(S))
  <2>1. ASSUME NEW k \in 1..Len(frames) PROVE frames[k].tasks \in Seq(S)
    <3>1. frames[k].tasks \in Seq(Range(frames[k].tasks)) /\ Range(frames[k].tasks) \subseteq S
      BY <1>1, <1>2 DEF Due, Listed
    <3>2. \A A, B : A \subseteq B => Seq(A) \subseteq Seq(B)
      OBVIOUS
    <3> HIDE DEF S
    <3> QED BY <3>1, <3>2
  <2> HIDE DEF S
  <2> QED BY <1>2, <2>1
<1> HIDE DEF S, ss, made
<1>5. FlattenSeq(ss) \in Seq(S)
  BY <1>4, Flattened
<1>6. Due(FlattenSeq(ss), made, acked)
  BY <1>3, <1>5, ListedOf DEF Due
<1>7. Queued = FlattenSeq(ss) \o tasks
  BY DEF Queued, ss
<1> QED BY <1>1, <1>6, <1>7, DueJoined DEF made

\* A layer is always among the children of its parent and of no other, however
\* moves, disposals and imports are mixed with tasks that still wait.
THEOREM TreeStaysTree == Spec => [](family # "lstroke" => TreeConsistent)
<1>1. ASSUME IInv PROVE TreeConsistent
  <2>1. World(world)
    BY <1>1, WorldNow
  <2>2. Listed(Queued) /\ \A t \in Range(Queued) : Valid(t, DOMAIN world.objs)
    BY <1>1, QueuedIsDue DEF Due
  <2>3. Strokes(Queued) = {}
    <3>1. \A n \in DOMAIN Queued : Queued[n] \in Range(Queued)
      BY <2>2, ListedHas
    <3> QED BY <2>2, <3>1 DEF Strokes, Valid, Drawing
  <2>4. Drained = ExecuteAll(world, Queued)
    BY <2>3 DEF Drained, UpToStroke
  <2>5. Like(world, Drained)
    BY <2>1, <2>2, <2>4, ExecutingKeeps DEF ExecuteAll
  <2> QED BY <2>5 DEF Like, World, Tree, TreeConsistent
<1> QED BY <1>1, InvariantHolds, PTL

\* What the server hears of a timestamp is true of the screen: no task that was
\* scheduled before the sync with the timestamp acknowledged last still waits.
THEOREM AcksMeanShown == Spec => [](family # "lstroke" => AckedMeansShown)
<1>1. ASSUME IInv PROVE AckedMeansShown
  <2>1. Due(Queued, DOMAIN world.objs, acked)
    BY <1>1, QueuedIsDue
  <2>2. Listed(Queued) /\ \A t \in Range(Queued) : t.epoch >= acked
    BY <2>1 DEF Due
  <2>3. DOMAIN Queued = 1..Len(Queued) /\ \A n \in 1..Len(Queued) : Queued[n] \in Range(Queued)
    BY <2>2, ListedHas
  <2> QED BY <2>2, <2>3 DEF AckedMeansShown
<1> QED BY <1>1, InvariantHolds, PTL
=============================================================================
