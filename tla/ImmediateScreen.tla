--------------------------- MODULE ImmediateScreen ---------------------------
(***************************************************************************)
(* What a drawing protocol promises its server: every instruction takes    *)
(* effect when it is received, on the layer of that index, with the mask   *)
(* it names.  There are no tasks, no frames and no images to wait for, and *)
(* layers have no identity beyond their index.                             *)
(***************************************************************************)
EXTENDS Layers

CONSTANTS Indices,   \* layers (positive), buffers (negative) and 0
          Masks, Positions

VARIABLES
  screen,     \* what is drawn, for every index that was used
  cursor,     \* [x, hot, at, pix]
  snapshot    \* the screen an application has asked for last

vars == <<screen, cursor, snapshot>>

\* A layer without what only the drawing of one instruction needs.
Plain(o) == [o EXCEPT !.mask = "OVER", !.children = {}, !.place = 0,
                      !.saved = [i \in DOMAIN o.saved |-> [o.saved[i] EXCEPT !.mask = "OVER"]]]

Untouched(s, i) ==
  [NewLayer(i > 0, i > 0 /\ s[Default].sized) EXCEPT !.parent = IF i > 0 THEN Default ELSE None]

At(s, i) == IF i \in DOMAIN s THEN s[i] ELSE Untouched(s, i)

Touched(s, used) == [i \in DOMAIN s \cup used |-> At(s, i)]

-----------------------------------------------------------------------------
(* Steps from a screen s to a screen t                                     *)

\* i is drawn on; the others that are used are at most touched.
OnlyAt(s, t, i, others) ==
  /\ DOMAIN t = DOMAIN s \cup {i} \cup others
  /\ \A j \in DOMAIN t \ {i} : t[j] = At(s, j)

Change(s, t, i, F(_)) == t[i] = Plain(F(At(s, i)))

Mix(s, t, i, src, F(_, _)) == t[i] = Plain(F(At(s, i), At(s, src)))

Drawing(s, t, i) ==
  \/ \E hit \in BOOLEAN : Change(s, t, i, LAMBDA o : Trace(o, hit))
  \/ Change(s, t, i, Close) \/ Change(s, t, i, Clip)
  \/ Change(s, t, i, Push) \/ Change(s, t, i, Pop) \/ Change(s, t, i, Reset)
  \/ Change(s, t, i, SetTransform) \/ Change(s, t, i, Transform)
  \/ \E m \in Masks, c \in Colours :
       \/ Change(s, t, i, LAMBDA o : FillColor(SetChannelMask(o, m), c))
       \/ Change(s, t, i, LAMBDA o : Draw(SetChannelMask(o, m), <<c>>))

\* A raster operation does to every bit what its index says as a truth table.
Rastered(o, src, f) ==
  IF ~src.sized THEN o
  ELSE Overwrite(o, WithRgb(IF f \in {3, 12} THEN src.pix ELSE o.pix,
                            TruthTable(f, Rgb(src.pix), Rgb(o.pix))))

Copying(s, t, i, src) ==
  \/ \E m \in Masks :
       \/ Mix(s, t, i, src, LAMBDA o, p : FillLayer(SetChannelMask(o, m), p))
       \/ Mix(s, t, i, src, LAMBDA o, p : Copy(SetChannelMask(o, m), p))
  \/ \E f \in 0..15 : Mix(s, t, i, src, LAMBDA o, p : Rastered(o, p, f))

Placing(s, t, i) ==
  \/ \E b \in BOOLEAN : Change(s, t, i, LAMBDA o : Resize(o, b))
  \/ \E a \in {0, Opaque} : Change(s, t, i, LAMBDA o : Shade(o, a))
  \/ \E m \in 0..1 : Change(s, t, i, LAMBDA o : Distort(o, m))

Moving(s, t, i, p) ==
  /\ i > 0 /\ p >= 0
  /\ \E z \in 0..1 : Change(s, t, i, LAMBDA o : [o EXCEPT !.parent = p, !.z = z])

\* What lies on a layer that is gone is not shown, whatever gets its index.
Disposing(s, t, i) ==
  /\ i # Default
  /\ t = [j \in DOMAIN s \ {i} |-> [s[j] EXCEPT !.parent = IF @ = i /\ i > 0 THEN None ELSE @]]

Shown(s, t) ==
  \/ \E i \in Indices : OnlyAt(s, t, i, {}) /\ (Drawing(s, t, i) \/ Placing(s, t, i))
  \/ \E i, j \in Indices : OnlyAt(s, t, i, {j}) /\ (Copying(s, t, i, j) \/ Moving(s, t, i, j))
  \/ \E i \in Indices : Disposing(s, t, i) \/ t = Touched(s, {i})

-----------------------------------------------------------------------------
(* The state machine                                                       *)

Draws == /\ \E s \in {screen}, t \in {screen'} : Shown(s, t)
         /\ UNCHANGED <<cursor, snapshot>>

Pointing ==
  /\ \E x \in Positions : cursor' = [cursor EXCEPT !.x = x, !.at = x - cursor.hot]
  /\ UNCHANGED <<screen, snapshot>>

\* The cursor shows a copy of a layer of now.
ChangeCursor ==
  /\ \E h \in 0..1, i \in Indices :
       LET t == Touched(screen, {i})
       IN  /\ screen' = t
           /\ cursor' = [cursor EXCEPT !.hot = h, !.at = cursor.x - h,
                                       !.pix = IF t[i].sized THEN t[i].pix ELSE @]
  /\ UNCHANGED snapshot

Export == snapshot' = <<screen>> /\ UNCHANGED <<screen, cursor>>

\* What another client would have to draw to show the same.
Import ==
  /\ snapshot # <<>>
  /\ LET s == snapshot[1]
     IN  screen' = [i \in DOMAIN s |->
           [NewLayer(s[i].visible, s[i].sized) EXCEPT
              !.pix = s[i].pix, !.parent = s[i].parent,
              !.z = s[i].z, !.alpha = s[i].alpha, !.matrix = s[i].matrix]]
  /\ UNCHANGED <<cursor, snapshot>>

Init ==
  /\ screen = (Default :> NewLayer(TRUE, TRUE))
  /\ cursor = [x |-> 0, hot |-> 0, at |-> 0, pix |-> Clear]
  /\ snapshot = <<>>

Next == Draws \/ Pointing \/ ChangeCursor \/ Export \/ Import

Spec == Init /\ [][Next]_vars
=============================================================================
