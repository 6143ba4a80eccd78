----------------------------- MODULE FrameDiff -----------------------------
(***************************************************************************)
(* What the capture loop of CaptureClient.StartRendering sends of the      *)
(* window: the first picture whole, then the bounding box of the pixels    *)
(* that changed (renderer.ExtractDirtyRect, pixel by pixel), and what the  *)
(* browser's canvas shows once it has drawn all that was sent.             *)
(*                                                                         *)
(* The backend may replace its window by one of another size between two   *)
(* ticks.  The size of the display is sent once, before the first picture. *)
(* Captured pixels are opaque: the colour image.RGBA reports outside the   *)
(* bounds of a picture is none of theirs.                                  *)
(***************************************************************************)
EXTENDS Integers

CONSTANTS
  MaxW, MaxH,          \* bound: the largest window
  DisplayW, DisplayH,  \* the size the session announced
  Colours,             \* opaque colours
  Black,               \* the colour of an empty window
  NoColour,            \* color.RGBA{}, what RGBAAt reports out of bounds
  MaxRedraws           \* bound: changes of the window

ASSUME FrameDiffAssumption ==
  /\ MaxW \in Nat \ {0} /\ MaxH \in Nat \ {0}
  /\ DisplayW \in Nat \ {0} /\ DisplayH \in Nat \ {0}
  /\ Black \in Colours /\ NoColour \notin Colours
  /\ MaxRedraws \in Nat

VARIABLES
  window,      \* the picture the backend's window shows
  redraws,     \* how often it has changed
  pc,          \* "idle" between ticks, "scan" inside ExtractDirtyRect
  prev,        \* prevImg; a picture of no size stands for nil
  curr,        \* currFrame, the last picture captured
  x, y,        \* the pixel the scan is at
  minX, minY, maxX, maxY,
  canvas       \* what the browser shows when it has drawn everything sent

scanVars == <<x, y, minX, minY, maxX, maxY>>
vars == <<window, redraws, pc, prev, curr, scanVars, canvas>>

Box(w, h)   == (0..(w - 1)) \X (0..(h - 1))
Bounds(img) == Box(img.w, img.h)
Display     == Box(DisplayW, DisplayH)

Image(w, h) == [w : {w}, h : {h}, pix : [Box(w, h) -> Colours]]
Images      == UNION {Image(w, h) : w \in 1..MaxW, h \in 1..MaxH}
Nil         == [w |-> 0, h |-> 0, pix |-> [p \in Box(0, 0) |-> Black]]

RGBAAt(img, p) == IF p \in Bounds(img) THEN img.pix[p] ELSE NoColour

Changed(p) == RGBAAt(prev, p) # RGBAAt(curr, p)

\* Faulty: one black pixel is enough.
ValidIfBright(img) == \A p \in Bounds(img) : img.pix[p] # Black

\* CaptureWindow takes a picture without one visible pixel for a failure.
Valid(img) == \E p \in Bounds(img) : img.pix[p] # Black

-----------------------------------------------------------------------------
Init ==
  /\ window \in {img \in Images : ~Valid(img)} /\ redraws = 0
  /\ pc = "idle" /\ prev = Nil /\ curr = Nil
  /\ x = 0 /\ y = 0 /\ minX = 0 /\ minY = 0 /\ maxX = -1 /\ maxY = -1
  /\ canvas = [p \in Display |-> NoColour]

\* The backend draws, or shows another window.
Redraw(img) ==
  /\ redraws < MaxRedraws /\ redraws' = redraws + 1
  /\ window' = img
  /\ UNCHANGED <<pc, prev, curr, scanVars, canvas>>

\* png.Encode writes to memory, and fails only for a picture of no size.
Encodable(left, top, right, bottom) == left < right /\ top < bottom

\* The canvas with the part of img from (left, top) up to, without, (right, bottom).
Patched(img, left, top, right, bottom) ==
  [p \in Display |-> IF p \in (left..(right - 1)) \X (top..(bottom - 1))
                     THEN img.pix[p] ELSE canvas[p]]

\* Faulty: only the first picture is kept to compare with.
SendKeepsFirst(img, left, top, right, bottom) ==
  /\ prev' = IF prev = Nil THEN img ELSE prev
  /\ canvas' = IF Encodable(left, top, right, bottom)
               THEN Patched(img, left, top, right, bottom) ELSE canvas

\* The picture becomes the one to compare with, and then the part is encoded and
\* sent, unless that fails; the browser draws the part over what its canvas shows.
Send(img, left, top, right, bottom) ==
  /\ prev' = img
  /\ canvas' = IF Encodable(left, top, right, bottom)
               THEN Patched(img, left, top, right, bottom) ELSE canvas

\* A tick whose capture succeeds.
Capture ==
  /\ pc = "idle" /\ Valid(window)
  /\ curr' = window
  /\ IF prev = Nil
     THEN /\ Send(window, 0, 0, window.w, window.h)
          /\ UNCHANGED <<pc, scanVars>>
     ELSE /\ pc' = "scan" /\ x' = 0 /\ y' = 0
          /\ minX' = window.w /\ minY' = window.h /\ maxX' = -1 /\ maxY' = -1
          /\ UNCHANGED <<prev, canvas>>
  /\ UNCHANGED <<window, redraws>>

\* Faulty: "else if" between the two bounds of an axis.
WidenEither ==
  /\ minX' = IF x < minX THEN x ELSE minX
  /\ maxX' = IF ~(x < minX) /\ x > maxX THEN x ELSE maxX
  /\ minY' = IF y < minY THEN y ELSE minY
  /\ maxY' = IF ~(y < minY) /\ y > maxY THEN y ELSE maxY

Widen ==
  /\ minX' = IF x < minX THEN x ELSE minX
  /\ maxX' = IF x > maxX THEN x ELSE maxX
  /\ minY' = IF y < minY THEN y ELSE minY
  /\ maxY' = IF y > maxY THEN y ELSE maxY

ScanPixel ==
  /\ pc = "scan" /\ y < curr.h
  /\ IF Changed(<<x, y>>) THEN Widen ELSE UNCHANGED <<minX, minY, maxX, maxY>>
  /\ IF x + 1 < curr.w THEN x' = x + 1 /\ y' = y ELSE x' = 0 /\ y' = y + 1
  /\ UNCHANGED <<window, redraws, pc, prev, curr, canvas>>

ScanEnd ==
  /\ pc = "scan" /\ y = curr.h /\ pc' = "idle"
  /\ IF maxX < 0 THEN UNCHANGED <<prev, canvas>>
                 ELSE Send(curr, minX, minY, maxX + 1, maxY + 1)
  /\ UNCHANGED <<window, redraws, curr, scanVars>>

Next == Capture \/ ScanPixel \/ ScanEnd \/ \E img \in Images : Redraw(img)

Spec == Init /\ [][Next]_vars

\* The ticker fires while the session lasts, and the loop goes on.
FairSpec == Spec /\ WF_vars(Capture) /\ WF_vars(ScanPixel \/ ScanEnd)

-----------------------------------------------------------------------------
ScanType ==
  /\ x \in Nat /\ y \in Nat /\ minX \in Nat /\ minY \in Nat
  /\ maxX \in -1..MaxW /\ maxY \in -1..MaxH
  /\ pc = "scan" => /\ x < curr.w /\ y <= curr.h
                    /\ prev # Nil /\ curr # Nil

\* The type invariant; the scan stays inside the picture.
TypeOK ==
  /\ window \in Images /\ redraws \in 0..MaxRedraws
  /\ pc \in {"idle", "scan"}
  /\ prev \in Images \cup {Nil} /\ curr \in Images \cup {Nil}
  /\ canvas \in [Display -> Colours \cup {NoColour}]
  /\ ScanType

Scanned(p)  == p[2] < y \/ (p[2] = y /\ p[1] < x)
DirtyPixels == {p \in Bounds(curr) : Scanned(p) /\ Changed(p)}

\* At every point of the scan the four bounds are exactly the bounding box of
\* the changed pixels met so far: none outside, one on each side, and no box at
\* all when there was none.
RectExact ==
  pc = "scan" =>
    /\ \A p \in DirtyPixels : p[1] \in minX..maxX /\ p[2] \in minY..maxY
    /\ maxX < 0 <=> DirtyPixels = {}
    /\ DirtyPixels # {} => /\ \E p \in DirtyPixels : p[1] = minX
                           /\ \E p \in DirtyPixels : p[1] = maxX
                           /\ \E p \in DirtyPixels : p[2] = minY
                           /\ \E p \in DirtyPixels : p[2] = maxY

Shows(img) == \A p \in Display \cap Bounds(img) : canvas[p] = img.pix[p]

\* Between ticks the browser shows the last picture captured, as far as the
\* display reaches, after any history of pictures, patches and window sizes.
CanvasShowsCapture == pc = "idle" => Shows(curr)

\* When the window stops changing the browser comes to show it, unless it is
\* all black, which the capture takes for a failure.
Converges ==
  <>[](Shows(window) \/ \A p \in Bounds(window) : window.pix[p] = Black)

\* Until a pixel has changed the bounds are the ones the scan starts with.
FreshBounds ==
  pc = "scan" /\ maxX < 0 =>
    minX = curr.w /\ minY = curr.h /\ maxX = -1 /\ maxY = -1

\* The inductive invariant: what is compared with is what the canvas shows.
DiffInv ==
  /\ TypeOK /\ RectExact /\ FreshBounds /\ CanvasShowsCapture
  /\ Shows(prev)
  /\ prev = Nil => curr = Nil
=============================================================================
