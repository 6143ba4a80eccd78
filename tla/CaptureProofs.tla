--------------------------- MODULE CaptureProofs ---------------------------
(***************************************************************************)
(* Proofs about what becomes of the captured window.                       *)
(*                                                                         *)
(* Of FrameDiff, for every window and display size and every set of opaque *)
(* colours: the scan of ExtractDirtyRect computes the bounding box of the  *)
(* changed pixels, and drawing that box over the canvas makes the canvas   *)
(* show the picture captured.                                              *)
(*                                                                         *)
(* Of WindowCapture, for every number of windows, any limit of GDI objects *)
(* and any number of changes: a bitmap is lost only by a call that was     *)
(* disturbed.                                                              *)
(***************************************************************************)
EXTENDS FrameDiff, WindowCapture, TLAPS

\* What a picture is.
LEMMA ImageType ==
  ASSUME NEW img \in Images
  PROVE  /\ img.w \in 1..MaxW /\ img.h \in 1..MaxH
         /\ img.pix \in [Bounds(img) -> Colours]
         /\ img # Nil
<1>1. PICK w \in 1..MaxW, h \in 1..MaxH : img \in Image(w, h)
  BY DEF Images
<1>2. img.w = w /\ img.h = h /\ img.pix \in [Box(w, h) -> Colours]
  BY <1>1 DEF Image
<1>3. w # 0 /\ Nil.w = 0
  BY FrameDiffAssumption DEF Nil
<1> QED BY <1>2, <1>3 DEF Bounds

\* nil has no pixels.
LEMMA NilBounds == Bounds(Nil) = {}
BY DEF Nil, Bounds, Box

\* A pixel that did not change is a pixel of the earlier picture, with the same
\* colour: opaque pixels differ from what lies outside a picture.
LEMMA UnchangedPixel ==
  ASSUME TypeOK, curr \in Images, NEW p \in Bounds(curr), ~Changed(p)
  PROVE  p \in Bounds(prev) /\ prev.pix[p] = curr.pix[p]
<1>1. RGBAAt(curr, p) = curr.pix[p] /\ curr.pix[p] \in Colours
  BY ImageType DEF RGBAAt
<1>2. RGBAAt(prev, p) # NoColour
  BY <1>1, FrameDiffAssumption DEF Changed
<1> QED BY <1>1, <1>2 DEF RGBAAt, Changed

\* Drawing a part of a picture that covers all its changed pixels over a canvas
\* that shows the earlier picture makes the canvas show the new one.
LEMMA PatchShows ==
  ASSUME TypeOK, Shows(prev), curr \in Images,
         NEW l, NEW t, NEW r, NEW b, Send(curr, l, t, r, b), Encodable(l, t, r, b),
         \A p \in Bounds(curr) : Changed(p) => p \in (l..(r - 1)) \X (t..(b - 1))
  PROVE  \A p \in Display \cap Bounds(curr) : canvas'[p] = curr.pix[p]
<1> SUFFICES ASSUME NEW p \in Display \cap Bounds(curr) PROVE canvas'[p] = curr.pix[p]
  OBVIOUS
<1>1. CASE p \in (l..(r - 1)) \X (t..(b - 1))
  BY <1>1 DEF Send, Patched
<1>2. CASE p \notin (l..(r - 1)) \X (t..(b - 1))
  <2>1. canvas'[p] = canvas[p]
    BY <1>2 DEF Send, Patched
  <2>2. p \in Bounds(prev) /\ prev.pix[p] = curr.pix[p]
    BY <1>2, UnchangedPixel
  <2> QED BY <2>1, <2>2 DEF Shows
<1> QED BY <1>1, <1>2

LEMMA InitDiff == Init => DiffInv
<1> SUFFICES ASSUME Init PROVE DiffInv
  OBVIOUS
<1>1. TypeOK
  BY FrameDiffAssumption DEF Init, TypeOK, ScanType
<1>2. RectExact /\ FreshBounds /\ CanvasShowsCapture /\ Shows(prev)
  BY NilBounds DEF Init, RectExact, FreshBounds, CanvasShowsCapture, Shows
<1> QED BY <1>1, <1>2 DEF Init, DiffInv

\* The parts sent lie inside the picture they are taken from.
LEMMA SendType ==
  ASSUME TypeOK, NEW img \in Images,
         NEW l, NEW t, NEW r, NEW b, Send(img, l, t, r, b),
         (l..(r - 1)) \X (t..(b - 1)) \subseteq Bounds(img)
  PROVE  /\ canvas' \in [Display -> Colours \cup {NoColour}]
         /\ prev' \in Images
<1>1. \A p \in Bounds(img) : img.pix[p] \in Colours
  BY ImageType
<1> QED BY <1>1 DEF Send, Patched, TypeOK

LEMMA CaptureStep ==
  ASSUME DiffInv, Capture
  PROVE  DiffInv'
<1>1. window \in Images /\ window.w \in 1..MaxW /\ window.h \in 1..MaxH /\ window # Nil
  BY ImageType DEF DiffInv, TypeOK
<1>2. window.w \in Nat /\ window.h \in Nat /\ window.w > 0 /\ window.h > 0
  BY <1>1, FrameDiffAssumption
<1>3. CASE prev = Nil
  <2>1. /\ Send(window, 0, 0, window.w, window.h) /\ curr' = window /\ prev' = window
        /\ pc' = "idle" /\ UNCHANGED <<window, redraws, scanVars>>
    BY <1>3 DEF Capture, Send
  <2>2. (0..(window.w - 1)) \X (0..(window.h - 1)) = Bounds(window)
    BY DEF Bounds, Box
  <2>3. canvas' \in [Display -> Colours \cup {NoColour}]
    BY <1>1, <2>1, <2>2, SendType DEF DiffInv
  <2>4. TypeOK'
    BY <1>1, <2>1, <2>3 DEF DiffInv, TypeOK, ScanType, scanVars
  <2>5. \A p \in Display \cap Bounds(window) : canvas'[p] = window.pix[p]
    BY <1>2, <2>1, <2>2 DEF Send, Patched, Encodable
  <2>6. (CanvasShowsCapture /\ Shows(prev) /\ RectExact /\ FreshBounds)'
    BY <2>1, <2>5 DEF CanvasShowsCapture, Shows, RectExact, FreshBounds
  <2> QED BY <1>1, <2>1, <2>4, <2>6 DEF DiffInv
<1>4. CASE prev # Nil
  <2>1. /\ curr' = window /\ pc' = "scan" /\ x' = 0 /\ y' = 0
        /\ minX' = window.w /\ minY' = window.h /\ maxX' = -1 /\ maxY' = -1
        /\ UNCHANGED <<window, redraws, prev, canvas>>
    BY <1>4 DEF Capture
  <2>2. TypeOK'
    BY <1>1, <1>2, <1>4, <2>1, FrameDiffAssumption DEF DiffInv, TypeOK, ScanType
  <2>3. DirtyPixels' = {}
    <3>1. \A p \in Bounds(window) : p[1] >= 0 /\ p[2] >= 0
      BY <1>2 DEF Bounds, Box
    <3> QED BY <2>1, <3>1, <1>2 DEF DirtyPixels, Scanned, Bounds, Box
  <2>4. RectExact' /\ FreshBounds'
    BY <2>1, <2>3 DEF RectExact, FreshBounds
  <2>5. CanvasShowsCapture' /\ Shows(prev)'
    BY <2>1 DEF DiffInv, CanvasShowsCapture, Shows
  <2> QED BY <1>4, <2>1, <2>2, <2>4, <2>5 DEF DiffInv
<1> QED BY <1>3, <1>4

LEMMA ScanPixelStep ==
  ASSUME DiffInv, ScanPixel
  PROVE  DiffInv'
<1>1. /\ curr \in Images /\ curr.w \in 1..MaxW /\ curr.h \in 1..MaxH
      /\ pc = "scan" /\ x \in Nat /\ y \in Nat /\ x < curr.w /\ y < curr.h
  BY ImageType DEF DiffInv, TypeOK, ScanType, ScanPixel
<1>2. curr.w \in Nat /\ curr.h \in Nat /\ curr.w <= MaxW /\ curr.h <= MaxH
      /\ MaxW \in Nat /\ MaxH \in Nat
  BY <1>1, FrameDiffAssumption
<1>3. /\ minX \in Nat /\ minY \in Nat /\ maxX \in Int /\ maxY \in Int
      /\ maxX \in -1..MaxW /\ maxY \in -1..MaxH
  BY <1>2 DEF DiffInv, TypeOK, ScanType
<1>4. UNCHANGED <<window, redraws, pc, prev, curr, canvas>>
  BY DEF ScanPixel
<1>5. /\ x' \in Nat /\ y' \in Nat /\ x' < curr.w /\ y' <= curr.h
      /\ \/ x' = x + 1 /\ y' = y /\ x + 1 < curr.w
         \/ x' = 0 /\ y' = y + 1 /\ x + 1 = curr.w
  BY <1>1, <1>2 DEF ScanPixel
<1>6. <<x, y>> \in Bounds(curr)
  BY <1>1, <1>2 DEF Bounds, Box
<1>7. \A p \in Bounds(curr) : Scanned(p)' <=> Scanned(p) \/ p = <<x, y>>
  <2> SUFFICES ASSUME NEW i \in 0..(curr.w - 1), NEW j \in 0..(curr.h - 1)
               PROVE  Scanned(<<i, j>>)' <=> Scanned(<<i, j>>) \/ (i = x /\ j = y)
    BY <1>2 DEF Bounds, Box
  <2> QED BY <1>1, <1>2, <1>5 DEF Scanned
<1>8. \A p \in Bounds(curr) : Changed(p)' <=> Changed(p)
  BY <1>4 DEF Changed
<1>9. Bounds(curr)' = Bounds(curr)
  BY <1>4
<1>10. DirtyPixels' = {p \in Bounds(curr) : (Scanned(p) \/ p = <<x, y>>) /\ Changed(p)}
  BY <1>7, <1>8, <1>9 DEF DirtyPixels
<1>11. (CanvasShowsCapture /\ Shows(prev))'
  BY <1>1, <1>4 DEF DiffInv, CanvasShowsCapture, Shows
<1>12. CASE ~Changed(<<x, y>>)
  <2>1. UNCHANGED <<minX, minY, maxX, maxY>>
    BY <1>12 DEF ScanPixel
  <2>2. DirtyPixels' = DirtyPixels
    BY <1>10, <1>12 DEF DirtyPixels
  <2>3. RectExact' /\ FreshBounds'
    BY <1>1, <1>4, <2>1, <2>2 DEF DiffInv, RectExact, FreshBounds
  <2>4. TypeOK'
    BY <1>1, <1>4, <1>5, <2>1 DEF DiffInv, TypeOK, ScanType
  <2> QED BY <1>4, <1>11, <2>3, <2>4 DEF DiffInv
<1>13. CASE Changed(<<x, y>>)
  <2>1. Widen
    BY <1>13 DEF ScanPixel
  <2>2. DirtyPixels' = DirtyPixels \cup {<<x, y>>}
    BY <1>6, <1>10, <1>13 DEF DirtyPixels
  <2>3. TypeOK'
    <3>1. /\ minX' \in Nat /\ minY' \in Nat
          /\ maxX' \in -1..MaxW /\ maxY' \in -1..MaxH
      BY <1>1, <1>2, <1>3, <2>1 DEF Widen
    <3> QED BY <1>1, <1>4, <1>5, <3>1 DEF DiffInv, TypeOK, ScanType
  <2>4. \A p \in DirtyPixels : p[1] \in 0..(curr.w - 1) /\ p[2] \in 0..(curr.h - 1)
    BY DEF DirtyPixels, Bounds, Box
  <2>5. \A p \in DirtyPixels' : p[1] \in minX'..maxX' /\ p[2] \in minY'..maxY'
    <3>1. \A p \in DirtyPixels : p[1] \in minX..maxX /\ p[2] \in minY..maxY
      BY <1>1 DEF DiffInv, RectExact
    <3>2. /\ x \in minX'..maxX' /\ y \in minY'..maxY'
          /\ minX' <= minX /\ minY' <= minY /\ maxX <= maxX' /\ maxY <= maxY'
          /\ minX' \in Nat /\ minY' \in Nat /\ maxX' \in Int /\ maxY' \in Int
      BY <1>1, <1>3, <2>1 DEF Widen
    <3> QED BY <1>3, <2>2, <2>4, <3>1, <3>2
  <2>6. ~(maxX' < 0) /\ DirtyPixels' # {}
    <3>1. ~(maxX' < 0)
      BY <1>1, <1>3, <2>1 DEF Widen
    <3> QED BY <2>2, <3>1
  <2>7. \/ minX' = x /\ maxX' = x /\ minY' = y /\ maxY' = y
        \/ /\ \E p \in DirtyPixels : p[1] = minX
           /\ \E p \in DirtyPixels : p[1] = maxX
           /\ \E p \in DirtyPixels : p[2] = minY
           /\ \E p \in DirtyPixels : p[2] = maxY
    <3>1. CASE maxX < 0
      <4>1. minX = curr.w /\ minY = curr.h /\ maxX = -1 /\ maxY = -1
        BY <1>1, <3>1 DEF DiffInv, FreshBounds
      <4> QED BY <1>1, <1>2, <2>1, <4>1 DEF Widen
    <3>2. CASE ~(maxX < 0)
      BY <1>1, <3>2 DEF DiffInv, RectExact
    <3> QED BY <3>1, <3>2
  <2>8. /\ minX' \in {x, minX} /\ maxX' \in {x, maxX}
        /\ minY' \in {y, minY} /\ maxY' \in {y, maxY}
    BY <2>1 DEF Widen
  <2>9. <<x, y>> \in DirtyPixels' /\ DirtyPixels \subseteq DirtyPixels'
        /\ <<x, y>>[1] = x /\ <<x, y>>[2] = y
    BY <2>2
  <2>10. /\ \E p \in DirtyPixels' : p[1] = minX'
         /\ \E p \in DirtyPixels' : p[1] = maxX'
         /\ \E p \in DirtyPixels' : p[2] = minY'
         /\ \E p \in DirtyPixels' : p[2] = maxY'
    BY <2>7, <2>8, <2>9
  <2>11. RectExact' /\ FreshBounds'
    BY <2>5, <2>6, <2>10 DEF RectExact, FreshBounds
  <2> QED BY <1>4, <1>11, <2>3, <2>11 DEF DiffInv
<1> QED BY <1>12, <1>13

LEMMA ScanEndStep ==
  ASSUME DiffInv, ScanEnd
  PROVE  DiffInv'
<1>1. /\ curr \in Images /\ curr.w \in 1..MaxW /\ curr.h \in 1..MaxH
      /\ pc = "scan" /\ y = curr.h /\ pc' = "idle"
      /\ UNCHANGED <<window, redraws, curr, x, y, minX, minY, maxX, maxY>>
  BY ImageType DEF DiffInv, TypeOK, ScanType, ScanEnd, scanVars
<1>2. curr.w \in Nat /\ curr.h \in Nat /\ minX \in Nat /\ minY \in Nat
      /\ maxX \in Int /\ maxY \in Int
  BY <1>1, FrameDiffAssumption DEF DiffInv, TypeOK, ScanType
<1>3. DirtyPixels = {p \in Bounds(curr) : Changed(p)}
  BY <1>1, <1>2 DEF DirtyPixels, Scanned, Bounds, Box
<1>4. RectExact' /\ FreshBounds'
  BY <1>1 DEF RectExact, FreshBounds
<1>5. CASE maxX < 0
  <2>1. UNCHANGED <<prev, canvas>>
    BY <1>5 DEF ScanEnd
  <2>2. \A p \in Bounds(curr) : ~Changed(p)
    BY <1>1, <1>3, <1>5 DEF DiffInv, RectExact
  <2>3. \A p \in Display \cap Bounds(curr) : canvas[p] = curr.pix[p]
    BY <1>1, <2>2, UnchangedPixel DEF DiffInv, Shows
  <2>4. (CanvasShowsCapture /\ Shows(prev))'
    BY <1>1, <2>1, <2>3 DEF DiffInv, CanvasShowsCapture, Shows
  <2>5. TypeOK'
    BY <1>1, <2>1 DEF DiffInv, TypeOK, ScanType
  <2> QED BY <1>1, <1>4, <2>1, <2>4, <2>5 DEF DiffInv
<1>6. CASE ~(maxX < 0)
  <2> DEFINE r == maxX + 1
             b == maxY + 1
  <2>0. maxX = r - 1 /\ maxY = b - 1 /\ r \in Int /\ b \in Int
    BY <1>2
  <2>1. Send(curr, minX, minY, r, b)
    BY <1>6 DEF ScanEnd
  <2> HIDE DEF r, b
  <2>2. \A p \in Bounds(curr) : p[1] \in 0..(curr.w - 1) /\ p[2] \in 0..(curr.h - 1)
                              /\ p = <<p[1], p[2]>>
    BY DEF Bounds, Box
  <2>3. (minX..(r - 1)) \X (minY..(b - 1)) \subseteq Bounds(curr)
    <3>1. /\ \E p \in Bounds(curr) : p[1] = maxX
          /\ \E p \in Bounds(curr) : p[2] = maxY
      BY <1>1, <1>3, <1>6 DEF DiffInv, RectExact
    <3>2. maxX <= curr.w - 1 /\ maxY <= curr.h - 1
      BY <1>2, <2>2, <3>1
    <3> QED BY <1>2, <2>0, <3>2 DEF Bounds, Box
  <2>4. \A p \in Bounds(curr) :
          Changed(p) => p \in (minX..(r - 1)) \X (minY..(b - 1))
    <3>1. \A p \in Bounds(curr) : Changed(p) => p[1] \in minX..maxX /\ p[2] \in minY..maxY
      BY <1>1, <1>3 DEF DiffInv, RectExact
    <3> QED BY <1>2, <2>0, <2>2, <3>1
  <2>5. \A p \in Display \cap Bounds(curr) : canvas'[p] = curr.pix[p]
    <3>1. TypeOK /\ Shows(prev)
      BY DEF DiffInv
    <3>2. PICK p \in DirtyPixels, q \in DirtyPixels : p[1] = maxX /\ q[2] = maxY
      BY <1>1, <1>6 DEF DiffInv, RectExact
    <3>3. maxX \in minX..maxX /\ maxY \in minY..maxY
      BY <1>1, <3>2 DEF DiffInv, RectExact
    <3>4. Encodable(minX, minY, r, b)
      BY <1>2, <2>0, <3>3 DEF Encodable
    <3> QED BY <1>1, <2>1, <2>4, <3>1, <3>4, PatchShows
  <2>6. canvas' \in [Display -> Colours \cup {NoColour}] /\ prev' = curr
    <3>1. TypeOK
      BY DEF DiffInv
    <3>2. prev' = curr
      BY <2>1 DEF Send
    <3> QED BY <1>1, <2>1, <2>3, <3>1, <3>2, SendType
  <2>7. (CanvasShowsCapture /\ Shows(prev))'
    BY <1>1, <2>5, <2>6 DEF CanvasShowsCapture, Shows
  <2>8. TypeOK'
    BY <1>1, <2>6 DEF DiffInv, TypeOK, ScanType
  <2> QED BY <1>1, <1>4, <2>6, <2>7, <2>8, ImageType DEF DiffInv
<1> QED BY <1>5, <1>6

LEMMA Inductive == DiffInv /\ [Next]_vars => DiffInv'
<1> SUFFICES ASSUME DiffInv, [Next]_vars PROVE DiffInv'
  OBVIOUS
<1>1. CASE Capture
  BY <1>1, CaptureStep
<1>2. CASE ScanPixel
  BY <1>2, ScanPixelStep
<1>3. CASE ScanEnd
  BY <1>3, ScanEndStep
<1>4. ASSUME NEW img \in Images, Redraw(img) PROVE DiffInv'
  <2>1. /\ window' \in Images /\ redraws' \in 0..MaxRedraws
        /\ UNCHANGED <<pc, prev, curr, x, y, minX, minY, maxX, maxY, canvas>>
    BY <1>4, FrameDiffAssumption DEF Redraw, scanVars, DiffInv, TypeOK
  <2>2. UNCHANGED DirtyPixels
    BY <2>1 DEF DirtyPixels, Scanned, Changed
  <2> QED BY <2>1, <2>2 DEF DiffInv, TypeOK, ScanType, RectExact, FreshBounds,
             CanvasShowsCapture, Shows
<1>5. CASE UNCHANGED vars
  <2>1. UNCHANGED DirtyPixels
    BY <1>5 DEF vars, scanVars, DirtyPixels, Scanned, Changed
  <2> QED BY <1>5, <2>1 DEF vars, scanVars, DiffInv, TypeOK, ScanType, RectExact, FreshBounds,
             CanvasShowsCapture, Shows
<1> QED BY <1>1, <1>2, <1>3, <1>4, <1>5 DEF Next

\* DiffInv is an invariant of the capture loop.
THEOREM InvariantHolds == Spec => []DiffInv
BY InitDiff, Inductive, PTL DEF Spec

\* The scan stays inside the picture and every patch inside the types.
THEOREM TypeCorrect == Spec => []TypeOK
BY InvariantHolds, PTL DEF DiffInv

\* ExtractDirtyRect computes the bounding box of the changed pixels.
THEOREM ScanExact == Spec => []RectExact
BY InvariantHolds, PTL DEF DiffInv

\* Between ticks the browser's canvas shows the last picture captured.
THEOREM CanvasCorrect == Spec => []CanvasShowsCapture
BY InvariantHolds, PTL DEF DiffInv

-----------------------------------------------------------------------------
(* WindowCapture                                                           *)

\* The Win32 calls after GetClientRect.
Drawing == {"GetWindowDC", "CreateCompatibleDC", "CreateCompatibleBitmap", "SelectObject",
            "PrintWindow", "PrintWindow0", "GetDIBits", "Validate"}

CallTypes ==
  /\ windows \in [Windows -> {"gone", "iconic", "black", "normal"}]
  /\ hwnd \in SUBSET Windows
  /\ at \in {"poll", "hide", "tick", "over", "GetClientRect"} \cup Drawing
  /\ leaked \in Nat
  /\ (selected = TRUE \/ selected = FALSE) /\ (disturbed = TRUE \/ disturbed = FALSE)

\* A call nobody disturbs finds its window as GetClientRect did.
WindowStays == at \in Drawing /\ ~disturbed => Sized

\* The bitmap is selected between SelectObject and GetDIBits.
SelectedWhile == selected => at \in {"PrintWindow", "PrintWindow0", "GetDIBits"}

CallInv == CallTypes /\ WindowStays /\ SelectedWhile

LEMMA CallInitially == WCInit => CallInv
BY DEF WCInit, CallInv, CallTypes, WindowStays, SelectedWhile, Drawing

\* What the deferred calls leave.
LEMMA Released ==
  ASSUME CallInv, Release
  PROVE  leaked' \in Nat /\ selected' = FALSE /\ (leaked' # leaked => selected)
BY DEF Release, CallInv, CallTypes

\* What CaptureWindow returns with, wherever it returns.
LEMMA ReturnKeeps ==
  ASSUME CallInv, NEW outcome, Return(outcome)
  PROVE  CallInv'
<1>1. leaked' \in Nat /\ selected' = FALSE BY Released DEF Return
<1>2. at' = "tick" /\ UNCHANGED <<windows, hwnd, disturbed>>
  BY DEF Return, client
<1> QED BY <1>1, <1>2 DEF CallInv, CallTypes, WindowStays, SelectedWhile, Drawing

\* A step that leaves the window and the bitmap alone.
LEMMA GoToKeeps ==
  ASSUME CallInv, NEW next \in Drawing, GoTo(next), UNCHANGED selected,
         at \in Drawing, selected => next \in {"PrintWindow", "PrintWindow0", "GetDIBits"}
  PROVE  CallInv'
BY DEF GoTo, client, CallInv, CallTypes, WindowStays, SelectedWhile, Sized

\* The client changes one of its windows, that of the call perhaps.
LEMMA ChangeKeeps ==
  ASSUME CallInv, NEW w \in Windows, NEW to \in {"gone", "iconic", "black", "normal"},
         Change(w, to)
  PROVE  CallInv'
<1>1. /\ windows' = [windows EXCEPT ![w] = to]
      /\ disturbed' = (disturbed \/ (Capturing /\ w \in hwnd))
      /\ UNCHANGED <<at, hwnd, selected, leaked>>
  BY DEF Change, call
<1>2. windows' \in [Windows -> {"gone", "iconic", "black", "normal"}]
  BY <1>1 DEF CallInv, CallTypes
<1>3. disturbed' = TRUE \/ disturbed' = FALSE BY <1>1
<1>4. WindowStays'
  <2> SUFFICES ASSUME at \in Drawing, ~disturbed' PROVE Sized'
    BY <1>1 DEF WindowStays
  <2>1. ~disturbed /\ w \notin hwnd BY <1>1 DEF Capturing, Drawing
  <2>2. Sized BY <2>1 DEF CallInv, WindowStays
  <2> QED BY <2>1, <2>2, <1>1 DEF Sized, CallInv, CallTypes
<1> QED BY <1>1, <1>2, <1>3, <1>4 DEF CallInv, CallTypes, SelectedWhile

LEMMA ExitKeeps ==
  ASSUME CallInv, Exits
  PROVE  CallInv'
<1>1. /\ windows' = [w \in Windows |-> "gone"]
      /\ disturbed' = (disturbed \/ Capturing)
      /\ UNCHANGED <<at, hwnd, selected, leaked>>
  BY DEF Exits, call
<1>2. at \in Drawing => Capturing BY DEF Drawing, Capturing
<1> QED BY <1>1, <1>2 DEF CallInv, CallTypes, WindowStays, SelectedWhile

\* A call that fails of itself counts as disturbed, whatever it returns.
LEMMA FailureKeeps ==
  ASSUME CallInv, CallFails
  PROVE  CallInv'
<1>1. disturbed' = TRUE /\ UNCHANGED <<windows, hwnd>> BY DEF CallFails
<1>2. CASE at \in {"SelectObject", "PrintWindow"}
  <2>1. at' \in {"PrintWindow", "PrintWindow0"} /\ UNCHANGED <<selected, leaked>>
    BY <1>2 DEF CallFails, call
  <2> QED BY <1>1, <2>1 DEF CallInv, CallTypes, WindowStays, SelectedWhile, Drawing
<1>3. CASE at \notin {"SelectObject", "PrintWindow"}
  <2>1. at' = "tick" /\ Release BY <1>3 DEF CallFails
  <2>2. leaked' \in Nat /\ selected' = FALSE BY <2>1, Released
  <2> QED BY <1>1, <2>1, <2>2 DEF CallInv, CallTypes, WindowStays, SelectedWhile
<1> QED BY <1>2, <1>3

LEMMA CallStep == CallInv /\ [WCNext]_(wcVars) => CallInv'
<1> SUFFICES ASSUME CallInv, [WCNext]_(wcVars) PROVE CallInv' OBVIOUS
<1>1. ASSUME NEW w \in Windows, PollFinds(w) \/ TickFinds(w) PROVE CallInv'
  BY <1>1 DEF PollFinds, TickFinds, client, call, CallInv,
     CallTypes, WindowStays, SelectedWhile, Drawing
<1>2. CASE Hide \/ PollMisses \/ StartupTimeout \/ Cancelled \/ ProcessDied
  BY <1>2 DEF Hide, PollMisses, StartupTimeout, Cancelled, ProcessDied, Ends,
     client, call, CallInv, CallTypes, WindowStays, SelectedWhile, Drawing
<1>3. ASSUME NEW name \in Drawing, NEW object, NEW possible, NEW next \in Drawing,
             Create(name, object, possible, next), name # "PrintWindow",
             name # "PrintWindow0", name # "GetDIBits"
      PROVE  CallInv'
  <2>1. CASE possible
    <3>1. at = name /\ GoTo(next) /\ UNCHANGED selected BY <1>3, <2>1 DEF Create
    <3>2. ~selected BY <1>3, <3>1 DEF CallInv, SelectedWhile
    <3> QED BY <3>1, <3>2, <1>3, GoToKeeps
  <2>2. CASE ~possible BY <1>3, <2>2, ReturnKeeps DEF Create
  <2> QED BY <2>1, <2>2
<1>4. CASE GetWindowDC \/ CreateCompatibleDC \/ CreateCompatibleBitmap
  BY <1>3, <1>4 DEF GetWindowDC, CreateCompatibleDC,
     CreateCompatibleBitmap, Drawing
<1>5. CASE GetClientRect
  <2>1. CASE Sized
    <3>1. /\ at = "GetClientRect" /\ at' = "GetWindowDC"
          /\ UNCHANGED <<windows, hwnd, selected, leaked, disturbed>>
      BY <1>5, <2>1 DEF GetClientRect, GoTo, client, call
    <3> QED BY <3>1, <2>1 DEF CallInv, CallTypes, WindowStays, SelectedWhile,
        Sized, Drawing
  <2>2. CASE ~Sized BY <1>5, <2>2, ReturnKeeps DEF GetClientRect
  <2> QED BY <2>1, <2>2
<1>6. CASE SelectObject \/ GetDIBits
  BY <1>6 DEF SelectObject, GetDIBits, GoTo, client, CallInv,
     CallTypes, WindowStays, SelectedWhile, Sized, Drawing
<1>7. CASE PrintWindow
  <2>1. at = "PrintWindow" /\ UNCHANGED selected
        /\ (GoTo("GetDIBits") \/ GoTo("PrintWindow0"))
    BY <1>7 DEF PrintWindow, DrawOr, call
  <2> QED BY <2>1, GoToKeeps DEF Drawing
<1>8. CASE PrintWindow0
  <2>1. CASE Exists
    <3>1. at = "PrintWindow0" /\ UNCHANGED selected /\ GoTo("GetDIBits")
      BY <1>8, <2>1 DEF PrintWindow0, DrawOr
    <3> QED BY <3>1, GoToKeeps DEF Drawing
  <2>2. CASE ~Exists BY <1>8, <2>2, ReturnKeeps DEF PrintWindow0, DrawOr
  <2> QED BY <2>1, <2>2
<1>9. CASE Validate BY <1>9, ReturnKeeps DEF Validate
<1>10. CASE UNCHANGED wcVars
  BY <1>10 DEF wcVars, client, call, CallInv, CallTypes, WindowStays,
     SelectedWhile, Sized
<1> QED BY <1>1, <1>2, <1>4, <1>5, <1>6, <1>7, <1>8, <1>9, <1>10, ChangeKeeps,
        ExitKeeps, FailureKeeps DEF WCNext, Loop, CaptureWindow

\* The inductive invariant: a call that is not disturbed keeps its window, and
\* the bitmap is selected only while it is drawn to.
THEOREM CallInvHolds == WCSpec => []CallInv
BY CallInitially, CallStep, PTL DEF WCSpec

\* The one return that finds the bitmap selected without having failed of itself
\* is that of a window that has gone.
LEMMA LeakStep == CallInv /\ WCNext => (leaked' > leaked => disturbed')
<1> SUFFICES ASSUME CallInv, WCNext, leaked' > leaked PROVE disturbed' OBVIOUS
<1>1. leaked' # leaked BY DEF CallInv, CallTypes
<1>2. CASE CallFails BY <1>2 DEF CallFails
<1>3. CASE ~CallFails
  <2>1. PICK outcome : Return(outcome)
    BY <1>1, <1>3 DEF WCNext, Loop, CaptureWindow, Hide, PollMisses, StartupTimeout,
       Cancelled, ProcessDied, Ends, PollFinds, TickFinds, Change, Exits, GetClientRect,
       GetWindowDC, CreateCompatibleDC, CreateCompatibleBitmap,
       Create, SelectObject, PrintWindow, PrintWindow0, DrawOr,
       GetDIBits, Validate, GoTo, client, call
  <2>2. selected /\ UNCHANGED disturbed /\ at' = "tick"
    BY <1>1, <2>1, Released DEF Return
  <2>3. at \in {"PrintWindow", "PrintWindow0", "GetDIBits"}
    BY <2>2 DEF CallInv, SelectedWhile
  <2>4. PrintWindow0 /\ ~Exists
    BY <1>1, <1>3, <2>2, <2>3 DEF WCNext, Loop, CaptureWindow, Hide, PollMisses,
       StartupTimeout, Cancelled, ProcessDied, Ends, PollFinds, TickFinds, Change, Exits,
       GetClientRect, GetWindowDC, CreateCompatibleDC, CreateCompatibleBitmap,
       Create, SelectObject, PrintWindow, PrintWindow0, DrawOr,
       GetDIBits, Validate, GoTo
  <2>5. at \in Drawing /\ ~Sized
    BY <2>4 DEF PrintWindow0, Drawing, Exists, Sized
  <2> QED BY <2>2, <2>5 DEF CallInv, WindowStays, CallTypes
<1> QED BY <1>2, <1>3

\* A bitmap is lost only by a call whose window changed under it or that failed
\* of itself.
THEOREM LeaksAreDisturbances == WCSpec => LeaksOnlyDisturbed
<1>1. CallInv /\ [WCNext]_(wcVars) => [leaked' > leaked => disturbed']_(wcVars)
  BY LeakStep
<1> QED BY <1>1, CallInvHolds, PTL DEF WCSpec, LeaksOnlyDisturbed
=============================================================================
