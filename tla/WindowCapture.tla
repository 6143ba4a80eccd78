--------------------------- MODULE WindowCapture ---------------------------
(***************************************************************************)
(* How the capture loop gets a picture: it looks up the window of the RDP  *)
(* client anew at every tick and calls CaptureWindow, a sequence of Win32  *)
(* calls between any two of which the client may open, minimise or close   *)
(* its windows, or exit, and a call may fail of itself.  It waits for the  *)
(* first window for a time, and ends when the session or the client does.  *)
(*                                                                         *)
(* GDI objects are limited per program.  An object that is selected into a *)
(* device context is not deleted by DeleteObject; the context can be.      *)
(*                                                                         *)
(* Some names begin with WC: FrameDiff, the other half of the capture      *)
(* client, is next to this module in CaptureProofs.                        *)
(***************************************************************************)
EXTENDS Integers, FiniteSets

CONSTANTS
  Windows,    \* handles of the client's top-level windows
  StartupPolls, \* ticks of the poll ticker until the startup timeout, 50 in the code
  GdiLimit,   \* GDI objects the program can have
  MaxChanges  \* bound: changes of windows and calls that fail of themselves

ASSUME WindowCaptureAssumption ==
  StartupPolls \in Nat \ {0} /\ GdiLimit \in Nat /\ MaxChanges \in Nat

VARIABLES
  windows,   \* every window: "gone", "iconic" (minimised), "black" or "normal"
  exited,    \* the client's process has ended
  changes,   \* how many there were
  polls,     \* ticks that found no window to start with
  at,        \* "poll", "hide", "tick", "over", or the next Win32 call of CaptureWindow
  ended,     \* why the loops ended: "none", "cancelled", "exited", "timeout"
  hwnd,      \* the window found, {} or a singleton
  held,      \* GDI objects this call holds: "windowDC", "memDC", "bitmap"
  selected,  \* its bitmap is selected into its memory context
  black,     \* what PrintWindow drew has no other colour
  leaked,    \* bitmaps nobody can delete any more
  result,    \* of the last call: "none", "image", "unsized", "error"
  disturbed  \* during this call its window changed or a call failed of itself

client == <<windows, exited, changes>>
loop   == <<polls, ended>>
call   == <<held, selected, black>>
wcVars == <<client, loop, at, hwnd, call, leaked, result, disturbed>>

WCInit ==
  /\ windows = [w \in Windows |-> "gone"] /\ exited = FALSE /\ changes = 0
  /\ polls = 0 /\ at = "poll" /\ ended = "none"
  /\ hwnd = {} /\ held = {} /\ selected = FALSE /\ black = FALSE
  /\ leaked = 0 /\ result = "none" /\ disturbed = FALSE

Capturing == at \notin {"poll", "hide", "tick", "over"}

\* The client opens, minimises, restores or closes a window, or has it black.
Change(w, to) ==
  /\ ~exited /\ changes < MaxChanges /\ changes' = changes + 1
  /\ windows[w] # to /\ windows' = [windows EXCEPT ![w] = to]
  /\ disturbed' = (disturbed \/ (Capturing /\ w \in hwnd))
  /\ UNCHANGED <<exited, loop, at, hwnd, call, leaked, result>>

\* The process ends, and its windows with it.
Exits ==
  /\ ~exited /\ exited' = TRUE
  /\ windows' = [w \in Windows |-> "gone"]
  /\ disturbed' = (disturbed \/ Capturing)
  /\ UNCHANGED <<changes, loop, at, hwnd, call, leaked, result>>

-----------------------------------------------------------------------------
(* The loops of StartRendering                                             *)

\* FindWindowByPID: EnumWindows stops at one of the visible windows.
Found == {w \in Windows : windows[w] # "gone"}

\* The first window found is hidden, a quarter of a second later.
PollFinds(w) ==
  /\ at = "poll" /\ polls < StartupPolls /\ w \in Found
  /\ at' = "hide" /\ hwnd' = {w}
  /\ UNCHANGED <<client, loop, call, leaked, result, disturbed>>

PollMisses ==
  /\ at = "poll" /\ polls < StartupPolls /\ Found = {}
  /\ polls' = polls + 1
  /\ UNCHANGED <<client, ended, at, hwnd, call, leaked, result, disturbed>>

Ends(why) ==
  /\ at' = "over" /\ ended' = why
  /\ UNCHANGED <<client, polls, hwnd, call, leaked, result, disturbed>>

\* The timer is due together with the last tick, and either may come first.
StartupTimeout == at = "poll" /\ polls >= StartupPolls - 1 /\ Ends("timeout")

\* What else the two selects wait for: ctx.Done() and cmdWaitErr.
Cancelled   == at \in {"poll", "tick"} /\ Ends("cancelled")
ProcessDied == at \in {"poll", "tick"} /\ exited /\ Ends("exited")

Hide ==
  /\ at = "hide" /\ at' = "tick"
  /\ UNCHANGED <<client, loop, hwnd, call, leaked, result, disturbed>>

TickFinds(w) ==
  /\ at = "tick" /\ w \in Found
  /\ at' = "GetClientRect" /\ hwnd' = {w}
  /\ result' = "none" /\ disturbed' = FALSE
  /\ UNCHANGED <<client, loop, call, leaked>>

-----------------------------------------------------------------------------
(* CaptureWindow                                                           *)

Exists == \A w \in hwnd : windows[w] # "gone"
Sized  == \A w \in hwnd : windows[w] \in {"black", "normal"}

GdiFree == leaked + Cardinality(held) < GdiLimit

\* Faulty: only the contexts are given back.
ReleaseKeepsBitmap ==
  /\ leaked' = IF "bitmap" \in held THEN leaked + 1 ELSE leaked
  /\ held' = {} /\ selected' = FALSE /\ UNCHANGED black

\* The deferred calls: DeleteObject, without effect on a selected bitmap,
\* DeleteDC, ReleaseDC.
Release ==
  /\ leaked' = IF selected THEN leaked + 1 ELSE leaked
  /\ held' = {} /\ selected' = FALSE /\ UNCHANGED black

\* Faulty: an error ends the capture loop.
ReturnEndsLoop(outcome) ==
  /\ at' = (IF outcome = "image" THEN "tick" ELSE "over") /\ result' = outcome /\ Release
  /\ UNCHANGED <<client, loop, hwnd, disturbed>>

Return(outcome) ==
  /\ at' = "tick" /\ result' = outcome /\ Release
  /\ UNCHANGED <<client, loop, hwnd, disturbed>>

GoTo(next) ==
  /\ at' = next
  /\ UNCHANGED <<client, loop, hwnd, leaked, result, disturbed>>

GetClientRect ==
  /\ at = "GetClientRect"
  /\ IF Sized THEN GoTo("GetWindowDC") /\ UNCHANGED call ELSE Return("unsized")

\* A call that creates an object this call then holds.
Create(name, object, possible, next) ==
  /\ at = name
  /\ IF possible
     THEN GoTo(next) /\ held' = held \cup {object} /\ UNCHANGED <<selected, black>>
     ELSE Return("error")

GetWindowDC == Create("GetWindowDC", "windowDC", Exists /\ GdiFree, "CreateCompatibleDC")
CreateCompatibleDC ==
  Create("CreateCompatibleDC", "memDC", GdiFree, "CreateCompatibleBitmap")
CreateCompatibleBitmap ==
  Create("CreateCompatibleBitmap", "bitmap", GdiFree, "SelectObject")

SelectObject ==
  /\ at = "SelectObject" /\ GoTo("PrintWindow")
  /\ selected' = TRUE /\ UNCHANGED <<held, black>>

\* What may be drawn of the window: a minimised one leaves it open, and a bitmap
\* that could not be selected stays black.
Drawn ==
  CASE ~selected                              -> {TRUE}
    [] \E w \in hwnd : windows[w] = "iconic" -> BOOLEAN
    [] OTHER                                  -> {\E w \in hwnd : windows[w] = "black"}

DrawOr(otherwise) ==
  IF Exists THEN GoTo("GetDIBits") /\ black' \in Drawn /\ UNCHANGED <<held, selected>>
            ELSE otherwise

\* PrintWindow, and the plain one when the first fails.
PrintWindow  == at = "PrintWindow" /\ DrawOr(GoTo("PrintWindow0") /\ UNCHANGED call)
PrintWindow0 == at = "PrintWindow0" /\ DrawOr(Return("error"))

\* All the lines are copied, and the bitmap is deselected.
GetDIBits ==
  /\ at = "GetDIBits" /\ GoTo("Validate")
  /\ selected' = FALSE /\ UNCHANGED <<held, black>>

\* A picture without one visible pixel is taken for a failure.
Validate == at = "Validate" /\ Return(IF black THEN "error" ELSE "image")

\* A call fails of itself: the first PrintWindow leaves it to the second, what
\* SelectObject gives back is not looked at, and any other ends CaptureWindow.
CallFails ==
  /\ at \in {"GetClientRect", "GetWindowDC", "CreateCompatibleDC", "CreateCompatibleBitmap",
             "SelectObject", "PrintWindow", "PrintWindow0", "GetDIBits"}
  /\ changes < MaxChanges /\ changes' = changes + 1 /\ disturbed' = TRUE
  /\ \/ at = "SelectObject" /\ at' = "PrintWindow" /\ UNCHANGED <<call, leaked, result>>
     \/ at = "PrintWindow" /\ at' = "PrintWindow0" /\ UNCHANGED <<call, leaked, result>>
     \/ /\ at \notin {"SelectObject", "PrintWindow"}
        /\ at' = "tick" /\ result' = "error" /\ Release
  /\ UNCHANGED <<windows, exited, loop, hwnd>>

CaptureWindow ==
  \/ GetClientRect \/ GetWindowDC \/ CreateCompatibleDC \/ CreateCompatibleBitmap
  \/ SelectObject \/ PrintWindow \/ PrintWindow0 \/ GetDIBits \/ Validate

Loop ==
  \/ PollMisses \/ StartupTimeout \/ ProcessDied \/ Hide \/ CaptureWindow
  \/ \E w \in Windows : PollFinds(w) \/ TickFinds(w)

WCNext ==
  \/ Loop \/ CallFails \/ Cancelled \/ Exits
  \/ \E w \in Windows, to \in {"gone", "iconic", "black", "normal"} : Change(w, to)

WCSpec == WCInit /\ [][WCNext]_wcVars

\* The tickers and the timer fire.
WCFairSpec == WCSpec /\ WF_wcVars(Loop)

-----------------------------------------------------------------------------
\* A bitmap is only lost by a call whose window changed under it or that failed
\* of itself; leaks are counted by such events.
LeaksOnlyDisturbed == [][leaked' > leaked => disturbed']_wcVars

\* A window that is there to stay is captured again and again, whatever happened to
\* it or to others before, until the session or the client's process ends, unless it
\* came after the startup timeout, the GDI objects are used up, or a window without
\* a picture, minimised or black, is found in its place (StartRendering and
\* CaptureWindow: every error but the end of the session is followed by another try).
CapturedAtLast ==
  <>[](\E w \in Windows : windows[w] = "normal")
    => []<>(result = "image" \/ ended # "none" \/ leaked > GdiLimit - 3
              \/ \E w \in Windows : windows[w] \in {"iconic", "black"})
=============================================================================
