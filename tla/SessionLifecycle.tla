-------------------------- MODULE SessionLifecycle --------------------------
(***************************************************************************)
(* What a session promises to the server that runs it, whatever the        *)
(* interleaving of its goroutines: its workers start once, while it boots; *)
(* each leaves once; it is over only when all have left, and then neither  *)
(* the connection, nor the entry in the session table, nor the RDP client  *)
(* process is held any more.                                               *)
(***************************************************************************)
CONSTANTS
  Workers,   \* the goroutines a session starts
  Renderer   \* the one of them that renders

VARIABLES
  phase,  \* "accepted", "booting", "serving", "over"
  live,   \* the workers that run
  held    \* the resources held: "conn", "entry", "process"

vars == <<phase, live, held>>

Init == phase = "accepted" /\ live = {} /\ held = {"conn"}

\* The session is entered into the table of sessions.
Track ==
  /\ phase = "accepted" /\ held = {"conn"}
  /\ held' = {"conn", "entry"}
  /\ UNCHANGED <<phase, live>>

\* All workers but the one that renders start together.
Boot ==
  /\ phase = "accepted" /\ held = {"conn", "entry"} /\ phase' = "booting"
  /\ live' = Workers \ {Renderer}
  /\ UNCHANGED held

Acquire ==
  /\ phase = "booting" /\ "process" \notin held
  /\ held' = held \cup {"process"}
  /\ UNCHANGED <<phase, live>>

\* A session that holds a process has somebody who will release it.
Serve ==
  /\ phase = "booting" /\ phase' = "serving"
  /\ live' \in {live, live \cup {Renderer}}
  /\ "process" \in held => Renderer \in live'
  /\ UNCHANGED held

Release ==
  /\ "process" \in held /\ held' = held \ {"process"}
  /\ UNCHANGED <<phase, live>>

Leave(w) ==
  /\ w \in live /\ live' = live \ {w}
  /\ w = Renderer => "process" \notin held
  /\ UNCHANGED <<phase, held>>

Finish ==
  /\ phase = "serving" /\ phase' = "over"
  /\ live = {} /\ "process" \notin held
  /\ held' = {}
  /\ UNCHANGED live

Next == \/ Track \/ Boot \/ Acquire \/ Serve \/ Release \/ Finish
        \/ \E w \in Workers : Leave(w)

Spec == Init /\ [][Next]_vars
=============================================================================
