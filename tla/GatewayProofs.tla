--------------------------- MODULE GatewayProofs ---------------------------
(***************************************************************************)
(* The session table: its lock excludes, and it knows all that runs, for   *)
(* every number of connections and of callbacks; and every session, next   *)
(* to the others, implements SessionLifecycle.                             *)
(***************************************************************************)
EXTENDS Gateway, TLAPS

Types ==
  /\ table \in SUBSET Sessions
  /\ handler \in [Sessions -> HandlerPcs]
  /\ live \in [Sessions -> SUBSET Workers]
  /\ process \in [Sessions -> {"none", "running", "gone"}]

Inside  == {"insert", "delete"}
Entered == {"start", "launch", "spawn", "wait", "remove", "delete"}
Manned  == {"launch", "spawn", "wait"}

\* The lock has one holder, the handler inside the session map.
Lock == /\ mu = {s \in Sessions : handler[s] \in Inside}
        /\ \A s, t \in mu : s = t

\* A session is in the table from its start to the end of its removal.
Entries == \A s \in Sessions : s \in table <=> handler[s] \in Entered

\* Workers run from the start to Wait's return.
Crew == \A s \in Sessions : live[s] # {} => handler[s] \in Manned

\* Who will end the process: the renderer that runs or the one about to.
Keeper == \A s \in Sessions :
            process[s] = "running" => handler[s] = "spawn" \/ "renderer" \in live[s]

IInv == Types /\ Lock /\ Entries /\ Crew /\ Keeper

-----------------------------------------------------------------------------
LEMMA InitIInv == Init => IInv
BY DEF Init, IInv, Types, Lock, Entries, Crew, Keeper, HandlerPcs, Inside, Entered

\* A handler's step moves that handler alone.
LEMMA GotoMoves ==
  ASSUME NEW s \in Sessions, NEW from, NEW to \in HandlerPcs, Types, Goto(s, from, to)
  PROVE  /\ handler' \in [Sessions -> HandlerPcs]
         /\ handler[s] = from /\ handler'[s] = to
         /\ \A t \in Sessions : t # s => handler'[t] = handler[t]
BY DEF Goto, Types

\* ServeHTTP keeps the invariant.
LEMMA ServeIInv ==
  ASSUME IInv, NEW s \in Sessions, Serve(s)
  PROVE  IInv'
<1> USE DEF IInv
<1>1. CASE Upgrade(s)
  <2>1. "create" \in HandlerPcs BY DEF HandlerPcs
  <2>2. UNCHANGED <<mu, table, live, process>> BY <1>1 DEF Upgrade
  <2> QED BY <1>1, <2>1, <2>2, GotoMoves
          DEF Upgrade, Types, Lock, Entries, Crew, Keeper, Inside, Entered, Manned
<1>2. CASE CreateLock(s)
  <2>1. "insert" \in HandlerPcs BY DEF HandlerPcs
  <2>2. UNCHANGED <<table, live, process>> /\ mu = {} /\ mu' = {s} BY <1>2 DEF CreateLock
  <2> QED BY <1>2, <2>1, <2>2, GotoMoves
          DEF CreateLock, Types, Lock, Entries, Crew, Keeper, Inside, Entered, Manned
<1>3. CASE CreateInsert(s)
  <2>1. "start" \in HandlerPcs BY DEF HandlerPcs
  <2>2. UNCHANGED <<live, process>> /\ mu' = {} /\ table' = table \cup {s}
    BY <1>3 DEF CreateInsert
  <2>3. mu = {s} BY <1>3, <2>1, GotoMoves DEF CreateInsert, Lock, Inside
  <2> QED BY <1>3, <2>1, <2>2, <2>3, GotoMoves
          DEF CreateInsert, Types, Lock, Entries, Crew, Keeper, Inside, Entered, Manned
<1>4. CASE StartWorkers(s)
  <2>1. "launch" \in HandlerPcs BY DEF HandlerPcs
  <2>2. UNCHANGED <<mu, table, process>> BY <1>4 DEF StartWorkers
  <2>3. /\ live' \in [Sessions -> SUBSET Workers]
        /\ \A t \in Sessions : t # s => live'[t] = live[t]
    BY <1>4 DEF StartWorkers, Types, Workers
  <2>4. live[s] = {} BY <1>4, <2>1, GotoMoves DEF StartWorkers, Crew, Manned
  <2> QED BY <1>4, <2>1, <2>2, <2>3, <2>4, GotoMoves
          DEF StartWorkers, Types, Lock, Entries, Crew, Keeper, Inside, Entered, Manned
<1>5. CASE Launch(s)
  <2>1. "spawn" \in HandlerPcs BY DEF HandlerPcs
  <2>2. UNCHANGED <<mu, table, live>> BY <1>5 DEF Launch
  <2>3. /\ process' \in [Sessions -> {"none", "running", "gone"}]
        /\ \A t \in Sessions : t # s => process'[t] = process[t]
    BY <1>5 DEF Launch, Types
  <2> QED BY <1>5, <2>1, <2>2, <2>3, GotoMoves
          DEF Launch, Types, Lock, Entries, Crew, Keeper, Inside, Entered, Manned
<1>6. CASE LaunchFails(s)
  <2>1. "wait" \in HandlerPcs BY DEF HandlerPcs
  <2>2. UNCHANGED <<mu, table, live, process>> BY <1>6 DEF LaunchFails
  <2> QED BY <1>6, <2>1, <2>2, GotoMoves
          DEF LaunchFails, Types, Lock, Entries, Crew, Keeper, Inside, Entered, Manned
<1>7. CASE SpawnRenderer(s)
  <2>1. "wait" \in HandlerPcs BY DEF HandlerPcs
  <2>2. UNCHANGED <<mu, table, process>> BY <1>7 DEF SpawnRenderer
  <2>3. /\ live' \in [Sessions -> SUBSET Workers] /\ "renderer" \in live'[s]
        /\ \A t \in Sessions : t # s => live'[t] = live[t]
    BY <1>7 DEF SpawnRenderer, Types, Workers
  <2> QED BY <1>7, <2>1, <2>2, <2>3, GotoMoves
          DEF SpawnRenderer, Types, Lock, Entries, Crew, Keeper, Inside, Entered, Manned
<1>8. CASE Wait(s)
  <2>1. "remove" \in HandlerPcs BY DEF HandlerPcs
  <2>2. UNCHANGED <<mu, table, live, process>> /\ live[s] = {} BY <1>8 DEF Wait
  <2> QED BY <1>8, <2>1, <2>2, GotoMoves
          DEF Wait, Types, Lock, Entries, Crew, Keeper, Inside, Entered, Manned
<1>9. CASE RemoveLock(s)
  <2>1. "delete" \in HandlerPcs BY DEF HandlerPcs
  <2>2. UNCHANGED <<table, live, process>> /\ mu = {} /\ mu' = {s} BY <1>9 DEF RemoveLock
  <2> QED BY <1>9, <2>1, <2>2, GotoMoves
          DEF RemoveLock, Types, Lock, Entries, Crew, Keeper, Inside, Entered, Manned
<1>10. CASE RemoveDelete(s)
  <2>1. "over" \in HandlerPcs BY DEF HandlerPcs
  <2>2. UNCHANGED <<live, process>> /\ mu' = {} /\ table' = table \ {s}
    BY <1>10 DEF RemoveDelete
  <2>3. mu = {s} BY <1>10, <2>1, GotoMoves DEF RemoveDelete, Lock, Inside
  <2> QED BY <1>10, <2>1, <2>2, <2>3, GotoMoves
          DEF RemoveDelete, Types, Lock, Entries, Crew, Keeper, Inside, Entered, Manned
<1> QED BY <1>1, <1>2, <1>3, <1>4, <1>5, <1>6, <1>7, <1>8, <1>9, <1>10 DEF Serve

\* So do the workers and processes ...
LEMMA WorkersIInv ==
  ASSUME IInv, NEW s \in Sessions,
         \/ FindWindow(s) \/ ReaderPanics(s) \/ ProcessGone(s)
         \/ \E w \in Workers : WorkerLeaves(s, w)
  PROVE  IInv'
<1> USE DEF IInv, Types, Lock, Entries, Crew, Keeper
<1>1. CASE FindWindow(s) \/ ReaderPanics(s) BY <1>1 DEF FindWindow, ReaderPanics
<1>2. CASE ProcessGone(s) BY <1>2 DEF ProcessGone
<1>3. ASSUME NEW w \in Workers, WorkerLeaves(s, w) PROVE IInv'
  <2>1. UNCHANGED <<mu, table, handler, process>> BY <1>3 DEF WorkerLeaves
  <2>2. /\ live' \in [Sessions -> SUBSET Workers] /\ live'[s] = live[s] \ {w}
        /\ \A t \in Sessions : t # s => live'[t] = live[t]
    BY <1>3 DEF WorkerLeaves
  <2>3. w = "renderer" => process[s] # "running" BY <1>3 DEF WorkerLeaves
  <2> QED BY <2>1, <2>2, <2>3
<1> QED BY <1>1, <1>2, <1>3

\* ... and the program.
LEMMA StepIInv == IInv /\ [Next]_vars => IInv'
<1> SUFFICES ASSUME IInv, [Next]_vars PROVE IInv' OBVIOUS
<1>1. CASE Signal \/ Exit \/ UNCHANGED vars
  <2>1. UNCHANGED <<mu, table, handler, live, process>> BY <1>1 DEF Signal, Exit, vars
  <2> QED BY <2>1 DEF IInv, Types, Lock, Entries, Crew, Keeper
<1> QED BY <1>1, ServeIInv, WorkersIInv DEF Next

\* The inductive invariant: lock, table, workers and processes go with the
\* handlers of the connections.
THEOREM InvariantHolds == Spec => []IInv
BY InitIInv, StepIInv, PTL DEF Spec

-----------------------------------------------------------------------------
\* The lock of the session table lets one handler at a time into the map.
THEOREM MapIsExclusive == Spec => []MapExclusive
<1>1. IInv => MapExclusive BY DEF IInv, Lock, Inside, MapExclusive
<1> QED BY <1>1, InvariantHolds, PTL

\* Whatever runs is found in the session table.
THEOREM TableIsComplete == Spec => []TableComplete
<1>1. IInv => TableComplete
  BY DEF IInv, Entries, Crew, Keeper, TableComplete, Manned, Entered
<1> QED BY <1>1, InvariantHolds, PTL
-----------------------------------------------------------------------------
(* Every session implements SessionLifecycle                               *)

LEMMA InitRefines == Init => \A s \in Sessions : Life(s)!Init
BY DEF Init, Life!Init

Alike(s) == Life(s)!Next \/ UNCHANGED Life(s)!vars

\* A session that is not touched is not seen to move.
LEMMA OthersStutter ==
  ASSUME NEW t \in Sessions,
         handler'[t] = handler[t], live'[t] = live[t], process'[t] = process[t],
         t \in table' <=> t \in table
  PROVE  UNCHANGED Life(t)!vars
BY DEF Life!vars

\* The steps of the handler are those of the life of its session.
LEMMA ServeRefines ==
  ASSUME IInv, NEW s \in Sessions, Serve(s)
  PROVE  Alike(s)
<1> USE DEF IInv, Alike, Goto, Types
<1>1. CASE Upgrade(s) BY <1>1 DEF Upgrade, Life!vars
<1>2. CASE CreateLock(s) BY <1>2 DEF CreateLock, Life!vars
<1>3. CASE CreateInsert(s)
  <2>1. /\ handler[s] = "insert" /\ handler'[s] = "start" /\ UNCHANGED <<live, process>>
        /\ s \notin table /\ s \in table' /\ process[s] # "running"
    BY <1>3 DEF CreateInsert, Entries, Entered, Keeper, Crew, Manned
  <2>2. Life(s)!Track BY <2>1 DEF Life!Track
  <2> QED BY <2>2 DEF Life!Next
<1>4. CASE StartWorkers(s)
  <2>1. /\ handler[s] = "start" /\ handler'[s] = "launch" /\ UNCHANGED <<table, process>>
        /\ s \in table /\ process[s] # "running" /\ live'[s] = {"reader", "writer"}
    BY <1>4 DEF StartWorkers, Entries, Entered, Keeper, Crew, Manned
  <2>2. {"reader", "writer"} = Workers \ {"renderer"} BY DEF Workers
  <2>3. Life(s)!Boot BY <2>1, <2>2 DEF Life!Boot
  <2> QED BY <2>3 DEF Life!Next
<1>5. CASE Launch(s)
  <2>1. /\ handler[s] = "launch" /\ handler'[s] = "spawn" /\ UNCHANGED <<table, live>>
        /\ process'[s] = "running"
    BY <1>5 DEF Launch
  <2>2. CASE process[s] = "running" BY <2>1, <2>2 DEF Life!vars
  <2>3. CASE process[s] # "running"
    <3>1. Life(s)!Acquire BY <2>1, <2>3 DEF Life!Acquire
    <3> QED BY <3>1 DEF Life!Next
  <2> QED BY <2>2, <2>3
<1>6. CASE LaunchFails(s)
  <2>1. /\ handler[s] = "launch" /\ handler'[s] = "wait" /\ UNCHANGED <<table, live, process>>
        /\ process[s] = "running" => "renderer" \in live[s]
    BY <1>6 DEF LaunchFails, Keeper
  <2>2. Life(s)!Serve BY <2>1 DEF Life!Serve
  <2> QED BY <2>2 DEF Life!Next
<1>7. CASE SpawnRenderer(s)
  <2>1. /\ handler[s] = "spawn" /\ handler'[s] = "wait" /\ UNCHANGED <<table, process>>
        /\ live'[s] = live[s] \cup {"renderer"}
    BY <1>7 DEF SpawnRenderer
  <2>2. Life(s)!Serve BY <2>1 DEF Life!Serve
  <2> QED BY <2>2 DEF Life!Next
<1>8. CASE Wait(s) BY <1>8 DEF Wait, Life!vars
<1>9. CASE RemoveLock(s) BY <1>9 DEF RemoveLock, Life!vars
<1>10. CASE RemoveDelete(s)
  <2>1. /\ handler[s] = "delete" /\ handler'[s] = "over" /\ UNCHANGED <<live, process>>
        /\ s \notin table' /\ live[s] = {} /\ process[s] # "running"
    BY <1>10 DEF RemoveDelete, Crew, Manned, Keeper
  <2>2. Life(s)!Finish BY <2>1 DEF Life!Finish
  <2> QED BY <2>2 DEF Life!Next
<1> QED BY <1>1, <1>2, <1>3, <1>4, <1>5, <1>6, <1>7, <1>8, <1>9, <1>10 DEF Serve

\* So are those of its workers and of its process.
LEMMA WorkersRefine ==
  ASSUME IInv, NEW s \in Sessions,
         \/ FindWindow(s) \/ ReaderPanics(s) \/ ProcessGone(s)
         \/ \E w \in Workers : WorkerLeaves(s, w)
  PROVE  Alike(s)
<1> USE DEF IInv, Alike, Types
<1>1. CASE FindWindow(s) \/ ReaderPanics(s) BY <1>1 DEF FindWindow, ReaderPanics, Life!vars
<1>2. CASE ProcessGone(s)
  <2>1. Life(s)!Release BY <1>2 DEF ProcessGone, Life!Release
  <2> QED BY <2>1 DEF Life!Next
<1>3. ASSUME NEW w \in Workers, WorkerLeaves(s, w) PROVE Alike(s)
  <2>1. Life(s)!Leave(w) BY <1>3 DEF WorkerLeaves, Life!Leave
  <2> QED BY <2>1 DEF Life!Next
<1> QED BY <1>1, <1>2, <1>3

\* A step of one session is none of another.
LEMMA StepRefines ==
  IInv /\ [Next]_vars => \A t \in Sessions : Alike(t)
<1> SUFFICES ASSUME IInv, [Next]_vars, NEW t \in Sessions PROVE Alike(t) OBVIOUS
<1>1. CASE Signal \/ Exit \/ UNCHANGED vars
  BY <1>1, OthersStutter DEF Signal, Exit, vars, Alike
<1>2. ASSUME NEW s \in Sessions,
             \/ Serve(s) \/ FindWindow(s) \/ ReaderPanics(s) \/ ProcessGone(s)
             \/ \E w \in Workers : WorkerLeaves(s, w)
      PROVE  Alike(t)
  <2>1. CASE s = t BY <1>2, <2>1, ServeRefines, WorkersRefine
  <2>2. CASE s # t
    <3>1. /\ handler'[t] = handler[t] /\ live'[t] = live[t] /\ process'[t] = process[t]
          /\ t \in table' <=> t \in table
      BY <1>2, <2>2 DEF IInv, Types, Serve, Goto, Upgrade, CreateLock, CreateInsert,
         StartWorkers, Launch, LaunchFails, SpawnRenderer, Wait, RemoveLock, RemoveDelete,
         FindWindow, ReaderPanics, ProcessGone, WorkerLeaves
    <3> QED BY <3>1, OthersStutter DEF Alike
  <2> QED BY <2>1, <2>2
<1> QED BY <1>1, <1>2 DEF Next

\* Every session keeps the promise of SessionLifecycle, whatever the others do
\* and in whichever order the lock of the table lets them in.
THEOREM SessionsRefine == Spec => SessionsKeepLifecycle
<1>1. IInv /\ [Next]_vars => [\A s \in Sessions : Life(s)!Next \/ UNCHANGED Life(s)!vars]_vars
  BY StepRefines DEF Alike
<1>2. Init => \A s \in Sessions : Life(s)!Init BY InitRefines
<1> QED BY <1>1, <1>2, InvariantHolds, PTL DEF Spec, SessionsKeepLifecycle
=============================================================================
