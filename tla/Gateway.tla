------------------------------ MODULE Gateway ------------------------------
(***************************************************************************)
(* The gateway program: main, the HTTP handler of every connection, the    *)
(* session table behind its mutex (session.Manager), and what the sessions *)
(* share although they know nothing of each other: the program they run in *)
(* and the Windows callbacks of that program, of which the Go runtime has  *)
(* a fixed number and frees none.                                          *)
(*                                                                         *)
(* A session is what SessionLifecycle says of it (module Session, which    *)
(* implements it, has the goroutines in detail).                           *)
(***************************************************************************)
EXTENDS Integers, FiniteSets

CONSTANTS
  Sessions,      \* connections, one session each
  MaxCallbacks   \* callbacks syscall.NewCallback can create

ASSUME GatewayAssumption == MaxCallbacks \in Nat

Workers == {"reader", "writer", "renderer"}

VARIABLES
  main,       \* "serving", "closing" (after the signal), "exited", "crashed"
  mu,         \* who holds Manager.mu: a set of at most one session
  table,      \* Manager.sessions
  handler,    \* where ServeHTTP is, for every connection
  live,       \* the workers of every session
  process,    \* the RDP client process of every session: "none", "running", "gone"
  callbacks   \* callbacks created so far

vars == <<main, mu, table, handler, live, process, callbacks>>

Init ==
  /\ main = "serving" /\ mu = {} /\ table = {} /\ callbacks = 0
  /\ handler = [s \in Sessions |-> "off"]
  /\ live = [s \in Sessions |-> {}]
  /\ process = [s \in Sessions |-> "none"]

\* Goroutines run as long as the program does; closing the HTTP server does not
\* touch a connection that was upgraded (it is hijacked).
Running == main \in {"serving", "closing"}

Goto(s, from, to) ==
  /\ Running /\ handler[s] = from
  /\ handler' = [handler EXCEPT ![s] = to]

-----------------------------------------------------------------------------
(* Faulty variants                                                         *)

\* CreateSession without the lock.
CreateUnlocked(s) ==
  /\ Goto(s, "create", "insert")
  /\ UNCHANGED <<main, mu, table, live, process, callbacks>>

\* RemoveSession that returns, lock held, when it has deleted the entry.
DeleteKeepsLock(s) ==
  /\ Goto(s, "delete", "over")
  /\ table' = table \ {s}
  /\ UNCHANGED <<main, mu, live, process, callbacks>>

\* RemoveSession that closes the session without deleting it.
DeleteKeepsEntry(s) ==
  /\ Goto(s, "delete", "over")
  /\ mu' = {}
  /\ UNCHANGED <<main, table, live, process, callbacks>>

\* The renderer leaves without killing the process.
LeaveProcess(s, w) ==
  /\ Running /\ w \in live[s]
  /\ live' = [live EXCEPT ![s] = @ \ {w}]
  /\ UNCHANGED <<main, mu, table, handler, process, callbacks>>

-----------------------------------------------------------------------------
(* ServeHTTP                                                               *)

\* The upgrade; a connection whose upgrade fails never becomes a session.
Upgrade(s) ==
  /\ main = "serving" /\ Goto(s, "off", "create")
  /\ UNCHANGED <<main, mu, table, live, process, callbacks>>

\* CreateSession takes the lock ...
CreateLock(s) ==
  /\ Goto(s, "create", "insert") /\ mu = {}
  /\ mu' = {s}
  /\ UNCHANGED <<main, table, live, process, callbacks>>

\* ... enters the session and releases it.
CreateInsert(s) ==
  /\ Goto(s, "insert", "start")
  /\ table' = table \cup {s} /\ mu' = {}
  /\ UNCHANGED <<main, live, process, callbacks>>

StartWorkers(s) ==
  /\ Goto(s, "start", "launch")
  /\ live' = [live EXCEPT ![s] = {"reader", "writer"}]
  /\ UNCHANGED <<main, mu, table, process, callbacks>>

Launch(s) ==
  /\ Goto(s, "launch", "spawn")
  /\ process' = [process EXCEPT ![s] = "running"]
  /\ UNCHANGED <<main, mu, table, live, callbacks>>

LaunchFails(s) ==
  /\ Goto(s, "launch", "wait")
  /\ UNCHANGED <<main, mu, table, live, process, callbacks>>

SpawnRenderer(s) ==
  /\ Goto(s, "spawn", "wait")
  /\ live' = [live EXCEPT ![s] = @ \cup {"renderer"}]
  /\ UNCHANGED <<main, mu, table, process, callbacks>>

Wait(s) ==
  /\ Goto(s, "wait", "remove") /\ live[s] = {}
  /\ UNCHANGED <<main, mu, table, live, process, callbacks>>

\* RemoveSession takes the lock ...
RemoveLock(s) ==
  /\ Goto(s, "remove", "delete") /\ mu = {}
  /\ mu' = {s}
  /\ UNCHANGED <<main, table, live, process, callbacks>>

\* ... closes the session's connection, deletes its entry and releases it.
RemoveDelete(s) ==
  /\ Goto(s, "delete", "over")
  /\ table' = table \ {s} /\ mu' = {}
  /\ UNCHANGED <<main, live, process, callbacks>>

Serve(s) == \/ Upgrade(s) \/ CreateLock(s) \/ CreateInsert(s) \/ StartWorkers(s)
            \/ Launch(s) \/ LaunchFails(s) \/ SpawnRenderer(s) \/ Wait(s)
            \/ RemoveLock(s) \/ RemoveDelete(s)

-----------------------------------------------------------------------------
(* Workers and processes                                                   *)

\* One look for the window of the process, at every tick of the poll and of the
\* capture loop.  FindWindowByPID makes a callback each time; when the runtime
\* has no more it ends the program.
FindWindow(s) ==
  /\ Running /\ "renderer" \in live[s] /\ process[s] = "running"
  /\ IF callbacks < MaxCallbacks
     THEN callbacks' = callbacks + 1 /\ UNCHANGED main
     ELSE main' = "crashed" /\ UNCHANGED callbacks
  /\ UNCHANGED <<mu, table, handler, live, process>>

\* A length that Atoi reads and make does not allocate, negative or beyond the
\* memory, panics in readWorker; nothing recovers, so the program ends and with
\* it every session.
ReaderPanics(s) ==
  /\ Running /\ "reader" \in live[s]
  /\ main' = "crashed"
  /\ UNCHANGED <<mu, table, handler, live, process, callbacks>>

\* The renderer's deferred Disconnect, or the process ends by itself.
ProcessGone(s) ==
  /\ process[s] = "running"
  /\ process' = [process EXCEPT ![s] = "gone"]
  /\ UNCHANGED <<main, mu, table, handler, live, callbacks>>

WorkerLeaves(s, w) ==
  /\ Running /\ w \in live[s]
  /\ w = "renderer" => process[s] # "running"
  /\ live' = [live EXCEPT ![s] = @ \ {w}]
  /\ UNCHANGED <<main, mu, table, handler, process, callbacks>>

-----------------------------------------------------------------------------
(* main                                                                    *)

Signal ==
  /\ main = "serving" /\ main' = "closing"
  /\ UNCHANGED <<mu, table, handler, live, process, callbacks>>

Exit ==
  /\ main = "closing" /\ main' = "exited"
  /\ UNCHANGED <<mu, table, handler, live, process, callbacks>>

Next ==
  \/ Signal \/ Exit
  \/ \E s \in Sessions :
       \/ Serve(s) \/ FindWindow(s) \/ ReaderPanics(s) \/ ProcessGone(s)
       \/ \E w \in Workers : WorkerLeaves(s, w)

Spec == Init /\ [][Next]_vars

\* Handlers run; sync.Mutex lets every waiter have its turn.
FairSpec ==
  Spec /\ \A s \in Sessions : /\ WF_vars(CreateInsert(s)) /\ WF_vars(RemoveDelete(s))
                              /\ SF_vars(CreateLock(s)) /\ SF_vars(RemoveLock(s))

-----------------------------------------------------------------------------
HandlerPcs == {"off", "create", "insert", "start", "launch", "spawn", "wait",
               "remove", "delete", "over"}

TypeOK ==
  /\ main \in {"serving", "closing", "exited", "crashed"}
  /\ mu \in SUBSET Sessions /\ Cardinality(mu) <= 1
  /\ table \in SUBSET Sessions
  /\ handler \in [Sessions -> HandlerPcs]
  /\ live \in [Sessions -> SUBSET Workers]
  /\ process \in [Sessions -> {"none", "running", "gone"}]
  /\ callbacks \in 0..MaxCallbacks

\* No two handlers are inside the session map at a time: Go's maps do not
\* survive concurrent writes.
MapExclusive ==
  \A s, t \in Sessions :
    handler[s] \in {"insert", "delete"} /\ handler[t] \in {"insert", "delete"} => s = t

\* The table knows every session that has a worker or a process: what runs is
\* found there, as long as the program runs itself.
TableComplete ==
  Running => \A s \in Sessions :
    live[s] # {} \/ process[s] = "running" => s \in table

Life(s) == INSTANCE SessionLifecycle WITH
  Renderer <- "renderer",
  phase <- CASE handler[s] \in {"off", "create", "insert", "start"} -> "accepted"
             [] handler[s] \in {"launch", "spawn"}                 -> "booting"
             [] handler[s] \in {"wait", "remove", "delete"}        -> "serving"
             [] handler[s] = "over"                                -> "over",
  live <- live[s],
  held <- (IF handler[s] # "over" THEN {"conn"} ELSE {})
            \cup (IF s \in table THEN {"entry"} ELSE {})
            \cup (IF process[s] = "running" THEN {"process"} ELSE {})

\* Every session keeps the promise of SessionLifecycle next to the others,
\* with the table's lock between them.
SessionsKeepLifecycle ==
  /\ \A s \in Sessions : Life(s)!Init
  /\ [][\A s \in Sessions : Life(s)!Next \/ UNCHANGED Life(s)!vars]_vars

\* No handler waits for ever for the lock of the table.
LockAcquired ==
  \A s \in Sessions :
    handler[s] \in {"create", "remove"} ~> handler[s] \in {"start", "over"} \/ ~Running
=============================================================================
