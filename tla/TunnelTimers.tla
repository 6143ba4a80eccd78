---------------------------- MODULE TunnelTimers ----------------------------
(***************************************************************************)
(* The clocks of a connection.  The browser's WebSocketTunnel takes a      *)
(* server it has not heard of for UnstableThreshold for unstable and for   *)
(* ReceiveTimeout for gone, and pings it at most every PingFrequency.  The *)
(* server writes a nop every Heartbeat and frames as they come, and takes  *)
(* a ping for an empty instruction, which it ignores.  Guacamole.Client    *)
(* has a keep-alive of its own, a nop: its timer is set by the instructions*)
(* received and never by itself, so that it depends on the server's nops.  *)
(*                                                                         *)
(* A tick is half a second.  A timer that is due fires before the next     *)
(* tick; among what happens in one tick any order is possible.             *)
(***************************************************************************)
EXTENDS Integers, Sequences

CONSTANTS
  PingFrequency, UnstableThreshold, ReceiveTimeout,   \* of the browser
  KeepAliveFrequency,                                 \* of the client
  Heartbeat,                                          \* of the server
  MaxDelay,     \* bound: ticks a message travels
  MaxInFlight   \* bound: messages that travel when a frame is written

ASSUME TunnelTimersAssumption ==
  /\ PingFrequency \in Nat \ {0} /\ UnstableThreshold \in Nat \ {0}
  /\ ReceiveTimeout \in Nat /\ UnstableThreshold < ReceiveTimeout
  /\ KeepAliveFrequency \in Nat \ {0}
  /\ Heartbeat \in Nat \ {0} /\ MaxDelay \in Nat /\ MaxInFlight \in Nat \ {0}
  /\ Heartbeat + MaxDelay < ReceiveTimeout

None == -1   \* a timer that is not set

VARIABLES
  writer,       \* the writeWorker: "running" or "gone", its connection open
  sinceBeat,    \* ticks since its ticker fired
  downstream,   \* for every message on its way to the browser, ticks it travels
  state,        \* of the tunnel: "connecting", "open", "unstable", "closed"
  idle,         \* ticks since resetTimers
  sincePing,    \* ticks since lastSentPing, up to PingFrequency
  pingTimer,    \* ticks until the next ping, or None
  pings,        \* pings on their way to the server
  named,        \* the tunnel has its identifier: what follows goes to the client
  keepAlive,    \* the timer of the client's next keep-alive is set
  sinceKeepAlive   \* ticks since lastSentKeepAlive, up to Overdue

server  == <<writer, sinceBeat>>
browser == <<state, idle, sincePing, pingTimer>>
client  == <<keepAlive, sinceKeepAlive>>
vars    == <<server, downstream, browser, pings, named, client>>

Larger(a, b) == IF a > b THEN a ELSE b

\* The longest a client goes without a keep-alive, and one more.
LongestGap == Larger(KeepAliveFrequency, Heartbeat + MaxDelay)
Overdue    == LongestGap + 1

\* The socket has just opened; the identifier of the session is on its way.  The
\* keep-alive that connect sends found the tunnel unconnected and went nowhere.
Init ==
  /\ writer = "running" /\ sinceBeat = 0 /\ downstream = <<0>>
  /\ state = "connecting" /\ idle = 0
  /\ sincePing = 0 /\ pingTimer = PingFrequency /\ pings = 0
  /\ named = FALSE /\ keepAlive = FALSE /\ sinceKeepAlive = 0

-----------------------------------------------------------------------------
(* The server                                                              *)

Beat ==
  /\ writer = "running" /\ sinceBeat = Heartbeat
  /\ sinceBeat' = 0 /\ downstream' = Append(downstream, 0)
  /\ UNCHANGED <<writer, browser, pings, named, client>>

Frame ==
  /\ writer = "running" /\ Len(downstream) < MaxInFlight
  /\ downstream' = Append(downstream, 0)
  /\ UNCHANGED <<server, browser, pings, named, client>>

\* The writer returns; the connection stays open until the session is removed.
WriterStops ==
  /\ writer = "running" /\ writer' = "gone"
  /\ UNCHANGED <<sinceBeat, downstream, browser, pings, named, client>>

\* The handler of the empty opcode.
IgnorePing ==
  /\ pings > 0 /\ pings' = pings - 1
  /\ UNCHANGED <<server, downstream, browser, named, client>>

-----------------------------------------------------------------------------
(* The browser                                                             *)

Connected == state \in {"open", "unstable"}

\* sendMessage sends nothing unless the tunnel is connected; the time is noted.
SendPing ==
  /\ pings' = IF Connected THEN pings + 1 ELSE pings
  /\ sincePing' = 0 /\ pingTimer' = None

\* Faulty: a timer that runs is left alone.
ResetUnlessRunning ==
  /\ UNCHANGED idle
  /\ IF sincePing >= PingFrequency THEN SendPing
     ELSE pingTimer' = PingFrequency - sincePing /\ UNCHANGED <<sincePing, pings>>

ResetTimers ==
  /\ idle' = 0
  /\ IF sincePing >= PingFrequency THEN SendPing
     ELSE pingTimer' = PingFrequency - sincePing /\ UNCHANGED <<sincePing, pings>>

SendKeepAlive == keepAlive' = FALSE /\ sinceKeepAlive' = 0

\* Faulty: what is overdue is left to a timer that has fired.
ScheduleAhead ==
  /\ keepAlive' = (sinceKeepAlive < KeepAliveFrequency)
  /\ UNCHANGED sinceKeepAlive

\* The timer runs out when the client's last keep-alive is KeepAliveFrequency old.
ScheduleKeepAlive ==
  IF sinceKeepAlive < KeepAliveFrequency
  THEN keepAlive' = TRUE /\ UNCHANGED sinceKeepAlive
  ELSE SendKeepAlive

\* The first message is the identifier and stays with the tunnel.
OnMessage ==
  /\ state # "closed" /\ downstream # <<>>
  /\ downstream' = Tail(downstream)
  /\ ResetTimers /\ state' = "open" /\ named' = TRUE
  /\ IF named THEN ScheduleKeepAlive ELSE UNCHANGED client
  /\ UNCHANGED server

KeepAliveDue ==
  /\ keepAlive /\ sinceKeepAlive = KeepAliveFrequency /\ SendKeepAlive
  /\ UNCHANGED <<server, downstream, browser, pings, named>>

PingDue ==
  /\ state # "closed" /\ pingTimer = 0 /\ SendPing
  /\ UNCHANGED <<server, downstream, state, idle, named, client>>

BecomeUnstable ==
  /\ state \in {"connecting", "open"} /\ idle = UnstableThreshold
  /\ state' = "unstable"
  /\ UNCHANGED <<server, downstream, idle, sincePing, pingTimer, pings, named, client>>

\* Faulty: only a tunnel that works times out.
TimeOutIfOpen ==
  /\ state = "open" /\ idle = ReceiveTimeout
  /\ state' = "closed" /\ pingTimer' = None
  /\ UNCHANGED <<server, downstream, idle, sincePing, pings, named, client>>

TimeOut ==
  /\ state # "closed" /\ idle = ReceiveTimeout
  /\ state' = "closed" /\ pingTimer' = None
  /\ UNCHANGED <<server, downstream, idle, sincePing, pings, named, client>>

-----------------------------------------------------------------------------
\* Nothing is due.
Quiet ==
  /\ writer = "running" => sinceBeat < Heartbeat
  /\ \A i \in DOMAIN downstream : downstream[i] < MaxDelay
  /\ idle < ReceiveTimeout /\ pingTimer # 0 /\ pings = 0
  /\ idle = UnstableThreshold => state = "unstable"
  /\ keepAlive => sinceKeepAlive < KeepAliveFrequency

Tick ==
  /\ state # "closed" /\ Quiet
  /\ idle' = idle + 1
  /\ sinceBeat' = IF writer = "running" THEN sinceBeat + 1 ELSE sinceBeat
  /\ downstream' = [i \in DOMAIN downstream |-> downstream[i] + 1]
  /\ sincePing' = IF sincePing < PingFrequency THEN sincePing + 1 ELSE sincePing
  /\ pingTimer' = IF pingTimer = None THEN None ELSE pingTimer - 1
  /\ sinceKeepAlive' = IF sinceKeepAlive < Overdue THEN sinceKeepAlive + 1 ELSE sinceKeepAlive
  /\ UNCHANGED <<writer, state, pings, named, keepAlive>>

Timers == Beat \/ IgnorePing \/ OnMessage \/ PingDue \/ KeepAliveDue \/ BecomeUnstable \/ TimeOut

Next == Timers \/ Frame \/ WriterStops \/ Tick

Spec == Init /\ [][Next]_vars

\* Time passes and what is due happens.
FairSpec == Spec /\ WF_vars(Tick) /\ WF_vars(Timers)

-----------------------------------------------------------------------------
TypeOK ==
  /\ writer \in {"running", "gone"} /\ sinceBeat \in 0..Heartbeat
  /\ downstream \in Seq(0..MaxDelay) /\ Len(downstream) <= MaxInFlight + 1
  /\ state \in {"connecting", "open", "unstable", "closed"}
  /\ idle \in 0..ReceiveTimeout
  /\ sincePing \in 0..PingFrequency /\ pingTimer \in {None} \cup 0..PingFrequency
  /\ pings \in 0..1
  /\ named \in BOOLEAN /\ keepAlive \in BOOLEAN /\ sinceKeepAlive \in 0..Overdue

\* The browser gives up a server only when it has stopped writing: heartbeat,
\* delay and timeout fit together.
GivesUpOnlySilence == state = "closed" => writer = "gone"

\* A keep-alive does not schedule the next one, which only an instruction received
\* does: as long as the server writes, the nops it writes are enough for the client
\* never to be silent for longer than its frequency or the longest pause between them.
KeepAliveInTime == writer = "running" => sinceKeepAlive <= LongestGap

\* A session whose writer has stopped, while something else keeps its connection
\* open, is given up by the browser.
SilenceNoticed == writer = "gone" ~> state = "closed"
=============================================================================
