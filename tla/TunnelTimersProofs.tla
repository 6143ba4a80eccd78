------------------------- MODULE TunnelTimersProofs -------------------------
(***************************************************************************)
(* The clocks of browser and server fit together: for every frequency and  *)
(* timeout, every delay shorter than the timeout less a heartbeat, and any *)
(* number of messages on their way, the browser gives up only a server     *)
(* that has stopped, and the client's keep-alive is never late.            *)
(***************************************************************************)
EXTENDS TunnelTimers, TLAPS

Types ==
  /\ writer \in {"running", "gone"} /\ sinceBeat \in 0..Heartbeat
  /\ downstream \in Seq(0..MaxDelay)
  /\ idle \in Nat /\ sinceKeepAlive \in Nat
  /\ (keepAlive = TRUE \/ keepAlive = FALSE) /\ (named = TRUE \/ named = FALSE)

\* How long ago, at most, the last message was written that has arrived: a
\* heartbeat before the next one, which is on its way or not yet due.
Reach(d, beat) == IF d = <<>> THEN beat ELSE d[1] + Heartbeat

\* A server that runs writes at least once in a heartbeat.
Gaps(d, beat) ==
  /\ d # <<>> => d[Len(d)] <= beat
  /\ \A i \in 1..(Len(d) - 1) : d[i] <= d[i + 1] + Heartbeat

Steady == writer = "running" => /\ Gaps(downstream, sinceBeat)
                                /\ idle <= Reach(downstream, sinceBeat)

\* The identifier, as long as it is on its way, is the first message and as old
\* as the client's attempt at a keep-alive.
Unnamed == named = FALSE =>
  downstream # <<>> /\ keepAlive = FALSE /\ sinceKeepAlive <= downstream[1]

Alive ==
  /\ keepAlive = TRUE => sinceKeepAlive <= KeepAliveFrequency
  /\ writer = "running" /\ keepAlive = FALSE =>
       sinceKeepAlive <= Reach(downstream, sinceBeat)

IInv == Types /\ Steady /\ Unnamed /\ Alive /\ GivesUpOnlySilence

-----------------------------------------------------------------------------
LEMMA SeqFacts ==
  ASSUME NEW S, NEW s \in Seq(S)
  PROVE  /\ Len(s) \in Nat /\ (s # <<>> <=> Len(s) > 0)
         /\ \A i \in 1..Len(s) : s[i] \in S
         /\ s # <<>> => 1 \in 1..Len(s) /\ Len(s) \in 1..Len(s)
OBVIOUS

\* One more message at the end.
LEMMA AppendKeeps ==
  ASSUME NEW d \in Seq(0..MaxDelay), NEW beat \in 0..Heartbeat, Gaps(d, beat)
  PROVE  /\ Append(d, 0) \in Seq(0..MaxDelay)
         /\ \A b \in Nat : Gaps(Append(d, 0), b)
         /\ Reach(d, beat) <= Reach(Append(d, 0), beat)
         /\ Reach(d, beat) <= Reach(Append(d, 0), 0)
         /\ d # <<>> => Append(d, 0) # <<>> /\ Append(d, 0)[1] = d[1]
<1> DEFINE e == Append(d, 0)
<1> USE TunnelTimersAssumption
<1>1. e \in Seq(0..MaxDelay) /\ Len(e) = Len(d) + 1 /\ Len(d) \in Nat /\ e # <<>>
  OBVIOUS
<1>2. e[Len(d) + 1] = 0 /\ \A i \in 1..Len(d) : e[i] = d[i] /\ d[i] \in 0..MaxDelay
  OBVIOUS
<1>3. d # <<>> => Len(d) > 0 OBVIOUS
<1>4. ASSUME NEW b \in Nat PROVE Gaps(e, b)
  <2>1. e[Len(e)] <= b BY <1>1, <1>2
  <2>2. ASSUME NEW i \in 1..(Len(e) - 1) PROVE e[i] <= e[i + 1] + Heartbeat
    <3>1. CASE i = Len(d) BY <3>1, <1>1, <1>2, <1>3, <2>2 DEF Gaps
    <3>2. CASE i # Len(d)
      <4>1. i \in 1..(Len(d) - 1) /\ i \in 1..Len(d) /\ i + 1 \in 1..Len(d)
        BY <3>2, <1>1, <2>2
      <4> QED BY <4>1, <1>2 DEF Gaps
    <3> QED BY <3>1, <3>2
  <2> QED BY <2>1, <2>2 DEF Gaps
<1>5. d # <<>> => e[1] = d[1] BY <1>2, <1>3, <1>1
<1>6. d = <<>> => e[1] = 0 BY <1>2
<1> QED BY <1>1, <1>2, <1>4, <1>5, <1>6 DEF Reach

\* The first message arrives.
LEMMA TailKeeps ==
  ASSUME NEW d \in Seq(0..MaxDelay), d # <<>>, NEW beat \in 0..Heartbeat
  PROVE  /\ Tail(d) \in Seq(0..MaxDelay)
         /\ Reach(Tail(d), beat) \in Nat
         /\ Gaps(d, beat) => Gaps(Tail(d), beat) /\ d[1] <= Reach(Tail(d), beat)
<1> DEFINE e == Tail(d)
<1> USE TunnelTimersAssumption
<1>1. e \in Seq(0..MaxDelay) /\ Len(e) = Len(d) - 1 /\ Len(d) \in Nat /\ Len(d) > 0
  OBVIOUS
<1>2. \A i \in 1..Len(e) : e[i] = d[i + 1] /\ e[i] \in 0..MaxDelay OBVIOUS
<1>3. e # <<>> <=> Len(e) > 0
  <2> HIDE DEF e
  <2> QED BY <1>1, SeqFacts
<1>4. Reach(e, beat) \in Nat BY <1>1, <1>2, <1>3 DEF Reach
<1>5. ASSUME Gaps(d, beat) PROVE Gaps(e, beat) /\ d[1] <= Reach(e, beat)
  <2>1. e # <<>> => e[Len(e)] <= beat BY <1>5, <1>1, <1>2, <1>3 DEF Gaps
  <2>2. ASSUME NEW i \in 1..(Len(e) - 1) PROVE e[i] <= e[i + 1] + Heartbeat
    <3>1. i + 1 \in 1..(Len(d) - 1) /\ i \in 1..Len(e) /\ i + 1 \in 1..Len(e)
      BY <1>1
    <3>2. d[i + 1] <= d[(i + 1) + 1] + Heartbeat BY <3>1, <1>5 DEF Gaps
    <3> QED BY <3>1, <3>2, <1>2
  <2>3. CASE e = <<>> BY <2>3, <1>5, <1>1, <1>3, <2>1, <2>2 DEF Gaps, Reach
  <2>4. CASE e # <<>>
    <3>1. 1 \in 1..(Len(d) - 1) /\ 1 \in 1..Len(e) BY <2>4, <1>1, <1>3
    <3>2. d[1] <= d[1 + 1] + Heartbeat BY <3>1, <1>5 DEF Gaps
    <3>3. d[1] <= Reach(e, beat) BY <3>1, <3>2, <2>4, <1>2 DEF Reach
    <3> QED BY <3>3, <2>1, <2>2 DEF Gaps
  <2> QED BY <2>3, <2>4
<1> QED BY <1>1, <1>4, <1>5

\* All messages travel on.
LEMMA TravelKeeps ==
  ASSUME NEW d \in Seq(0..MaxDelay), NEW beat \in 0..Heartbeat,
         \A i \in DOMAIN d : d[i] < MaxDelay
  PROVE  LET e == [i \in DOMAIN d |-> d[i] + 1]
         IN  /\ e \in Seq(0..MaxDelay)
             /\ Gaps(d, beat) => Gaps(e, beat + 1)
             /\ Reach(e, beat + 1) = Reach(d, beat) + 1
             /\ d # <<>> => e # <<>> /\ e[1] = d[1] + 1
<1> DEFINE e == [i \in DOMAIN d |-> d[i] + 1]
<1> USE TunnelTimersAssumption
<1>1. DOMAIN d = 1..Len(d) /\ Len(d) \in Nat OBVIOUS
<1>2. \A i \in 1..Len(d) : d[i] \in 0..MaxDelay /\ e[i] = d[i] + 1 /\ e[i] \in 0..MaxDelay
  BY <1>1
<1>3. e \in [1..Len(d) -> 0..MaxDelay] BY <1>1, <1>2
<1>4. e \in Seq(0..MaxDelay) /\ Len(e) = Len(d) BY <1>1, <1>3
<1>5. d # <<>> <=> Len(d) > 0 BY <1>1
<1>6. e # <<>> <=> Len(d) > 0 BY <1>4
<1>7. Len(d) > 0 => 1 \in 1..Len(d) /\ Len(d) \in 1..Len(d) BY <1>1
<1>8. Gaps(d, beat) => Gaps(e, beat + 1)
  <2> SUFFICES ASSUME Gaps(d, beat) PROVE Gaps(e, beat + 1) OBVIOUS
  <2>1. e # <<>> => e[Len(e)] <= beat + 1
    <3> SUFFICES ASSUME Len(d) > 0 PROVE e[Len(d)] <= beat + 1 BY <1>4, <1>6
    <3> HIDE DEF e
    <3>1. d[Len(d)] <= beat BY <1>5 DEF Gaps
    <3> QED BY <3>1, <1>2, <1>7
  <2>2. ASSUME NEW i \in 1..(Len(e) - 1) PROVE e[i] <= e[i + 1] + Heartbeat
    <3> HIDE DEF e
    <3>1. i \in 1..Len(d) /\ i + 1 \in 1..Len(d) /\ i \in 1..(Len(d) - 1) BY <1>1, <1>4
    <3>2. d[i] <= d[i + 1] + Heartbeat BY <3>1 DEF Gaps
    <3>3. e[i] = d[i] + 1 /\ e[i + 1] = d[i + 1] + 1 BY <3>1, <1>2
    <3>4. d[i] \in Nat /\ d[i + 1] \in Nat BY <3>1, <1>2
    <3>5. \A a, b \in Nat : a <= b + Heartbeat => a + 1 <= (b + 1) + Heartbeat OBVIOUS
    <3>6. d[i] + 1 <= (d[i + 1] + 1) + Heartbeat BY <3>2, <3>4, <3>5
    <3> QED BY <3>3, <3>6
  <2> QED BY <2>1, <2>2 DEF Gaps
<1>9. Len(d) > 0 => e[1] = d[1] + 1 BY <1>2, <1>7
<1>10. Reach(e, beat + 1) = Reach(d, beat) + 1
  <2> HIDE DEF e
  <2> QED BY <1>2, <1>5, <1>6, <1>7, <1>9 DEF Reach
<1> QED BY <1>4, <1>5, <1>6, <1>8, <1>9, <1>10

\* What can be on its way is not older than a heartbeat and a delay.
LEMMA ReachBound ==
  ASSUME NEW d \in Seq(0..MaxDelay), NEW beat \in 0..Heartbeat
  PROVE  Reach(d, beat) \in Nat /\ Reach(d, beat) <= Heartbeat + MaxDelay
<1>1. d # <<>> => d[1] \in 0..MaxDelay BY SeqFacts
<1> QED BY <1>1, TunnelTimersAssumption DEF Reach
-----------------------------------------------------------------------------
LEMMA InitIInv == Init => IInv
<1> SUFFICES ASSUME Init PROVE IInv OBVIOUS
<1> USE TunnelTimersAssumption DEF Init
<1>1. <<0>> \in Seq(0..MaxDelay) /\ Len(<<0>>) = 1 /\ <<0>>[1] = 0 /\ <<0>> # <<>> OBVIOUS
<1>2. Types BY <1>1 DEF Types
<1>3. Steady BY <1>1 DEF Steady, Gaps, Reach
<1>4. Unnamed /\ Alive /\ GivesUpOnlySilence
  BY <1>1 DEF Unnamed, Alive, Reach, GivesUpOnlySilence
<1> QED BY <1>2, <1>3, <1>4 DEF IInv

\* The server writes.
LEMMA BeatIInv == IInv /\ Beat => IInv'
<1> SUFFICES ASSUME IInv, Beat PROVE IInv' OBVIOUS
<1> USE TunnelTimersAssumption DEF IInv
<1>1. /\ writer = "running" /\ sinceBeat' = 0 /\ downstream' = Append(downstream, 0)
      /\ UNCHANGED <<writer, state, idle, named, keepAlive, sinceKeepAlive>>
  BY DEF Beat, browser, client
<1>2. Gaps(downstream, sinceBeat) /\ idle <= Reach(downstream, sinceBeat)
  BY <1>1 DEF Steady
<1>3. downstream \in Seq(0..MaxDelay) /\ sinceBeat \in 0..Heartbeat /\ 0 \in 0..Heartbeat
  BY DEF Types
<1>4. /\ downstream' \in Seq(0..MaxDelay) /\ Gaps(downstream', sinceBeat')
      /\ Reach(downstream, sinceBeat) <= Reach(downstream', sinceBeat')
      /\ downstream # <<>> => downstream' # <<>> /\ downstream'[1] = downstream[1]
  BY <1>1, <1>2, <1>3, AppendKeeps
<1>5. /\ Reach(downstream, sinceBeat) \in Nat /\ Reach(downstream', sinceBeat') \in Nat
  BY <1>1, <1>3, <1>4, ReachBound
<1>6. Types' BY <1>1, <1>3, <1>4 DEF Types
<1>7. Steady' BY <1>1, <1>2, <1>4, <1>5 DEF Steady, Types
<1>8. Unnamed' BY <1>1, <1>4 DEF Unnamed
<1>9. Alive' BY <1>1, <1>4, <1>5 DEF Alive, Types
<1> QED BY <1>1, <1>6, <1>7, <1>8, <1>9 DEF GivesUpOnlySilence

LEMMA FrameIInv == IInv /\ Frame => IInv'
<1> SUFFICES ASSUME IInv, Frame PROVE IInv' OBVIOUS
<1> USE TunnelTimersAssumption DEF IInv
<1>1. /\ writer = "running" /\ downstream' = Append(downstream, 0)
      /\ UNCHANGED <<writer, sinceBeat, state, idle, named, keepAlive, sinceKeepAlive>>
  BY DEF Frame, server, browser, client
<1>2. Gaps(downstream, sinceBeat) /\ idle <= Reach(downstream, sinceBeat)
  BY <1>1 DEF Steady
<1>3. downstream \in Seq(0..MaxDelay) /\ sinceBeat \in 0..Heartbeat /\ sinceBeat \in Nat
  BY DEF Types
<1>4. /\ downstream' \in Seq(0..MaxDelay) /\ Gaps(downstream', sinceBeat')
      /\ Reach(downstream, sinceBeat) <= Reach(downstream', sinceBeat')
      /\ downstream # <<>> => downstream' # <<>> /\ downstream'[1] = downstream[1]
  BY <1>1, <1>2, <1>3, AppendKeeps
<1>5. /\ Reach(downstream, sinceBeat) \in Nat /\ Reach(downstream', sinceBeat') \in Nat
  BY <1>1, <1>3, <1>4, ReachBound
<1>6. Types' BY <1>1, <1>3, <1>4 DEF Types
<1>7. Steady' BY <1>1, <1>2, <1>4, <1>5 DEF Steady, Types
<1>8. Unnamed' BY <1>1, <1>4 DEF Unnamed
<1>9. Alive' BY <1>1, <1>4, <1>5 DEF Alive, Types
<1> QED BY <1>1, <1>6, <1>7, <1>8, <1>9 DEF GivesUpOnlySilence

\* A message arrives: the browser's clock is reset; the keep-alive is sent or set,
\* unless the message is the identifier.
LEMMA MessageIInv == IInv /\ OnMessage => IInv'
<1> SUFFICES ASSUME IInv, OnMessage PROVE IInv' OBVIOUS
<1> USE TunnelTimersAssumption DEF IInv
<1>1. /\ downstream # <<>> /\ downstream' = Tail(downstream)
      /\ idle' = 0 /\ state' = "open" /\ named' = TRUE
      /\ UNCHANGED <<writer, sinceBeat>>
  BY DEF OnMessage, ResetTimers, server
<1>2. downstream \in Seq(0..MaxDelay) /\ sinceBeat \in 0..Heartbeat BY DEF Types
<1>3. /\ downstream' \in Seq(0..MaxDelay) /\ Reach(downstream', sinceBeat') \in Nat
      /\ writer = "running" =>
           /\ Gaps(downstream', sinceBeat')
           /\ downstream[1] <= Reach(downstream', sinceBeat')
  BY <1>1, <1>2, TailKeeps DEF Steady
<1>4. Steady' BY <1>1, <1>3 DEF Steady
<1>5. Unnamed' BY <1>1 DEF Unnamed
<1>6. CASE named = FALSE
  <2>1. UNCHANGED <<keepAlive, sinceKeepAlive>> BY <1>6 DEF OnMessage, client
  <2>2. keepAlive' = FALSE /\ sinceKeepAlive <= downstream[1] BY <2>1, <1>6 DEF Unnamed
  <2>3. downstream[1] \in Nat BY <1>1, <1>2, SeqFacts
  <2>4. Alive' BY <2>1, <2>2, <2>3, <1>1, <1>3 DEF Alive, Types
  <2>5. Types' BY <2>1, <1>1, <1>2, <1>3 DEF Types
  <2> QED BY <2>4, <2>5, <1>1, <1>4, <1>5 DEF GivesUpOnlySilence
<1>7. CASE named = TRUE
  <2>1. CASE sinceKeepAlive < KeepAliveFrequency
    <3>1. keepAlive' = TRUE /\ sinceKeepAlive' = sinceKeepAlive
      BY <2>1, <1>7 DEF OnMessage, ScheduleKeepAlive
    <3>2. Alive' /\ Types' BY <3>1, <2>1, <1>1, <1>2, <1>3 DEF Alive, Types
    <3> QED BY <3>2, <1>1, <1>4, <1>5 DEF GivesUpOnlySilence
  <2>2. CASE ~(sinceKeepAlive < KeepAliveFrequency)
    <3>1. keepAlive' = FALSE /\ sinceKeepAlive' = 0
      BY <2>2, <1>7 DEF OnMessage, ScheduleKeepAlive, SendKeepAlive
    <3>2. Alive' /\ Types' BY <3>1, <1>1, <1>2, <1>3 DEF Alive, Types
    <3> QED BY <3>2, <1>1, <1>4, <1>5 DEF GivesUpOnlySilence
  <2> QED BY <2>1, <2>2
<1> QED BY <1>6, <1>7 DEF Types

\* Half a second passes.
LEMMA TickIInv == IInv /\ Tick => IInv'
<1> SUFFICES ASSUME IInv, Tick PROVE IInv' OBVIOUS
<1> USE TunnelTimersAssumption DEF IInv
<1>1. /\ state # "closed" /\ idle' = idle + 1
      /\ downstream' = [i \in DOMAIN downstream |-> downstream[i] + 1]
      /\ UNCHANGED <<writer, state, named, keepAlive>>
      /\ writer = "running" => sinceBeat' = sinceBeat + 1 /\ sinceBeat < Heartbeat
      /\ writer # "running" => sinceBeat' = sinceBeat
      /\ \A i \in DOMAIN downstream : downstream[i] < MaxDelay
      /\ keepAlive = TRUE => sinceKeepAlive < KeepAliveFrequency
  BY DEF Tick, Quiet
<1>2. downstream \in Seq(0..MaxDelay) /\ sinceBeat \in 0..Heartbeat BY DEF Types
<1>3. sinceKeepAlive' \in Nat /\ sinceKeepAlive' <= sinceKeepAlive + 1
  BY DEF Tick, Types
<1>4. /\ downstream' \in Seq(0..MaxDelay)
      /\ Gaps(downstream, sinceBeat) => Gaps(downstream', sinceBeat + 1)
      /\ Reach(downstream', sinceBeat + 1) = Reach(downstream, sinceBeat) + 1
      /\ downstream # <<>> => downstream' # <<>> /\ downstream'[1] = downstream[1] + 1
  BY <1>1, <1>2, TravelKeeps
<1>5. Reach(downstream, sinceBeat) \in Nat BY <1>2, ReachBound
<1>6. Types'
  <2>1. sinceBeat' \in 0..Heartbeat BY <1>1, <1>2
  <2>2. idle' \in Nat BY <1>1 DEF Types
  <2> QED BY <2>1, <2>2, <1>1, <1>3, <1>4 DEF Types
<1>7. Steady' BY <1>1, <1>4, <1>5 DEF Steady, Types
<1>8. Unnamed'
  <2>1. downstream # <<>> => downstream[1] \in Nat BY <1>2, SeqFacts
  <2> QED BY <2>1, <1>1, <1>3, <1>4 DEF Unnamed, Types
<1>9. Alive' BY <1>1, <1>3, <1>4, <1>5 DEF Alive, Types
<1> QED BY <1>1, <1>6, <1>7, <1>8, <1>9 DEF GivesUpOnlySilence

\* A server that runs is never silent for as long as the timeout.
LEMMA TimeOutIInv == IInv /\ TimeOut => IInv'
<1> SUFFICES ASSUME IInv, TimeOut PROVE IInv' OBVIOUS
<1> USE TunnelTimersAssumption DEF IInv
<1>1. /\ idle = ReceiveTimeout /\ state' = "closed"
      /\ UNCHANGED <<writer, sinceBeat, downstream, idle, named, keepAlive, sinceKeepAlive>>
  BY DEF TimeOut, server, client
<1>2. Reach(downstream, sinceBeat) \in Nat /\ Reach(downstream, sinceBeat) <= Heartbeat + MaxDelay
  BY ReachBound DEF Types
<1>3. writer # "running" BY <1>1, <1>2 DEF Steady
<1>4. GivesUpOnlySilence' BY <1>1, <1>3 DEF Types, GivesUpOnlySilence
<1> QED BY <1>1, <1>4 DEF Types, Steady, Unnamed, Alive

LEMMA StepIInv == IInv /\ [Next]_vars => IInv'
<1> SUFFICES ASSUME IInv, [Next]_vars PROVE IInv' OBVIOUS
<1>1. CASE WriterStops
  BY <1>1 DEF WriterStops, browser, client, IInv, Types, Steady, Unnamed, Alive,
     GivesUpOnlySilence
<1>2. CASE IgnorePing
  BY <1>2 DEF IgnorePing, server, browser, client, IInv, Types, Steady, Unnamed, Alive,
     GivesUpOnlySilence
<1>3. CASE KeepAliveDue
  <2>1. /\ keepAlive' = FALSE /\ sinceKeepAlive' = 0 /\ keepAlive
        /\ UNCHANGED <<writer, sinceBeat, downstream, state, idle, named>>
    BY <1>3 DEF KeepAliveDue, SendKeepAlive, server, browser
  <2>2. Reach(downstream, sinceBeat) \in Nat BY ReachBound DEF IInv, Types
  <2>3. named # FALSE BY <2>1 DEF IInv, Unnamed
  <2>4. Types' /\ Steady' /\ Unnamed' /\ GivesUpOnlySilence'
    BY <2>1, <2>3 DEF IInv, Types, Steady, Unnamed, GivesUpOnlySilence
  <2>5. Alive' BY <2>1, <2>2 DEF Alive
  <2> QED BY <2>4, <2>5 DEF IInv
<1>4. CASE PingDue
  BY <1>4 DEF PingDue, SendPing, server, client, IInv, Types, Steady, Unnamed, Alive,
     GivesUpOnlySilence
<1>5. CASE BecomeUnstable
  BY <1>5 DEF BecomeUnstable, server, client, IInv, Types, Steady, Unnamed, Alive,
     GivesUpOnlySilence
<1>6. CASE UNCHANGED vars
  BY <1>6 DEF vars, server, browser, client, IInv, Types, Steady, Unnamed, Alive,
     GivesUpOnlySilence
<1> QED BY <1>1, <1>2, <1>3, <1>4, <1>5, <1>6, BeatIInv, FrameIInv, MessageIInv, TickIInv,
           TimeOutIInv DEF Next, Timers

\* The inductive invariant: the ages of the messages on their way bound the
\* silences of server and client.
THEOREM InvariantHolds == Spec => []IInv
BY InitIInv, StepIInv, PTL DEF Spec

-----------------------------------------------------------------------------
\* The browser gives up only a server that has stopped writing.
THEOREM NoneGivenUpEarly == Spec => []GivesUpOnlySilence
<1>1. IInv => GivesUpOnlySilence BY DEF IInv
<1> QED BY <1>1, InvariantHolds, PTL

\* As long as the server writes, the client's keep-alive is not late.
THEOREM KeepAliveNotLate == Spec => []KeepAliveInTime
<1>1. IInv => KeepAliveInTime
  <2> SUFFICES ASSUME IInv, writer = "running" PROVE sinceKeepAlive <= LongestGap
    BY DEF KeepAliveInTime
  <2>1. Reach(downstream, sinceBeat) \in Nat
        /\ Reach(downstream, sinceBeat) <= Heartbeat + MaxDelay
    BY ReachBound DEF IInv, Types
  <2>2. \/ sinceKeepAlive <= KeepAliveFrequency
        \/ sinceKeepAlive <= Reach(downstream, sinceBeat)
    BY DEF IInv, Alive, Types
  <2> QED BY <2>1, <2>2, TunnelTimersAssumption DEF IInv, Types, LongestGap, Larger
<1> QED BY <1>1, InvariantHolds, PTL
=============================================================================
