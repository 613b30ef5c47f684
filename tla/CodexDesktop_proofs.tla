------------------------- MODULE CodexDesktop_proofs -------------------------
(***************************************************************************)
(* What holds of the two halves of the Codex Desktop connector.            *)
(*                                                                         *)
(* DesktopConnector, for any number of reconnect attempts and of uses of   *)
(* the button: its types, when the heartbeat runs, and that retrying never *)
(* ends silently.                                                          *)
(*                                                                         *)
(* DesktopEvents, for any number of people, threads, requests and          *)
(* connections: the types, who decides an approval, which request an       *)
(* answer decides, and whose files a turn offers.                          *)
(***************************************************************************)
EXTENDS DesktopConnector, DesktopEvents, TLAPS

(***************************************************************************)
(* The connection.                                                         *)
(***************************************************************************)
Conns == [state: States, timer: Timers, beating: BOOLEAN, gaveUp: BOOLEAN]

Beats(k) == k.beating <=> k.state = "connected"

GivenUp(k) == k.state = "not_connected" /\ k.gaveUp

ConnectorInv == ConnectorTypeOK /\ BeatsWhileConnected /\ NeverAbandoned

---------------------------------------------------------------------------
LEMMA TimersExist ==
  /\ NoTimer \in Timers /\ FirstTimer \in Timers /\ FirstTimer # NoTimer
  /\ \A n \in 1 .. MaxReconnectAttempts : Backoff(n) \in Timers /\ Backoff(n) # NoTimer
<1>1. NoTimer.kind = "none" /\ FirstTimer.kind = "first" /\ \A n : Backoff(n).kind = "backoff"
  BY DEF NoTimer, FirstTimer, Backoff
<1> QED BY <1>1 DEF Timers

(* Each way of changing the connector's own state keeps its types and its   *)
(* heartbeat.  Scheduling leaves a timer armed or gives up.                 *)
LEMMA Scheduling ==
  ASSUME NEW k \in Conns, Beats(k), k.timer # NoTimer \/ k.state # "connected", NEW n \in Nat \ {0}
  PROVE  /\ ScheduleReconnect(k, n) \in Conns /\ Beats(ScheduleReconnect(k, n))
         /\ ScheduleReconnect(k, n).timer # NoTimer \/ GivenUp(ScheduleReconnect(k, n))
         /\ n \in 1 .. MaxReconnectAttempts => ScheduleReconnect(k, n).state = k.state
                                               /\ ScheduleReconnect(k, n).timer # NoTimer
<1>1. CASE k.timer # NoTimer
  BY <1>1 DEF ScheduleReconnect
<1>2. CASE k.timer = NoTimer /\ n > MaxReconnectAttempts
  <2>1. ScheduleReconnect(k, n) = [k EXCEPT !.state = "not_connected", !.gaveUp = TRUE]
    BY <1>2 DEF ScheduleReconnect
  <2>2. n \notin 1 .. MaxReconnectAttempts
    BY <1>2, ConnectorAssumption
  <2> QED BY <1>2, <2>1, <2>2 DEF Conns, Beats, States, GivenUp
<1>3. CASE k.timer = NoTimer /\ ~(n > MaxReconnectAttempts)
  <2>1. n \in 1 .. MaxReconnectAttempts
    BY <1>3, ConnectorAssumption
  <2>2. Backoff(n) \in Timers /\ Backoff(n) # NoTimer
    BY <2>1, TimersExist
  <2>3. ScheduleReconnect(k, n) = [k EXCEPT !.timer = Backoff(n)]
    BY <1>3 DEF ScheduleReconnect
  <2> QED BY <2>2, <2>3 DEF Conns, Beats
<1> QED BY <1>1, <1>2, <1>3

LEMMA FirstRetry ==
  ASSUME NEW k \in Conns, Beats(k)
  PROVE  /\ ScheduleFirstConnectRetry(k) \in Conns /\ Beats(ScheduleFirstConnectRetry(k))
         /\ ScheduleFirstConnectRetry(k).timer # NoTimer
<1>1. CASE k.timer = NoTimer
  BY <1>1, TimersExist DEF ScheduleFirstConnectRetry, Conns, Beats
<1>2. CASE k.timer # NoTimer
  BY <1>2 DEF ScheduleFirstConnectRetry
<1> QED BY <1>1, <1>2

(* A drop leaves a timer armed, unless it was noticed before.               *)
LEMMA Dropping ==
  ASSUME NEW k \in Conns, Beats(k)
  PROVE  /\ HandleDisconnect(k) \in Conns /\ Beats(HandleDisconnect(k))
         /\ HandleDisconnect(k).state = "reconnecting"
         /\ HandleDisconnect(k).timer # NoTimer \/ HandleDisconnect(k) = k
<1> DEFINE d == [k EXCEPT !.state = "reconnecting", !.beating = FALSE, !.gaveUp = FALSE]
<1>1. CASE k.state = "reconnecting"
  BY <1>1 DEF HandleDisconnect
<1>2. CASE k.state # "reconnecting"
  <2>1. d \in Conns /\ Beats(d) /\ d.state = "reconnecting"
    BY DEF Conns, Beats, States
  <2>2. 1 \in 1 .. MaxReconnectAttempts /\ 1 \in Nat \ {0}
    BY ConnectorAssumption
  <2>3. HandleDisconnect(k) = ScheduleReconnect(d, 1)
    BY <1>2 DEF HandleDisconnect
  <2> HIDE DEF d
  <2> QED BY <2>1, <2>2, <2>3, Scheduling
<1> QED BY <1>1, <1>2

(* A call that failed leaves a timer armed or has given up; only a manual   *)
(* one that failed while a drop is being handled leaves things as they are. *)
LEMMA Failing ==
  ASSUME NEW k \in Conns, Beats(k), NEW c \in Calls
  PROVE  /\ Failed(k, c) \in Conns /\ Beats(Failed(k, c))
         /\ \/ Failed(k, c).timer # NoTimer
            \/ GivenUp(Failed(k, c))
            \/ ~IsTimers(c) /\ Failed(k, c) = k /\ k.state = "reconnecting"
<1> DEFINE i == InitializeFailed(k)
<1>1. /\ i \in Conns /\ Beats(i)
      /\ i.timer # NoTimer \/ (i = k /\ k.state = "reconnecting")
  BY FirstRetry DEF InitializeFailed
<1>2. CASE c.who = "manual"
  <2>1. Failed(k, c) = i
    BY <1>2 DEF Failed
  <2> QED BY <1>1, <1>2, <2>1 DEF IsTimers
<1>3. CASE c.who = "first"
  <2>1. Failed(k, c) = ScheduleFirstConnectRetry(k)
    BY <1>3 DEF Failed
  <2> QED BY <2>1, FirstRetry
<1>4. CASE c.who = "backoff"
  <2>1. Failed(k, c) = ScheduleReconnect(i, c.attempt + 1)
    BY <1>4 DEF Failed
  <2>2. c.attempt + 1 \in Nat \ {0}
    BY ConnectorAssumption DEF Calls
  <2>3. i.timer # NoTimer \/ i.state # "connected"
    BY <1>1
  <2> HIDE DEF i
  <2> QED BY <1>1, <2>1, <2>2, <2>3, Scheduling
<1> QED BY <1>2, <1>3, <1>4 DEF Calls

LEMMA Connecting ==
  ASSUME NEW k \in Conns
  PROVE  Connected(k) \in Conns /\ Beats(Connected(k)) /\ Connected(k).state = "connected"
BY DEF Connected, Conns, Beats, States

---------------------------------------------------------------------------
(* Requesting initialize: the call is awaited, or it has failed already.    *)
Clients == [up: BOOLEAN, initialized: BOOLEAN]

LEMMA Requesting ==
  ASSUME NEW k \in Conns, Beats(k), NEW cl \in Clients, NEW cs \in Seq(Calls), NEW c \in Calls,
         RequestInitialize(k, cl, cs, c)
  PROVE  /\ conn' \in Conns /\ Beats(conn') /\ client' \in Clients /\ calls' \in Seq(Calls)
         /\ \/ calls' = Append(cs, c)
            \/ calls' = cs /\ conn'.timer # NoTimer
            \/ calls' = cs /\ GivenUp(conn')
            \/ calls' = cs /\ ~IsTimers(c) /\ conn' = k /\ k.state = "reconnecting"
<1>1. CASE client' = [cl EXCEPT !.up = TRUE] /\ calls' = Append(cs, c) /\ conn' = k
  <2>1. client' \in Clients
    BY <1>1 DEF Clients
  <2>2. calls' \in Seq(Calls)
    BY <1>1
  <2> QED BY <1>1, <2>1, <2>2
<1>2. CASE client' = cl /\ calls' = cs /\ conn' = Failed(k, c)
  BY <1>2, Failing
<1> QED BY <1>1, <1>2 DEF RequestInitialize

(* Who is trying, in terms of the two queues of calls.                      *)
LEMMA TryingIs ==
  /\ Trying <=> (\E i \in DOMAIN calls : IsTimers(calls[i])) \/ (\E i \in DOMAIN late : IsTimers(late[i]))
  /\ Trying' <=> (\E i \in DOMAIN calls' : IsTimers(calls'[i])) \/ (\E i \in DOMAIN late' : IsTimers(late'[i]))
BY DEF Trying, ToSet

(* The head of a queue of calls has settled: unless it was a timer's, who   *)
(* was trying still is.                                                     *)
LEMMA TailTries ==
  ASSUME NEW s \in Seq(Calls), s # <<>>
  PROVE  /\ Tail(s) \in Seq(Calls) /\ Head(s) \in Calls
         /\ (\E i \in DOMAIN s : IsTimers(s[i])) =>
              IsTimers(Head(s)) \/ \E i \in DOMAIN Tail(s) : IsTimers(Tail(s)[i])
<1>1. /\ Tail(s) \in Seq(Calls) /\ Head(s) \in Calls /\ Head(s) = s[1]
      /\ Len(s) \in Nat /\ DOMAIN s = 1 .. Len(s) /\ DOMAIN Tail(s) = 1 .. Len(s) - 1
      /\ \A i \in 1 .. Len(s) - 1 : Tail(s)[i] = s[i + 1]
  OBVIOUS
<1>2. ASSUME NEW i \in DOMAIN s, IsTimers(s[i]), i # 1
      PROVE  \E j \in DOMAIN Tail(s) : IsTimers(Tail(s)[j])
  <2>1. i - 1 \in DOMAIN Tail(s) /\ Tail(s)[i - 1] = s[i]
    BY <1>1, <1>2
  <2> QED BY <1>2, <2>1
<1> QED BY <1>1, <1>2

---------------------------------------------------------------------------
(* What a step of the connector has to establish.                           *)
LEMMA Established ==
  ASSUME conn' \in Conns, Beats(conn'), client' \in Clients,
         calls' \in Seq(Calls), late' \in Seq(Calls),
         heartbeat' \in {"none", "current", "closed"},
         booted' \in BOOLEAN, manuals' \in 0 .. MaxManual,
         \/ conn'.timer # NoTimer
         \/ GivenUp(conn')
         \/ conn'.state = "connected"
         \/ Trying'
         \/ /\ conn'.state = "not_connected"
            /\ booted' => calls' # <<>> \/ late' # <<>>
  PROVE  ConnectorInv'
<1>1. ConnectorTypeOK'
  BY DEF ConnectorTypeOK, Conns, Clients
<1>2. BeatsWhileConnected'
  BY DEF BeatsWhileConnected, Beats
<1>3. Trying' => calls' # <<>> \/ late' # <<>>
  BY TryingIs
<1>4. NeverAbandoned'
  BY <1>3 DEF NeverAbandoned, GivenUp
<1> QED BY <1>1, <1>2, <1>4 DEF ConnectorInv

(* What holds before every step, in the words of the lemmas above.          *)
LEMMA Established0 ==
  ASSUME ConnectorInv
  PROVE  /\ conn \in Conns /\ Beats(conn) /\ client \in Clients
         /\ calls \in Seq(Calls) /\ late \in Seq(Calls)
         /\ heartbeat \in {"none", "current", "closed"}
         /\ booted \in BOOLEAN /\ manuals \in 0 .. MaxManual
         /\ \/ conn.timer # NoTimer
            \/ GivenUp(conn)
            \/ conn.state = "connected"
            \/ Trying
            \/ /\ conn.state = "not_connected"
               /\ booted => calls # <<>> \/ late # <<>>
<1>1. /\ conn \in Conns /\ Beats(conn) /\ client \in Clients
      /\ calls \in Seq(Calls) /\ late \in Seq(Calls)
      /\ heartbeat \in {"none", "current", "closed"}
      /\ booted \in BOOLEAN /\ manuals \in 0 .. MaxManual
  BY DEF ConnectorInv, ConnectorTypeOK, BeatsWhileConnected, Conns, Clients, Beats
<1>2. conn.state \in {"not_connected", "connected", "reconnecting"}
  BY <1>1 DEF Conns, States
<1>3. NeverAbandoned
  BY DEF ConnectorInv
<1> QED BY <1>1, <1>2, <1>3 DEF NeverAbandoned, GivenUp

LEMMA ConnectorStarts == ConnectorInit => ConnectorInv
<1> SUFFICES ASSUME ConnectorInit PROVE ConnectorInv
  OBVIOUS
<1>1. NoTimer \in Timers /\ 0 \in 0 .. MaxManual
  BY TimersExist, ConnectorAssumption
<1>2. conn \in Conns
  BY <1>1 DEF ConnectorInit, Conns, States
<1>3. ConnectorTypeOK
  <2>1. {calls, late} \subseteq Seq(Calls)
    BY DEF ConnectorInit
  <2>2. client \in [up: BOOLEAN, initialized: BOOLEAN]
    BY DEF ConnectorInit, FreshClient
  <2>3. heartbeat \in {"none", "current", "closed"} /\ booted \in BOOLEAN /\ manuals \in 0 .. MaxManual
    BY <1>1 DEF ConnectorInit
  <2> QED BY <1>2, <2>1, <2>2, <2>3 DEF ConnectorTypeOK, Conns
<1>4. BeatsWhileConnected /\ NeverAbandoned
  BY DEF ConnectorInit, BeatsWhileConnected, NeverAbandoned
<1> QED BY <1>3, <1>4 DEF ConnectorInv

(* initialize() at start-up and from the button.                            *)
LEMMA InitializeStep ==
  ASSUME ConnectorInv, Initialize, UNCHANGED <<late, heartbeat>>,
         booted' \in BOOLEAN, manuals' \in 0 .. MaxManual
  PROVE  ConnectorInv'
<1> DEFINE c == Call("manual", 0)
<1>1. /\ conn \in Conns /\ Beats(conn) /\ client \in Clients
      /\ calls \in Seq(Calls) /\ late \in Seq(Calls) /\ late' = late
      /\ heartbeat' \in {"none", "current", "closed"}
      /\ conn.state \in {"not_connected", "connected", "reconnecting"}
  BY Established0 DEF Conns, States
<1>2. CASE conn.state = "connected"
  <2>1. UNCHANGED <<conn, client, calls>>
    BY <1>2 DEF Initialize
  <2> QED BY <1>1, <1>2, <2>1, Established
<1>3. CASE conn.state # "connected"
  <2>1. c \in Calls /\ ~IsTimers(c)
    BY ConnectorAssumption DEF Calls, Call, IsTimers
  <2>2. RequestInitialize(conn, client, calls, c)
    BY <1>3 DEF Initialize
  <2> HIDE DEF c
  <2>3. /\ conn' \in Conns /\ Beats(conn') /\ client' \in Clients /\ calls' \in Seq(Calls)
        /\ \/ calls' = Append(calls, c)
           \/ conn'.timer # NoTimer
           \/ GivenUp(conn')
           \/ calls' = calls /\ conn' = conn /\ conn.state = "reconnecting"
    BY <1>1, <2>1, <2>2, Requesting
  <2>4. CASE calls' = Append(calls, c)
    <3>1. calls' # <<>> /\ \A i \in DOMAIN calls : i \in DOMAIN calls' /\ calls'[i] = calls[i]
      BY <1>1, <2>1, <2>4
    <3>2. Trying => Trying'
      BY <1>1, <3>1, TryingIs
    <3>3. conn' = conn \/ conn'.timer # NoTimer \/ GivenUp(conn')
      BY <2>2, <2>4, <1>1, <2>1, Failing DEF RequestInitialize
    <3> QED BY <1>1, <1>3, <2>3, <3>1, <3>2, <3>3, Established0, Established
  <2>5. CASE conn'.timer # NoTimer \/ GivenUp(conn')
    BY <1>1, <2>3, <2>5, Established
  <2>6. CASE calls' = calls /\ conn' = conn /\ conn.state = "reconnecting"
    <3>1. Trying <=> Trying'
      BY <1>1, <2>6, TryingIs
    <3>2. conn.timer # NoTimer \/ Trying
      BY <2>6 DEF ConnectorInv, NeverAbandoned
    <3> QED BY <1>1, <2>3, <2>6, <3>1, <3>2, Established
  <2> QED BY <2>3, <2>4, <2>5, <2>6
<1> QED BY <1>2, <1>3

(* The two timers.                                                          *)
LEMMA TimerStep ==
  ASSUME ConnectorInv, FirstConnectTimer \/ ReconnectTimer
  PROVE  ConnectorInv'
<1> DEFINE k == [conn EXCEPT !.timer = NoTimer]
<1>1. /\ conn \in Conns /\ Beats(conn) /\ client \in Clients
      /\ calls \in Seq(Calls) /\ late \in Seq(Calls)
      /\ heartbeat \in {"none", "current", "closed"}
      /\ booted' \in BOOLEAN /\ manuals' \in 0 .. MaxManual
  BY Established0 DEF FirstConnectTimer, ReconnectTimer
<1>2. k \in Conns /\ Beats(k) /\ k.state = conn.state
  BY <1>1, TimersExist DEF Conns, Beats
<1>3. FreshClient \in Clients /\ <<>> \in Seq(Calls)
  BY DEF FreshClient, Clients
<1>4. CASE conn.state = "connected"
  <2>1. /\ conn' = k /\ client' \in Clients /\ calls' \in Seq(Calls) /\ late' \in Seq(Calls)
        /\ heartbeat' \in {"none", "current", "closed"}
    <3>1. late \o calls \in Seq(Calls)
      BY <1>1
    <3>2. CASE FirstConnectTimer
      BY <1>1, <1>4, <3>2 DEF FirstConnectTimer
    <3>3. CASE ReconnectTimer
      BY <1>1, <1>3, <1>4, <3>1, <3>3 DEF ReconnectTimer, ClosesClient
    <3> QED BY <3>2, <3>3
  <2> QED BY <1>1, <1>2, <1>4, <2>1, Established
<1>5. CASE conn.state # "connected"
  <2>1. PICK c \in Calls : IsTimers(c) /\ ReplacesClient(k, c)
    <3>1. CASE FirstConnectTimer
      <4>1. Call("first", 0) \in Calls /\ IsTimers(Call("first", 0))
        BY ConnectorAssumption DEF Calls, Call, IsTimers
      <4>2. ReplacesClient(k, Call("first", 0))
        BY <1>5, <3>1 DEF FirstConnectTimer
      <4> QED BY <4>1, <4>2
    <3>2. CASE ReconnectTimer
      <4>1. conn.timer.kind = "backoff" /\ conn.timer \in Timers
        BY <1>1, <3>2 DEF ReconnectTimer, Conns
      <4>2. conn.timer.attempt \in 0 .. MaxReconnectAttempts
        BY <4>1, ConnectorAssumption DEF Timers, NoTimer, FirstTimer, Backoff
      <4>3. Call("backoff", conn.timer.attempt) \in Calls /\ IsTimers(Call("backoff", conn.timer.attempt))
        BY <4>2 DEF Calls, Call, IsTimers
      <4>4. ReplacesClient(k, Call("backoff", conn.timer.attempt))
        BY <1>5, <3>2 DEF ReconnectTimer
      <4> QED BY <4>3, <4>4
    <3> QED BY <3>1, <3>2
  <2>2. /\ late' \in Seq(Calls) /\ heartbeat' \in {"none", "current", "closed"}
        /\ RequestInitialize(k, FreshClient, <<>>, c)
    BY <1>1, <2>1 DEF ReplacesClient, ClosesClient
  <2> HIDE DEF k
  <2>3. /\ conn' \in Conns /\ Beats(conn') /\ client' \in Clients /\ calls' \in Seq(Calls)
        /\ calls' = Append(<<>>, c) \/ conn'.timer # NoTimer \/ GivenUp(conn')
    BY <1>2, <1>3, <2>1, <2>2, Requesting
  <2>4. CASE calls' = Append(<<>>, c)
    <3>1. 1 \in DOMAIN calls' /\ calls'[1] = c
      BY <2>1, <2>4
    <3>2. Trying'
      BY <2>1, <3>1, TryingIs
    <3> QED BY <1>1, <2>2, <2>3, <3>2, Established
  <2>5. CASE conn'.timer # NoTimer \/ GivenUp(conn')
    BY <1>1, <2>2, <2>3, <2>5, Established
  <2> QED BY <2>3, <2>4, <2>5
<1> QED BY <1>4, <1>5

(* An answer connects.                                                      *)
LEMMA AnswerStep ==
  ASSUME ConnectorInv, conn' = Connected(conn),
         client' \in Clients, calls' \in Seq(Calls), late' \in Seq(Calls),
         UNCHANGED <<heartbeat, booted, manuals>>
  PROVE  ConnectorInv'
BY Established0, Connecting, Established

(* A failure, on the current client or on a closed one.                     *)
LEMMA FailureStep ==
  ASSUME ConnectorInv, UNCHANGED <<client, heartbeat, booted, manuals>>,
         NEW c \in Calls, conn' = Failed(conn, c),
         \/ calls # <<>> /\ c = Head(calls) /\ calls' = Tail(calls) /\ late' = late
         \/ late # <<>> /\ c = Head(late) /\ late' = Tail(late) /\ calls' = calls
  PROVE  ConnectorInv'
<1>1. /\ conn \in Conns /\ Beats(conn) /\ client' \in Clients
      /\ calls \in Seq(Calls) /\ late \in Seq(Calls)
      /\ heartbeat' \in {"none", "current", "closed"}
      /\ booted' \in BOOLEAN /\ manuals' \in 0 .. MaxManual
  BY Established0
<1>2. calls' \in Seq(Calls) /\ late' \in Seq(Calls)
  BY <1>1, TailTries
<1>3. /\ conn' \in Conns /\ Beats(conn')
      /\ \/ conn'.timer # NoTimer
         \/ GivenUp(conn')
         \/ ~IsTimers(c) /\ conn' = conn /\ conn.state = "reconnecting"
  BY <1>1, Failing
<1>4. CASE conn'.timer # NoTimer \/ GivenUp(conn')
  BY <1>1, <1>2, <1>3, <1>4, Established
<1>5. CASE ~IsTimers(c) /\ conn' = conn /\ conn.state = "reconnecting"
  <2>1. conn.timer # NoTimer \/ Trying
    BY <1>5 DEF ConnectorInv, NeverAbandoned
  <2>2. Trying => Trying'
    BY <1>1, <1>5, TailTries, TryingIs
  <2> QED BY <1>1, <1>2, <1>3, <1>5, <2>1, <2>2, Established
<1> QED BY <1>3, <1>4, <1>5

(* The child is gone.                                                       *)
LEMMA ExitStep ==
  ASSUME ConnectorInv, ChildExits
  PROVE  ConnectorInv'
<1> DEFINE own == {c \in ToSet(calls) : IsTimers(c)}
           k == HandleDisconnect(conn)
<1>1. /\ conn \in Conns /\ Beats(conn) /\ FreshClient \in Clients
      /\ calls \in Seq(Calls) /\ late \in Seq(Calls)
      /\ heartbeat' \in {"none", "current", "closed"}
      /\ booted' \in BOOLEAN /\ manuals' \in 0 .. MaxManual
      /\ client' = FreshClient /\ calls' = <<>> /\ late' = late
      /\ calls' \in Seq(Calls)
  BY Established0 DEF ChildExits, FreshClient, Clients
<1>2. conn' = IF own = {} THEN k ELSE Failed(k, CHOOSE c \in own : TRUE)
  BY DEF ChildExits
<1>3. k \in Conns /\ Beats(k) /\ k.state = "reconnecting" /\ (k.timer # NoTimer \/ k = conn)
  BY <1>1, Dropping
<1> HIDE DEF k
<1>4. CASE own = {}
  <2>1. \A i \in DOMAIN calls : ~IsTimers(calls[i])
    BY <1>4 DEF ToSet
  <2>2. Trying => Trying'
    BY <1>1, <2>1, TryingIs
  <2>3. k = conn => conn.timer # NoTimer \/ Trying
    BY <1>3 DEF ConnectorInv, NeverAbandoned
  <2> QED BY <1>1, <1>2, <1>3, <1>4, <2>2, <2>3, Established
<1>5. CASE own # {}
  <2>1. PICK c \in own : conn' = Failed(k, c)
    BY <1>2, <1>5
  <2>2. c \in Calls /\ IsTimers(c)
    BY <1>1 DEF ToSet
  <2> HIDE DEF own
  <2>3. /\ conn' \in Conns /\ Beats(conn')
        /\ conn'.timer # NoTimer \/ GivenUp(conn')
    BY <1>3, <2>1, <2>2, Failing
  <2> QED BY <1>1, <2>3, Established
<1> QED BY <1>4, <1>5

(* What does not touch the calls or the attempts to connect.                *)
LEMMA HeartbeatStep ==
  ASSUME ConnectorInv, UseClient \/ SendHeartbeat \/ HeartbeatAnswered \/ HeartbeatFails \/ UNCHANGED connectorVars
  PROVE  ConnectorInv'
<1>1. /\ conn \in Conns /\ Beats(conn)
      /\ calls' \in Seq(Calls) /\ late' \in Seq(Calls)
      /\ booted' \in BOOLEAN /\ manuals' \in 0 .. MaxManual
      /\ calls' = calls /\ late' = late /\ booted' = booted
  BY Established0 DEF UseClient, SendHeartbeat, HeartbeatAnswered, HeartbeatFails, connectorVars
<1>2. heartbeat' \in {"none", "current", "closed"} /\ client' \in Clients
  BY Established0 DEF UseClient, SendHeartbeat, HeartbeatAnswered, HeartbeatFails, connectorVars, Clients
<1>3. Trying' <=> Trying
  BY <1>1, TryingIs
<1>4. CASE conn' = conn
  BY <1>1, <1>2, <1>3, <1>4, Established0, Established
<1>5. CASE conn' = HandleDisconnect(conn)
  <2>1. /\ conn' \in Conns /\ Beats(conn') /\ conn'.state = "reconnecting"
        /\ conn'.timer # NoTimer \/ conn' = conn
    BY <1>1, <1>5, Dropping
  <2>2. conn' = conn => conn.timer # NoTimer \/ Trying
    BY <2>1 DEF ConnectorInv, NeverAbandoned
  <2> QED BY <1>1, <1>2, <1>3, <2>1, <2>2, Established
<1> QED BY <1>4, <1>5 DEF UseClient, SendHeartbeat, HeartbeatAnswered, HeartbeatFails, connectorVars

LEMMA ConnectorStep == ConnectorInv /\ [ConnectorNext]_connectorVars => ConnectorInv'
<1> SUFFICES ASSUME ConnectorInv, [ConnectorNext]_connectorVars PROVE ConnectorInv'
  OBVIOUS
<1>1. CASE Boot
  BY <1>1, InitializeStep, Established0 DEF Boot
<1>2. CASE RetryConnect
  <2>1. manuals' \in 0 .. MaxManual
    BY <1>2, Established0, ConnectorAssumption DEF RetryConnect
  <2> QED BY <1>2, <2>1, InitializeStep, Established0 DEF RetryConnect
<1>3. CASE FirstConnectTimer \/ ReconnectTimer
  BY <1>3, TimerStep
<1>4. CASE Answered
  <2>1. client' \in Clients /\ calls' \in Seq(Calls) /\ late' \in Seq(Calls)
    BY <1>4, Established0, TailTries DEF Answered, Clients
  <2> QED BY <1>4, <2>1, AnswerStep DEF Answered
<1>5. CASE CallFails
  <2>1. Head(calls) \in Calls
    BY <1>5, Established0, TailTries DEF CallFails
  <2> QED BY <1>5, <2>1, FailureStep DEF CallFails
<1>6. CASE LateCallSettles
  <2>1. /\ Head(late) \in Calls /\ late' \in Seq(Calls) /\ calls' \in Seq(Calls) /\ client' \in Clients
    BY <1>6, Established0, TailTries DEF LateCallSettles
  <2>2. CASE conn' = Connected(conn)
    BY <1>6, <2>1, <2>2, AnswerStep DEF LateCallSettles
  <2>3. CASE conn' = Failed(conn, Head(late))
    BY <1>6, <2>1, <2>3, FailureStep DEF LateCallSettles
  <2> QED BY <1>6, <2>2, <2>3 DEF LateCallSettles
<1>7. CASE ChildExits
  BY <1>7, ExitStep
<1>8. CASE UseClient \/ SendHeartbeat \/ HeartbeatAnswered \/ HeartbeatFails \/ UNCHANGED connectorVars
  BY <1>8, HeartbeatStep
<1> QED BY <1>1, <1>2, <1>3, <1>4, <1>5, <1>6, <1>7, <1>8 DEF ConnectorNext, Settle

LEMMA ConnectorAlways == ConnectorSpec => []ConnectorInv
BY ConnectorStarts, ConnectorStep, PTL DEF ConnectorSpec

---------------------------------------------------------------------------
(* The heartbeat runs exactly while the connector says it is connected,     *)
(* through every way of connecting and dropping (index.js:160).             *)
THEOREM BeatsAlways == ConnectorSpec => []BeatsWhileConnected
<1>1. ConnectorInv => BeatsWhileConnected
  BY DEF ConnectorInv
<1> QED BY <1>1, ConnectorAlways, PTL

(* The connector's variables keep their types: no attempt is counted past   *)
(* maxReconnectAttempts (index.js:95).                                      *)
THEOREM ConnectorTypes == ConnectorSpec => []ConnectorTypeOK
<1>1. ConnectorInv => ConnectorTypeOK
  BY DEF ConnectorInv
<1> QED BY <1>1, ConnectorAlways, PTL

(* Retrying never ends silently: while reconnecting, a timer is armed or a  *)
(* timer's call is awaited, and a connector that was started and has not    *)
(* given up is never idle (index.js:95 and :119).                           *)
THEOREM RetryingGoesOn == ConnectorSpec => []NeverAbandoned
<1>1. ConnectorInv => NeverAbandoned
  BY DEF ConnectorInv
<1> QED BY <1>1, ConnectorAlways, PTL

(***************************************************************************)
(* Approvals and the files of a turn.                                      *)
(***************************************************************************)
\* A code stands for the pending approval that carries it, and Codex's waiting
\* requests are recorded under their own numbers with their own threads.
Recorded ==
    /\ \A n \in Pending : pend[n].code \in 1..counter /\ pend[n].gen \in 1..MaxGen
    /\ \A c \in 1..MaxCode : keyOf[c] # 0 => pend[keyOf[c]].code = c
    /\ \A w \in waits : w.n \in Pending => pend[w.n].thread = w.thread
    /\ ~link.up => waits = {}

\* Codes are not used twice in the life of a daemon: what a prompt of this
\* connection shows stands for its request or for nothing any more.
Prompted ==
    \A card \in cards :
        /\ card.gen <= link.gen
        /\ card.gen = link.gen => card.code <= counter /\ keyOf[card.code] \in {0, card.n}

\* A turn alone on its connection is the one that started last, or none did
\* since the paths were cleared.
Latest == lastTurn # None /\ running # {} => lastTurn \in running

\* A child that may be closed without a word has reported nothing else.
Stale == link.due => \A t \in Threads : paths[t] \subseteq strays[t]

EventsInv ==
    /\ TypeOK /\ Recorded /\ Prompted
    /\ OwnerDecides /\ DecidesWhatWasShown
    /\ Latest /\ Stale /\ PathsOfThisTurn

-------------------------------------------------------------------------------
LEMMA Bounds ==
    /\ MaxReq \in Nat /\ MaxGen \in Nat /\ MaxCode \in Nat
    /\ 1 \in 1..MaxGen /\ 0 \in 0..MaxReq /\ 0 \in 0..MaxGen /\ 0 \in 0..MaxCode
<1>1. MaxReq \in Nat \ {0} /\ MaxGen \in Nat \ {0} /\ MaxCode \in Nat \ {0}
  BY BoundsAssumption
<1> QED BY <1>1

LEMMA InitHolds == Init => EventsInv
<1> SUFFICES ASSUME Init PROVE EventsInv
  OBVIOUS
<1>1. 1 \in 1..MaxGen /\ 0 \in 0..MaxReq /\ 0 \in 0..MaxGen /\ 0 \in 0..MaxCode
  BY Bounds
<1>2. Pending = {}
  BY DEF Init, Pending
<1>3. TypeOK
  <2>1. link \in [gen : 1..MaxGen, up : BOOLEAN, lost : BOOLEAN, due : BOOLEAN]
        /\ ~ link.lost /\ asked \in 0..MaxReq /\ counter \in 0..MaxCode
    BY <1>1 DEF Init
  <2>2. pend \in [Numbers -> [gen : 0..MaxGen, thread : Threads \cup {None}, code : 0..MaxCode]]
    BY <1>1 DEF Init, NoApproval
  <2>3. keyOf \in [1..MaxCode -> 0..MaxReq] /\ \A c \in 1..MaxCode : keyOf[c] = 0
    BY <1>1 DEF Init
  <2> QED BY <1>2, <2>1, <2>2, <2>3 DEF Init, TypeOK
<1>4. Stale
  BY DEF Init, Stale
<1>5. Recorded
  BY <1>2 DEF Init, Recorded
<1> QED BY <1>3, <1>4, <1>5 DEF Init, EventsInv, Prompted, OwnerDecides,
            DecidesWhatWasShown, Latest, PathsOfThisTurn

-------------------------------------------------------------------------------
(***************************************************************************)
(* Approval requests.                                                      *)
(***************************************************************************)
LEMMA RequestKeeps ==
    ASSUME EventsInv, NEW t \in Threads, ServerRequest(t)
    PROVE  EventsInv'
<1> DEFINE n == asked + 1
           code == CodeFor(n)
           new == [gen |-> link.gen, thread |-> t, code |-> code]
<1>0. /\ TypeOK /\ Recorded /\ Prompted /\ OwnerDecides /\ DecidesWhatWasShown
      /\ Latest /\ Stale /\ PathsOfThisTurn
  BY DEF EventsInv
<1>1. /\ link.up /\ n \in Numbers /\ asked \in Nat /\ link.gen \in 1..MaxGen
      /\ asked' = n /\ waits' = waits \cup {[n |-> n, thread |-> t, conv |-> owner[t]]}
      /\ counter' = (IF code > counter THEN code ELSE counter)
      /\ pend' = [pend EXCEPT ![n] = new]
      /\ keyOf' = [keyOf EXCEPT ![code] = n]
      /\ Prompt(n, owner[t], code) /\ code <= MaxCode
      /\ log' = {} /\ UNCHANGED <<link, owner, screen, turns>>
  BY <1>0 DEF ServerRequest, TypeOK
<1>2. MaxCode \in Nat /\ counter \in 0..MaxCode /\ n \in 1..MaxReq
      /\ (n \notin Pending => counter + 1 \in 1..MaxCode)
  <2>1. n \notin Pending => code = counter + 1
    BY <1>1 DEF CodeFor, Pending
  <2>2. counter \in 0..MaxCode /\ n \in 1..MaxReq /\ MaxCode \in Nat
    BY <1>0, <1>1, Bounds DEF TypeOK, Numbers
  <2>3. code <= MaxCode
    BY <1>1
  <2> HIDE DEF code
  <2> QED BY <2>1, <2>2, <2>3
<1>3. /\ code \in 1..MaxCode /\ code <= counter' /\ counter <= counter' /\ counter' \in 0..MaxCode
      /\ IF n \in Pending THEN code = pend[n].code /\ keyOf[code] = n /\ counter' = counter
                          ELSE code = counter + 1 /\ keyOf[code] = 0 /\ counter' = code
  <2>1. CASE n \in Pending
    <3>1. pend[n] # NoApproval /\ pend[n].code \in 1..counter /\ keyOf[pend[n].code] = n
      BY <1>0, <2>1 DEF Pending, Recorded, TypeOK
    <3>2. code = pend[n].code
      BY <3>1 DEF CodeFor
    <3> HIDE DEF code
    <3> QED BY <1>1, <1>2, <2>1, <3>1, <3>2
  <2>2. CASE n \notin Pending
    <3>1. pend[n] = NoApproval
      BY <1>1, <2>2 DEF Pending
    <3>2. code = counter + 1
      BY <3>1 DEF CodeFor
    <3> HIDE DEF code
    <3>4. code \in 1..MaxCode /\ ~ (code <= counter)
      BY <1>2, <2>2, <3>2
    <3>3. keyOf[code] = 0
      BY <1>0, <3>4 DEF TypeOK
    <3> QED BY <1>1, <1>2, <2>2, <3>2, <3>3
  <2> QED BY <2>1, <2>2
<1> HIDE DEF code
<1>4. new \in [gen : 0..MaxGen, thread : Threads \cup {None}, code : 0..MaxCode]
      /\ new.thread = t /\ new.code = code /\ new.gen = link.gen /\ new # NoApproval
  BY <1>1, <1>3 DEF NoApproval
<1> HIDE DEF new
<1>5. Pending' = Pending \cup {n} /\ pend'[n] = new /\ \A k \in Numbers \ {n} : pend'[k] = pend[k]
  BY <1>0, <1>1, <1>4 DEF Pending, TypeOK
<1>6. \A c \in 1..MaxCode : keyOf'[c] = IF c = code THEN n ELSE keyOf[c]
  BY <1>0, <1>1, <1>3 DEF TypeOK
<1>7. cards' \subseteq cards \cup {[code |-> code, gen |-> link.gen, n |-> n]} /\ keys' \subseteq keys \cup {n}
  BY <1>1 DEF Prompt
<1>8. TypeOK'
  <2>1. \A k \in Pending' : keyOf'[pend'[k].code] = k
    <3> SUFFICES ASSUME NEW k \in Pending' PROVE keyOf'[pend'[k].code] = k
      OBVIOUS
    <3>1. CASE k = n
      BY <1>3, <1>4, <1>5, <1>6, <3>1
    <3>2. CASE k # n
      <4>1. k \in Pending /\ k \in Numbers /\ pend'[k] = pend[k]
        BY <1>5, <3>2 DEF Pending
      <4>2. pend[k].code \in 1..MaxCode /\ keyOf[pend[k].code] = k /\ pend[k].code <= counter
        BY <1>0, <1>2, <4>1 DEF TypeOK, Recorded
      <4>3. pend[k].code # code
        BY <1>2, <1>3, <3>2, <4>2
      <4> QED BY <1>6, <4>1, <4>2, <4>3
    <3> QED BY <3>1, <3>2
  <2>2. \A c \in 1..MaxCode : keyOf'[c] # 0 => keyOf'[c] \in Pending' /\ c <= counter'
    BY <1>0, <1>2, <1>3, <1>5, <1>6 DEF TypeOK
  <2>3. \A w \in waits' : w.n \in 1..asked' /\ w.thread \in Threads /\ w.conv \in Ids \cup {None}
    BY <1>0, <1>1 DEF TypeOK
  <2>4. pend' \in [Numbers -> [gen : 0..MaxGen, thread : Threads \cup {None}, code : 0..MaxCode]]
    BY <1>0, <1>1, <1>4 DEF TypeOK
  <2>5. keyOf' \in [1..MaxCode -> 0..MaxReq] /\ asked' \in 0..MaxReq
    BY <1>0, <1>1, <1>2, <1>3 DEF TypeOK
  <2>6. cards' \subseteq [code : 1..MaxCode, gen : 1..MaxGen, n : Numbers] /\ keys' \subseteq Numbers
    BY <1>0, <1>1, <1>3, <1>7 DEF TypeOK
  <2> QED BY <1>0, <1>1, <1>3, <2>1, <2>2, <2>3, <2>4, <2>5, <2>6 DEF TypeOK, turns
<1>9. Recorded'
  <2>1. \A k \in Pending' : pend'[k].code \in 1..counter' /\ pend'[k].gen \in 1..MaxGen
    <3> SUFFICES ASSUME NEW k \in Pending', k # n
                 PROVE  pend'[k].code \in 1..counter' /\ pend'[k].gen \in 1..MaxGen
      BY <1>1, <1>3, <1>4, <1>5
    <3>1. k \in Pending /\ pend'[k] = pend[k]
      BY <1>5 DEF Pending
    <3> QED BY <1>0, <1>2, <1>3, <3>1 DEF Recorded
  <2>2. \A c \in 1..MaxCode : keyOf'[c] # 0 => pend'[keyOf'[c]].code = c
    <3> SUFFICES ASSUME NEW c \in 1..MaxCode, keyOf'[c] # 0, c # code PROVE pend'[keyOf'[c]].code = c
      BY <1>4, <1>5, <1>6
    <3>1. keyOf'[c] = keyOf[c] /\ keyOf[c] \in Pending /\ pend[keyOf[c]].code = c
      BY <1>0, <1>6 DEF Recorded, TypeOK
    <3>2. keyOf[c] # n
      BY <1>3, <3>1
    <3> QED BY <1>5, <3>1, <3>2 DEF Pending
  <2>3. \A w \in waits' : w.n \in Pending' => pend'[w.n].thread = w.thread
    <3> SUFFICES ASSUME NEW w \in waits, w.n \in Pending' PROVE pend'[w.n].thread = w.thread
      BY <1>1, <1>4, <1>5
    <3>1. w.n # n
      BY <1>0, <1>1 DEF TypeOK
    <3> QED BY <1>0, <1>5, <3>1 DEF Recorded, Pending
  <2> QED BY <1>1, <2>1, <2>2, <2>3 DEF Recorded
<1>10. Prompted'
  <2> SUFFICES ASSUME NEW card \in cards'
               PROVE  /\ card.gen <= link.gen
                      /\ card.gen = link.gen => card.code <= counter' /\ keyOf'[card.code] \in {0, card.n}
    BY <1>1 DEF Prompted
  <2>1. CASE card \notin cards
    BY <1>1, <1>3, <1>6, <1>7, <2>1
  <2>2. CASE card \in cards
    <3>1. card.code \in 1..MaxCode /\ card.gen <= link.gen
          /\ (card.gen = link.gen => card.code <= counter /\ keyOf[card.code] \in {0, card.n})
      BY <1>0, <2>2 DEF Prompted, TypeOK
    <3>2. card.gen = link.gen /\ card.code = code => card.n = n
      BY <1>2, <1>3, <3>1, BoundsAssumption DEF Numbers
    <3> QED BY <1>2, <1>3, <1>6, <3>1, <3>2
  <2> QED BY <2>1, <2>2
<1> QED BY <1>0, <1>1, <1>8, <1>9, <1>10
       DEF EventsInv, OwnerDecides, DecidesWhatWasShown, Latest, Stale, PathsOfThisTurn, turns

\* An answer keeps the invariant if the one who gives it was shown this request
\* on this connection, or any on another, and may decide it.
LEMMA ResolvingKeeps ==
    ASSUME EventsInv, NEW n, NEW by, NEW seen, Resolve(n, by, seen), cards' \subseteq cards,
           seen.gen = link.gen => seen.n = n,
           by # Console => owner[pend[n].thread] \in {None, by}
    PROVE  EventsInv'
<1> DEFINE mine == {w \in waits : w.n = n}
           code == pend[n].code
<1>0. /\ TypeOK /\ Recorded /\ Prompted /\ Latest /\ Stale /\ PathsOfThisTurn
  BY DEF EventsInv
<1>1. /\ n \in Pending /\ n \in Numbers
      /\ pend' = [pend EXCEPT ![n] = NoApproval] /\ keyOf' = [keyOf EXCEPT ![code] = 0]
      /\ waits' = (IF link.up THEN waits \ mine ELSE waits)
      /\ log' = (IF ~link.up THEN {}
                 ELSE {[gen |-> link.gen, n |-> n, by |-> by, seen |-> seen,
                        owner |-> owner[w.thread]] : w \in mine})
      /\ UNCHANGED <<link, asked, counter, owner, showing, turns>>
  BY DEF Resolve, Pending
<1>2. code \in 1..counter /\ counter \in 0..MaxCode /\ MaxCode \in Nat /\ keyOf[code] = n
  BY <1>0, <1>1, Bounds DEF Recorded, TypeOK
<1> HIDE DEF code
<1>3. Pending' = Pending \ {n} /\ \A k \in Numbers \ {n} : pend'[k] = pend[k]
  BY <1>0, <1>1 DEF Pending, TypeOK
<1>4. code \in 1..MaxCode /\ \A c \in 1..MaxCode : keyOf'[c] = IF c = code THEN 0 ELSE keyOf[c]
  BY <1>0, <1>1, <1>2 DEF TypeOK
<1>5. TypeOK'
  <2>1. \A k \in Pending' : keyOf'[pend'[k].code] = k
    <3> SUFFICES ASSUME NEW k \in Pending, k # n PROVE keyOf'[pend[k].code] = k
      BY <1>3 DEF Pending
    <3>1. pend[k].code \in 1..MaxCode /\ keyOf[pend[k].code] = k
      BY <1>0, <1>2 DEF Recorded, TypeOK
    <3> QED BY <1>2, <1>4, <3>1
  <2>2. \A c \in 1..MaxCode : keyOf'[c] # 0 => keyOf'[c] \in Pending' /\ c <= counter
    <3> SUFFICES ASSUME NEW c \in 1..MaxCode, keyOf[c] # 0, c # code PROVE keyOf[c] \in Pending' /\ c <= counter
      BY <1>4
    <3>1. keyOf[c] \in Pending /\ pend[keyOf[c]].code = c /\ c <= counter
      BY <1>0 DEF Recorded, TypeOK
    <3> QED BY <1>3, <3>1 DEF code
  <2>3. pend' \in [Numbers -> [gen : 0..MaxGen, thread : Threads \cup {None}, code : 0..MaxCode]]
    <3>1. NoApproval \in [gen : 0..MaxGen, thread : Threads \cup {None}, code : 0..MaxCode]
      BY <1>2, Bounds DEF NoApproval
    <3> QED BY <1>0, <1>1, <3>1 DEF TypeOK
  <2>4. keyOf' \in [1..MaxCode -> 0..MaxReq]
    BY <1>0, <1>1, <1>4, Bounds DEF TypeOK
  <2>5. \A w \in waits' : w.n \in 1..asked /\ w.thread \in Threads /\ w.conv \in Ids \cup {None}
    BY <1>0, <1>1 DEF TypeOK
  <2> QED BY <1>0, <1>1, <2>1, <2>2, <2>3, <2>4, <2>5 DEF TypeOK, turns, showing
<1>6. Recorded'
  <2>1. \A k \in Pending' : pend'[k].code \in 1..counter /\ pend'[k].gen \in 1..MaxGen
    BY <1>0, <1>3 DEF Recorded, Pending
  <2>2. \A c \in 1..MaxCode : keyOf'[c] # 0 => pend'[keyOf'[c]].code = c
    <3> SUFFICES ASSUME NEW c \in 1..MaxCode, keyOf[c] # 0, c # code PROVE pend'[keyOf[c]].code = c
      BY <1>4
    <3>1. keyOf[c] \in Pending /\ pend[keyOf[c]].code = c
      BY <1>0 DEF Recorded, TypeOK
    <3>2. keyOf[c] # n
      BY <3>1 DEF code
    <3> QED BY <1>3, <3>1, <3>2 DEF Pending
  <2>3. \A w \in waits' : w.n \in Pending' => pend'[w.n].thread = w.thread
    BY <1>0, <1>1, <1>3 DEF Recorded, Pending
  <2> QED BY <1>0, <1>1, <2>1, <2>2, <2>3 DEF Recorded
<1>7. Prompted'
  BY <1>0, <1>1, <1>4 DEF Prompted, TypeOK, showing
<1>8. OwnerDecides'
  <2> SUFFICES ASSUME NEW w \in mine, by # Console PROVE owner[w.thread] \in {None, by}
    BY <1>1 DEF OwnerDecides
  <2>1. pend[n].thread = w.thread
    BY <1>0, <1>1 DEF Recorded
  <2> QED BY <2>1
<1>9. DecidesWhatWasShown'
  BY <1>1 DEF DecidesWhatWasShown
<1> QED BY <1>0, <1>1, <1>5, <1>6, <1>7, <1>8, <1>9
       DEF EventsInv, Latest, Stale, PathsOfThisTurn, turns

LEMMA AnswersKeep ==
    ASSUME EventsInv
    PROVE  /\ \A s \in screen : ByConsole(s) => EventsInv'
           /\ \A s \in screen, id \in Ids : ById(id, s) => EventsInv'
           /\ \A card \in cards, id \in Ids :
             FeishuButton(id, card) \/ DingTalkButton(id, card) \/ TelegramButton(id, card) => EventsInv'
<1>1. ASSUME NEW s \in screen, ByConsole(s) PROVE EventsInv'
  BY <1>1, ResolvingKeeps DEF ByConsole, PostApproval
<1>2. ASSUME NEW s \in screen, NEW id \in Ids, ById(id, s) PROVE EventsInv'
  <2>1. s.n \in Pending /\ Resolve(s.n, id, s) /\ cards' \subseteq cards
    BY <1>2 DEF ById, Resolve
  <2>2. owner[pend[s.n].thread] \in {None, id}
    BY <1>2, <2>1 DEF ById, MayDecide
  <2> QED BY <2>1, <2>2, ResolvingKeeps
<1>3. ASSUME NEW card \in cards, NEW id \in Ids,
             FeishuButton(id, card) \/ DingTalkButton(id, card) \/ TelegramButton(id, card)
      PROVE  EventsInv'
  <2> DEFINE n == keyOf[card.code]
             seen == [gen |-> card.gen, n |-> card.n]
  <2>0. ByCode(id, card) /\ cards' \subseteq cards
    BY <1>3 DEF FeishuButton, DingTalkButton, TelegramButton
  <2>1. card.code \in 1..MaxCode /\ n # 0 /\ MayDecide(id, Found(card.code)) /\ Resolve(n, id, seen)
    BY <2>0 DEF ByCode, EventsInv, TypeOK
  <2>2. n \in Pending /\ pend[n].code = card.code
    BY <2>1 DEF EventsInv, TypeOK, Recorded
  <2>3. owner[pend[n].thread] \in {None, id}
    BY <2>1, <2>2 DEF Found, MayDecide
  <2>4. seen.gen = link.gen => seen.n = n
    BY <2>1 DEF EventsInv, Prompted
  <2> QED BY <2>0, <2>1, <2>3, <2>4, ResolvingKeeps
<1> QED BY <1>1, <1>2, <1>3

-------------------------------------------------------------------------------
(***************************************************************************)
(* The steps that leave the requests alone, or forget them.                *)
(***************************************************************************)
LEMMA PromptsKeep ==
    ASSUME EventsInv, ListApprovals \/ \E n \in Numbers : ForgetKey(n)
    PROVE  EventsInv'
<1>0. TypeOK /\ Recorded /\ Prompted
  BY DEF EventsInv
<1>1. log' = {} /\ UNCHANGED <<link, requests, owner, cards, turns>> /\ Pending' = Pending
      /\ keys' \subseteq Numbers /\ screen' \subseteq [gen : 1..MaxGen, n : Numbers]
  <2>1. CASE ListApprovals
    BY <1>0, <2>1 DEF ListApprovals, TypeOK, Recorded, Pending, requests
  <2>2. CASE \E n \in Numbers : ForgetKey(n)
    BY <1>0, <2>2 DEF ForgetKey, TypeOK, Pending, requests
  <2> QED BY <2>1, <2>2
<1>2. TypeOK'
  BY <1>0, <1>1 DEF TypeOK, requests, turns
<1> QED BY <1>1, <1>2 DEF EventsInv, Recorded, Prompted, OwnerDecides, DecidesWhatWasShown,
            Latest, Stale, PathsOfThisTurn, requests, turns

LEMMA TurnsKeep ==
    ASSUME EventsInv, NEW t \in Threads,
           \/ TurnCompletes(t)
           \/ \E id \in Ids \cup {None} : TurnStarts(t, id)
           \/ \E p \in Paths, named \in BOOLEAN : FileChanged(t, p, named)
    PROVE  EventsInv'
<1>0. TypeOK /\ Recorded /\ Prompted /\ Latest /\ Stale /\ PathsOfThisTurn
  BY DEF EventsInv
<1>1. log' = {} /\ UNCHANGED <<link, requests, prompts>> /\ Pending' = Pending
  BY DEF TurnCompletes, TurnStarts, FileChanged, requests, Pending
<1> DEFINE Kept ==
      /\ owner' \in [Threads -> Ids \cup {None}]
      /\ running' \subseteq Threads /\ lastTurn' \in Threads \cup {None}
      /\ paths' \in [Threads -> SUBSET Paths] /\ touched' \in [Threads -> SUBSET Paths]
      /\ strays' \in [Threads -> SUBSET Paths]
      /\ Latest' /\ Stale' /\ PathsOfThisTurn'
<1>2. Kept
  <2>1. CASE TurnCompletes(t)
    BY <1>0, <1>1, <2>1 DEF TurnCompletes, TypeOK, Latest, Stale, PathsOfThisTurn
  <2>2. ASSUME NEW id \in Ids \cup {None}, TurnStarts(t, id)
        PROVE  Kept
    BY <1>0, <1>1, <2>2 DEF TurnStarts, TypeOK, Latest, Stale, PathsOfThisTurn
  <2>3. ASSUME NEW p \in Paths, NEW named \in BOOLEAN, FileChanged(t, p, named)
        PROVE  Kept
    <3>1. CASE ~ named /\ lastTurn = None
      <4>1. UNCHANGED <<paths, strays>>
        BY <2>3, <3>1 DEF FileChanged, AccumulateChangedPaths
      <4>2. \A u \in Threads : touched[u] \subseteq touched'[u]
        BY <1>0, <2>3 DEF FileChanged, TypeOK
      <4> QED BY <1>0, <1>1, <2>3, <4>1, <4>2 DEF FileChanged, TypeOK, Latest, Stale, PathsOfThisTurn
    <3>2. CASE named \/ lastTurn # None
      <4>1. (IF named THEN t ELSE lastTurn) = t /\ t # None
        BY <1>0, <2>3, <3>2, NoneAssumption DEF FileChanged, Latest
      <4>2. /\ paths' = [paths EXCEPT ![t] = @ \cup {p}]
            /\ strays' = IF link.due THEN [strays EXCEPT ![t] = @ \cup {p}] ELSE strays
            /\ touched' = [touched EXCEPT ![t] = @ \cup {p}]
            /\ UNCHANGED <<link, owner, running, lastTurn>>
        BY <2>3, <4>1 DEF FileChanged, AccumulateChangedPaths
      <4>3. /\ paths' \in [Threads -> SUBSET Paths] /\ touched' \in [Threads -> SUBSET Paths]
            /\ strays' \in [Threads -> SUBSET Paths]
        BY <1>0, <4>2 DEF TypeOK
      <4>4. \A u \in Threads :
              /\ paths'[u] = (IF u = t THEN paths[u] \cup {p} ELSE paths[u])
              /\ touched'[u] = (IF u = t THEN touched[u] \cup {p} ELSE touched[u])
              /\ strays[u] \subseteq strays'[u]
              /\ (u = t /\ link.due => p \in strays'[u])
        <5>1. paths \in [Threads -> SUBSET Paths] /\ touched \in [Threads -> SUBSET Paths]
              /\ strays \in [Threads -> SUBSET Paths]
          BY <1>0 DEF TypeOK
        <5>2. CASE link.due
          BY <4>2, <5>1, <5>2
        <5>3. CASE ~ link.due
          BY <4>2, <5>1, <5>3
        <5> QED BY <5>2, <5>3
      <4>5. Stale'
        <5>1. link.due => \A u \in Threads : paths[u] \subseteq strays[u]
          BY <1>0 DEF Stale
        <5>2. ASSUME link.due, NEW u \in Threads PROVE paths'[u] \subseteq strays'[u]
          BY <4>4, <5>1, <5>2
        <5> QED BY <4>2, <5>2 DEF Stale
      <4>6. PathsOfThisTurn'
        <5>1. ASSUME NEW u \in Threads PROVE paths'[u] \subseteq touched'[u] \cup strays'[u]
          <6>1. paths[u] \subseteq touched[u] \cup strays[u]
            BY <1>0 DEF PathsOfThisTurn
          <6> QED BY <4>4, <6>1
        <5> QED BY <5>1 DEF PathsOfThisTurn
      <4> QED BY <1>0, <4>2, <4>3, <4>5, <4>6 DEF TypeOK, Latest
    <3> QED BY <3>1, <3>2
  <2> QED BY <2>1, <2>2, <2>3
<1>3. TypeOK'
  BY <1>0, <1>1, <1>2 DEF TypeOK, requests, prompts
<1> QED BY <1>1, <1>2, <1>3 DEF EventsInv, Recorded, Prompted, OwnerDecides,
            DecidesWhatWasShown, requests, prompts

Links == [gen : 1..MaxGen, up : BOOLEAN, lost : BOOLEAN, due : BOOLEAN]

\* What is collected is cleared when the connection is given up, and what is
\* collected after that is known to be late.
LEMMA Forgetting ==
    ASSUME EventsInv, ForgetTurns
    PROVE  /\ lastTurn' \in {lastTurn, None}
           /\ paths' \in [Threads -> SUBSET Paths] /\ strays' \in [Threads -> SUBSET Paths]
           /\ \A t \in Threads : paths'[t] \subseteq strays'[t]
<1>1. CASE link.lost
  BY <1>1 DEF ForgetTurns, EventsInv, TypeOK, Stale
<1>2. CASE ~ link.lost
  BY <1>2 DEF ForgetTurns
<1> QED BY <1>1, <1>2

LEMMA DisconnectKeeps ==
    ASSUME EventsInv, Disconnect \/ HeartbeatLost
    PROVE  EventsInv'
<1>0. TypeOK /\ Recorded /\ Prompted /\ Latest
  BY DEF EventsInv
<1>1. /\ log' = {} /\ UNCHANGED <<asked, pend, keyOf, counter, owner, prompts>> /\ Pending' = Pending
      /\ ForgetTurns /\ link' \in Links /\ link'.gen = link.gen /\ link'.due
      /\ \/ ChildGone /\ ~ link'.up
         \/ UNCHANGED <<waits, running, touched>> /\ link'.up = link.up
  <2>1. link \in Links /\ link \in [gen : 1..MaxGen, up : BOOLEAN, lost : BOOLEAN, due : BOOLEAN]
    BY <1>0 DEF TypeOK, Links
  <2>2. CASE Disconnect
    BY <2>1, <2>2 DEF Disconnect, ChildGone, Pending, Links
  <2>3. CASE HeartbeatLost
    BY <2>1, <2>3 DEF HeartbeatLost, Pending, Links, requests
  <2> QED BY <2>2, <2>3
<1>2. /\ waits' \subseteq waits /\ (~ link'.up => waits' = {})
      /\ running' \subseteq Threads /\ touched' \in [Threads -> SUBSET Paths] /\ Latest'
  <2>1. CASE ChildGone /\ ~ link'.up
    BY <2>1 DEF ChildGone, Latest
  <2>2. CASE UNCHANGED <<waits, running, touched>> /\ link'.up = link.up
    BY <1>0, <1>1, <2>2, Forgetting DEF TypeOK, Recorded, Latest
  <2> QED BY <1>1, <2>1, <2>2
<1>3. TypeOK'
  BY <1>0, <1>1, <1>2, Forgetting DEF TypeOK, prompts, Links
<1>4. Stale' /\ PathsOfThisTurn'
  BY <1>1, Forgetting DEF Stale, PathsOfThisTurn
<1>5. Recorded' /\ Prompted'
  BY <1>0, <1>1, <1>2 DEF Recorded, Prompted, prompts
<1> QED BY <1>1, <1>2, <1>3, <1>4, <1>5 DEF EventsInv, OwnerDecides, DecidesWhatWasShown

\* A child that is closed leaves what it reported late and nothing else.
LEMMA ReconnectKeeps ==
    ASSUME EventsInv, Reconnect \/ Reinitialize
    PROVE  EventsInv'
<1>0. TypeOK /\ Recorded /\ Prompted /\ Latest /\ Stale /\ PathsOfThisTurn
  BY DEF EventsInv
<1>1. /\ log' = {} /\ UNCHANGED <<pend, keyOf, counter, owner, prompts, lastTurn, paths, strays>>
      /\ Pending' = Pending /\ link.due /\ asked' \in {asked, 0}
      /\ \/ link'.gen = link.gen + 1 /\ link.gen < MaxGen /\ waits' = {}
         \/ link'.gen = link.gen /\ asked' = asked /\ (link'.up => link.up)
      /\ \/ ChildGone
         \/ UNCHANGED <<waits, running, touched>> /\ link'.due
  <2>1. CASE Reconnect
    <3>1. CASE link.lost /\ link.gen < MaxGen /\ asked' = 0
               /\ link' = [gen |-> link.gen + 1, up |-> TRUE, lost |-> FALSE, due |-> FALSE]
      BY <1>0, <2>1, <3>1 DEF Reconnect, ChildGone, Pending
    <3>2. CASE link' = [link EXCEPT !.up = FALSE, !.due = link.lost] /\ UNCHANGED asked
      BY <1>0, <2>1, <3>2 DEF Reconnect, ChildGone, Pending, TypeOK
    <3> QED BY <2>1, <3>1, <3>2 DEF Reconnect
  <2>2. CASE Reinitialize
    <3>1. CASE link.up /\ link' = [link EXCEPT !.lost = FALSE] /\ UNCHANGED asked
      BY <1>0, <2>2, <3>1 DEF Reinitialize, Pending, TypeOK, turns
    <3>2. CASE ~link.up /\ link.gen < MaxGen /\ asked' = 0
               /\ link' = [link EXCEPT !.gen = @ + 1, !.up = TRUE, !.lost = FALSE]
      BY <1>0, <2>2, <3>2 DEF Reinitialize, Pending, TypeOK, Recorded, turns
    <3> QED BY <2>2, <3>1, <3>2 DEF Reinitialize
  <2> QED BY <2>1, <2>2
<1>2. link' \in Links /\ asked' \in 0..MaxReq /\ link.gen \in 1..MaxGen /\ (link'.lost => link'.due)
  <2> DEFINE g == link.gen + 1
  <2>1. link.gen \in 1..MaxGen /\ (link.gen < MaxGen => g \in 1..MaxGen) /\ (link.lost => link.due)
        /\ asked \in 0..MaxReq /\ link \in Links
    BY <1>0, Bounds DEF TypeOK, Links
  <2>2. asked' \in 0..MaxReq
    BY <1>1, <2>1, Bounds
  <2>3. \/ link' = [gen |-> g, up |-> TRUE, lost |-> FALSE, due |-> FALSE] /\ link.gen < MaxGen
        \/ link' = [link EXCEPT !.up = FALSE, !.due = link.lost]
        \/ link' = [link EXCEPT !.lost = FALSE]
        \/ link' = [link EXCEPT !.gen = g, !.up = TRUE, !.lost = FALSE] /\ link.gen < MaxGen
    BY <2>1 DEF Reconnect, Reinitialize, Links
  <2> HIDE DEF g
  <2>4. CASE link' = [gen |-> g, up |-> TRUE, lost |-> FALSE, due |-> FALSE] /\ link.gen < MaxGen
    BY <2>1, <2>2, <2>4 DEF Links
  <2>5. CASE link' = [link EXCEPT !.up = FALSE, !.due = link.lost]
    <3>1. link'.lost = link.lost /\ link'.due = link.lost /\ link' \in Links
      BY <2>1, <2>5 DEF Links
    <3> QED BY <2>1, <2>2, <3>1
  <2>6. CASE link' = [link EXCEPT !.lost = FALSE]
    BY <2>1, <2>2, <2>6 DEF Links
  <2>7. CASE link' = [link EXCEPT !.gen = g, !.up = TRUE, !.lost = FALSE] /\ link.gen < MaxGen
    BY <2>1, <2>2, <2>7 DEF Links
  <2> QED BY <2>3, <2>4, <2>5, <2>6, <2>7
<1>3. /\ waits' \subseteq waits /\ (~ link'.up => waits' = {})
      /\ running' \subseteq Threads /\ touched' \in [Threads -> SUBSET Paths] /\ Latest'
  <2>1. CASE ChildGone
    BY <2>1 DEF ChildGone, Latest
  <2>2. CASE Reinitialize
    BY <1>0, <2>2 DEF Reinitialize, TypeOK, Recorded, Latest, turns
  <2> QED BY <2>1, <2>2 DEF Reconnect
<1>4. TypeOK'
  <2>1. waits' # {} => asked' = asked
    BY <1>1 DEF ChildGone
  <2> QED BY <1>0, <1>1, <1>2, <1>3, <2>1 DEF TypeOK, prompts, Links
<1>5. Stale' /\ PathsOfThisTurn'
  BY <1>0, <1>1 DEF Stale, PathsOfThisTurn
<1>6. Prompted'
  BY <1>0, <1>1, <1>2 DEF Prompted, TypeOK, prompts
<1>7. Recorded'
  BY <1>0, <1>1, <1>3 DEF Recorded
<1> QED BY <1>1, <1>3, <1>4, <1>5, <1>6, <1>7 DEF EventsInv, OwnerDecides, DecidesWhatWasShown

LEMMA RestartKeeps ==
    ASSUME EventsInv, Restart
    PROVE  EventsInv'
<1>0. TypeOK /\ Prompted
  BY DEF EventsInv
<1>1. /\ link.gen < MaxGen /\ link' = [gen |-> link.gen + 1, up |-> TRUE, lost |-> FALSE, due |-> FALSE]
      /\ asked' = 0 /\ waits' = {} /\ counter' = 0
      /\ pend' = [n \in Numbers |-> NoApproval] /\ keyOf' = [c \in 1..MaxCode |-> 0]
      /\ running' = {} /\ lastTurn' = None /\ log' = {} /\ UNCHANGED <<owner, prompts>>
      /\ paths' = [t \in Threads |-> {}] /\ touched' = [t \in Threads |-> {}]
      /\ strays' = [t \in Threads |-> {}]
  BY DEF Restart
<1>2. link.gen \in 1..MaxGen /\ link'.gen = link.gen + 1 /\ Pending' = {}
      /\ link' \in Links /\ ~ link'.lost /\ ~ link'.due /\ 0 \in 0..MaxReq /\ 0 \in 0..MaxGen
  BY <1>0, <1>1, Bounds DEF TypeOK, Pending, Links
<1>3. 0 \in 0..MaxCode
  BY Bounds
<1>4. TypeOK'
  <2>1. pend' \in [Numbers -> [gen : 0..MaxGen, thread : Threads \cup {None}, code : 0..MaxCode]]
    BY <1>1, <1>2, <1>3 DEF NoApproval
  <2>2. keyOf' \in [1..MaxCode -> 0..MaxReq] /\ \A c \in 1..MaxCode : keyOf'[c] = 0
    BY <1>1, <1>2
  <2> QED BY <1>0, <1>1, <1>2, <1>3, <2>1, <2>2 DEF TypeOK, prompts, Links
<1>5. Prompted'
  BY <1>0, <1>1, <1>2 DEF Prompted, TypeOK, prompts
<1>6. Recorded'
  BY <1>1, <1>2 DEF Recorded
<1> QED BY <1>1, <1>2, <1>4, <1>5, <1>6 DEF EventsInv, OwnerDecides,
            DecidesWhatWasShown, Latest, Stale, PathsOfThisTurn

-------------------------------------------------------------------------------
LEMMA StepKeeps == EventsInv /\ [Next]_vars => EventsInv'
<1> SUFFICES ASSUME EventsInv, [Next]_vars PROVE EventsInv'
  OBVIOUS
<1>1. CASE UNCHANGED vars
  <2>1. UNCHANGED <<link, asked, waits, pend, keyOf, counter, owner, keys, cards, screen, log,
                    running, lastTurn, paths, touched, strays>>
    BY <1>1 DEF vars, requests, prompts, turns
  <2>2. Pending' = Pending
    BY <2>1 DEF Pending
  <2> QED BY <2>1, <2>2 DEF EventsInv, TypeOK, Recorded, Prompted, OwnerDecides,
            DecidesWhatWasShown, Latest, Stale, PathsOfThisTurn
<1>2. CASE Next
  BY <1>2, RequestKeeps, AnswersKeep, PromptsKeep, TurnsKeep, DisconnectKeeps, ReconnectKeeps,
     RestartKeeps DEF Next
<1> QED BY <1>1, <1>2

LEMMA Invariant == Spec => []EventsInv
BY InitHolds, StepKeeps, PTL DEF Spec

\* The types, of which the content is that codes and requests are recorded
\* under each other and that no code is given twice while the daemon lives.
THEOREM EventTypes == Spec => []TypeOK
BY Invariant, PTL DEF EventsInv

\* A request of an owned thread that is answered from a chat is answered by
\* its owner, through every reconnection (findPendingApproval and
\* resolveApproval look in two places).
THEOREM OnlyOwnersDecide == Spec => []OwnerDecides
BY Invariant, PTL DEF EventsInv

\* On one connection an answer decides the request that was shown with the
\* code or the id it carries.
THEOREM ShownIsDecided == Spec => []DecidesWhatWasShown
BY Invariant, PTL DEF EventsInv

\* The files offered when a turn ends were changed in that turn, except those
\* a child reported while the backoff timer was due that closes it: through any
\* drops, failed heartbeats, retries and restarts, what a timer finds collected
\* is late (handleDisconnect clears once, scheduleReconnect does not).
THEOREM OwnPaths == Spec => []PathsOfThisTurn
BY Invariant, PTL DEF EventsInv

=============================================================================
