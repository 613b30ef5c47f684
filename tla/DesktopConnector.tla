-------------------------- MODULE DesktopConnector --------------------------
(***************************************************************************)
(* The connection to Codex Desktop (connectors/codex-desktop/index.js over *)
(* json-rpc.js): who opens it, how a drop is noticed, and the two retry    *)
(* loops that share one timer.                                             *)
(*                                                                         *)
(* A JSON-RPC client owns one codex app-server child at a time.  Spawning  *)
(* it settles before any other event is handled, so connect-and-send is    *)
(* one step; the answer to a request is awaited.  Requests that change     *)
(* nothing here (thread/list, turn/start, ...) appear only as the child    *)
(* they may spawn.                                                         *)
(***************************************************************************)
EXTENDS Naturals, Sequences, SequencesExt

CONSTANTS
  MaxReconnectAttempts,  (* maxReconnectAttempts                             *)
  MaxManual              (* bound: uses of the "retry connect" button        *)

ASSUME ConnectorAssumption ==
  MaxReconnectAttempts \in Nat \ {0} /\ MaxManual \in Nat

VARIABLES
  conn,      (* the connector: its state, its one reconnectTimer, whether    *)
             (* heartbeatTimer is set, whether it gave up since last trying  *)
  client,    (* this.client: is its child up, has that child been initialized*)
  calls,     (* initialize requests awaiting their answer, oldest first      *)
  late,      (* those sent on clients that were closed and replaced since    *)
  heartbeat, (* the client the heartbeat being awaited was sent on           *)
  booted, manuals   (* the call made at start-up, and those of the button    *)

connectorVars == <<conn, client, calls, late, heartbeat, booted, manuals>>

NoTimer      == [kind |-> "none", attempt |-> 0]
FirstTimer   == [kind |-> "first", attempt |-> 0]
Backoff(n)   == [kind |-> "backoff", attempt |-> n]
FreshClient  == [up |-> FALSE, initialized |-> FALSE]

(* An initialize request: whose it is ("manual" stands for start-up too)    *)
(* and which attempt of the backoff.                                        *)
Call(who, n) == [who |-> who, attempt |-> n]

ConnectorInit ==
  /\ conn = [state |-> "not_connected", timer |-> NoTimer, beating |-> FALSE, gaveUp |-> FALSE]
  /\ client = FreshClient
  /\ calls = <<>> /\ late = <<>>
  /\ heartbeat = "none"
  /\ booted = FALSE /\ manuals = 0

---------------------------------------------------------------------------
(* Slip: the bound is one attempt too long.                                 *)
MutReconnectOneMore(k, n) ==
  IF k.timer # NoTimer THEN k
  ELSE IF n > MaxReconnectAttempts + 1 THEN [k EXCEPT !.state = "not_connected", !.gaveUp = TRUE]
  ELSE [k EXCEPT !.timer = Backoff(n)]

ScheduleReconnect(k, n) ==
  IF k.timer # NoTimer THEN k
  ELSE IF n > MaxReconnectAttempts THEN [k EXCEPT !.state = "not_connected", !.gaveUp = TRUE]
  ELSE [k EXCEPT !.timer = Backoff(n)]

ScheduleFirstConnectRetry(k) == IF k.timer = NoTimer THEN [k EXCEPT !.timer = FirstTimer] ELSE k

(* Slips: the heartbeat goes on; nothing is scheduled.                      *)
MutDisconnectKeepsBeating(k) ==
  IF k.state = "reconnecting" THEN k
  ELSE ScheduleReconnect([k EXCEPT !.state = "reconnecting", !.gaveUp = FALSE], 1)
MutDisconnectOnlyMarks(k) ==
  IF k.state = "reconnecting" THEN k
  ELSE [k EXCEPT !.state = "reconnecting", !.beating = FALSE, !.gaveUp = FALSE]

HandleDisconnect(k) ==
  IF k.state = "reconnecting" THEN k
  ELSE ScheduleReconnect([k EXCEPT !.state = "reconnecting", !.beating = FALSE, !.gaveUp = FALSE], 1)

Connected(k) == [k EXCEPT !.state = "connected", !.beating = TRUE, !.gaveUp = FALSE]

(* What follows a failed call: initialize() arms the quiet retry unless a   *)
(* drop owns the matter, and the two timers' own calls try again.           *)
InitializeFailed(k) == IF k.state = "reconnecting" THEN k ELSE ScheduleFirstConnectRetry(k)

Failed(k, c) ==
  CASE c.who = "manual"  -> InitializeFailed(k)
    [] c.who = "first"   -> ScheduleFirstConnectRetry(k)
    [] c.who = "backoff" -> ScheduleReconnect(InitializeFailed(k), c.attempt + 1)

---------------------------------------------------------------------------
(* requestInitialize on client cl: the child is spawned if there is none    *)
(* and the request is sent, or spawning fails and so does the call.         *)
RequestInitialize(k, cl, cs, c) ==
  \/ /\ client' = [cl EXCEPT !.up = TRUE]
     /\ calls' = Append(cs, c)
     /\ conn' = k
  \/ /\ ~cl.up
     /\ client' = cl
     /\ calls' = cs
     /\ conn' = Failed(k, c)

(* initialize(), at start-up and from the button: nothing when connected.   *)
Initialize ==
  IF conn.state = "connected" THEN UNCHANGED <<conn, client, calls>>
  ELSE RequestInitialize(conn, client, calls, Call("manual", 0))

Boot ==
  /\ ~booted
  /\ booted' = TRUE
  /\ Initialize
  /\ UNCHANGED <<late, heartbeat, manuals>>

RetryConnect ==
  /\ booted /\ manuals < MaxManual
  /\ manuals' = manuals + 1
  /\ Initialize
  /\ UNCHANGED <<late, heartbeat, booted>>

(* Any other request on a client without a child spawns one: thread lists   *)
(* and turns do not ask whether the connector is connected.                 *)
UseClient ==
  /\ booted /\ ~client.up
  /\ client' = [client EXCEPT !.up = TRUE]
  /\ UNCHANGED <<conn, calls, late, heartbeat, booted, manuals>>

(* client.close() and createClient(): the old child is killed, and what was *)
(* awaited on the old client is answered late or not at all.                *)
ClosesClient ==
  /\ late' = late \o calls
  /\ heartbeat' = IF heartbeat = "none" THEN "none" ELSE "closed"

ReplacesClient(k, c) == ClosesClient /\ RequestInitialize(k, FreshClient, <<>>, c)

FirstConnectTimer ==
  /\ conn.timer.kind = "first"
  /\ LET k == [conn EXCEPT !.timer = NoTimer]
     IN  IF conn.state = "connected"
         THEN conn' = k /\ UNCHANGED <<client, calls, late, heartbeat>>
         ELSE ReplacesClient(k, Call("first", 0))
  /\ UNCHANGED <<booted, manuals>>

(* The backoff timer does not ask for the state: it is initialize() that    *)
(* finds the connector connected, with the client already replaced.         *)
ReconnectTimer ==
  /\ conn.timer.kind = "backoff"
  /\ LET k == [conn EXCEPT !.timer = NoTimer]
     IN  IF conn.state = "connected"
         THEN /\ conn' = k
              /\ client' = FreshClient
              /\ calls' = <<>>
              /\ ClosesClient
         ELSE ReplacesClient(k, Call("backoff", conn.timer.attempt))
  /\ UNCHANGED <<booted, manuals>>

---------------------------------------------------------------------------
(* One client's requests are answered, and time out, in the order sent.     *)
(* The answer is a success, or "already initialized", which is one too.     *)
Answered ==
  /\ calls # <<>>
  /\ calls' = Tail(calls)
  /\ conn' = Connected(conn)
  /\ client' = [client EXCEPT !.initialized = TRUE]
  /\ UNCHANGED <<late, heartbeat, booted, manuals>>

(* An error answer, or the request's 30 s timeout.                          *)
CallFails ==
  /\ calls # <<>>
  /\ calls' = Tail(calls)
  /\ conn' = Failed(conn, Head(calls))
  /\ UNCHANGED <<client, late, heartbeat, booted, manuals>>

(* The same on a client that was closed: requestInitialize does not ask     *)
(* whose answer it has awaited.                                             *)
LateCallSettles ==
  /\ late # <<>>
  /\ late' = Tail(late)
  /\ conn' \in {Connected(conn), Failed(conn, Head(late))}
  /\ UNCHANGED <<client, calls, heartbeat, booted, manuals>>

(* The current child exits: handleClose rejects everything awaited on it,   *)
(* and the owner is told first.  At most one of the calls is a timer's.     *)
IsTimers(c) == c.who # "manual"

ChildExits ==
  /\ client.up
  /\ client' = FreshClient
  /\ calls' = <<>>
  /\ heartbeat' = IF heartbeat = "current" THEN "none" ELSE heartbeat
  /\ LET own == {c \in ToSet(calls) : IsTimers(c)}
         k   == HandleDisconnect(conn)
     IN  conn' = IF own = {} THEN k ELSE Failed(k, CHOOSE c \in own : TRUE)
  /\ UNCHANGED <<late, booted, manuals>>

---------------------------------------------------------------------------
(* The heartbeat's interval fires: 45 s apart, so the last one is settled.  *)
SendHeartbeat ==
  /\ conn.beating /\ conn.state = "connected" /\ heartbeat = "none"
  /\ \/ client' = [client EXCEPT !.up = TRUE] /\ heartbeat' = "current" /\ UNCHANGED conn
     \/ ~client.up /\ conn' = HandleDisconnect(conn) /\ UNCHANGED <<client, heartbeat>>
  /\ UNCHANGED <<calls, late, booted, manuals>>

(* Only an initialized app-server answers thread/list without an error; one *)
(* that was killed may have answered before, and else the request times out.*)
HeartbeatAnswered ==
  /\ heartbeat = "current" => client.initialized
  /\ heartbeat # "none"
  /\ heartbeat' = "none"
  /\ UNCHANGED <<conn, client, calls, late, booted, manuals>>

(* Slip: a failed heartbeat is swallowed.                                   *)
MutHeartbeatIgnored ==
  /\ heartbeat # "none"
  /\ heartbeat' = "none"
  /\ UNCHANGED <<conn, client, calls, late, booted, manuals>>

HeartbeatFails ==
  /\ heartbeat # "none"
  /\ heartbeat' = "none"
  /\ conn' = HandleDisconnect(conn)
  /\ UNCHANGED <<client, calls, late, booted, manuals>>

---------------------------------------------------------------------------
Settle == Answered \/ CallFails \/ LateCallSettles

ConnectorNext ==
  \/ Boot \/ RetryConnect \/ UseClient
  \/ FirstConnectTimer \/ ReconnectTimer
  \/ Settle \/ ChildExits
  \/ SendHeartbeat \/ HeartbeatAnswered \/ HeartbeatFails

ConnectorSpec == ConnectorInit /\ [][ConnectorNext]_connectorVars

(* Timers fire, a request is answered or times out, and the heartbeat's     *)
(* interval comes round.  Nothing makes a child spawn, stay up or answer.   *)
Fairness ==
  /\ WF_connectorVars(Boot)
  /\ WF_connectorVars(FirstConnectTimer \/ ReconnectTimer)
  /\ WF_connectorVars(Settle)
  /\ WF_connectorVars(SendHeartbeat)
  /\ WF_connectorVars(HeartbeatAnswered \/ HeartbeatFails)

FairSpec == ConnectorSpec /\ Fairness

---------------------------------------------------------------------------
States == {"not_connected", "connected", "reconnecting"}
Timers == {NoTimer, FirstTimer} \cup {Backoff(n) : n \in 1 .. MaxReconnectAttempts}

Calls == [who: {"manual", "first", "backoff"}, attempt: 0 .. MaxReconnectAttempts]

(* Every variable has its type; no attempt is counted past the limit.       *)
ConnectorTypeOK ==
  /\ conn \in [state: States, timer: Timers, beating: BOOLEAN, gaveUp: BOOLEAN]
  /\ client \in [up: BOOLEAN, initialized: BOOLEAN]
  /\ {calls, late} \subseteq Seq(Calls)
  /\ heartbeat \in {"none", "current", "closed"}
  /\ booted \in BOOLEAN /\ manuals \in 0 .. MaxManual

(* Some timer's call is awaited, on the current client or on an old one.    *)
Trying == \E c \in ToSet(calls) \cup ToSet(late) : IsTimers(c)

(* The heartbeat runs exactly while the connector says "connected": never   *)
(* over a connection being rebuilt, and never missing from one in use,      *)
(* where it is all that notices a half-open child (index.js:162).           *)
BeatsWhileConnected == conn.beating <=> conn.state = "connected"

(* No way of failing ends the retrying silently: while the connector is     *)
(* reconnecting a timer is armed or a timer's call is awaited, and after    *)
(* start-up it is never idle unless it gave up and said so.                 *)
NeverAbandoned ==
  /\ conn.state = "reconnecting" => conn.timer # NoTimer \/ Trying
  /\ conn.state = "not_connected" /\ booted /\ ~conn.gaveUp =>
       conn.timer # NoTimer \/ calls # <<>> \/ late # <<>>

(* "connected" means what the phone is told it means: the current client's  *)
(* child is up and has accepted initialize.                                 *)
ConnectedIsInitialized ==
  conn.state = "connected" => client.up /\ client.initialized

(* It need not be: the backoff timer replaces the client the button has     *)
(* just connected, and a late answer of a closed client counts.  But the    *)
(* connector never goes on saying so: the heartbeat finds it out            *)
(* (index.js:162), whatever it interleaves with.                            *)
FalseConnectionHeals == (~ConnectedIsInitialized) ~> ConnectedIsInitialized

=============================================================================
