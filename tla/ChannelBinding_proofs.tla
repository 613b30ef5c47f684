------------------------ MODULE ChannelBinding_proofs ------------------------
(***************************************************************************)
(* Proofs about ChannelBinding, for any number of credentials, drivers,    *)
(* requests, slots and crashes: the types, that what was answered is       *)
(* saved, that a running channel listens and that nothing else does.       *)
(***************************************************************************)
EXTENDS ChannelBinding, SequenceTheorems, TLAPS

(***************************************************************************)
(* The inductive invariant.                                                *)
(***************************************************************************)
Configs == [enabled : BOOLEAN, cred : 0..MaxCreds, linked : BOOLEAN, code : BOOLEAN]
Links == [opening : Nat, client : BOOLEAN, on : BOOLEAN, poll : Nat, wait : Nat,
          handle : Nat, abort : BOOLEAN]

\* A pairing code is there for a telegram bot nobody is paired with yet.
Coded(c) == c.code => kind = "telegram" /\ ~c.linked

Typed ==
    /\ kind \in Kinds /\ {running, relogin, raced} \subseteq BOOLEAN
    /\ config \in Configs /\ Coded(config) /\ disk \in Configs /\ Coded(disk)
    /\ drivers \in Seq(0..MaxCreds) /\ Len(drivers) <= MaxDrivers
    /\ driver \in {0, Len(drivers)} /\ fetch \in 0..Len(drivers)
    /\ IF HasDriver(config) THEN driver # 0 /\ drivers[driver] = config.cred ELSE driver = 0
    /\ running => driver # 0

\* What a driver of this kind of channel can have open.
Fits(k) ==
    /\ k \in Links
    /\ kind \notin Sdk => k.opening = 0 /\ ~k.client
    /\ kind # "telegram" => Loops(k) = 0 /\ ~k.on /\ ~k.abort
    /\ k.abort => k.poll > 0
    /\ k.on => Loops(k) > 0

Streams ==
    /\ links \in [1..MaxDrivers -> Links]
    /\ \A d \in 1..MaxDrivers : Fits(links[d]) /\ (d > Len(drivers) => links[d] = NoLink)

\* It listens, or opens, backs off or handles updates to listen again.
Alive(k) ==
    /\ kind \in Sdk => k.opening > 0 \/ k.client
    /\ kind = "telegram" => k.on
Lives == running => Alive(links[driver])

\* It opens nothing and polls nothing; the loop that backs off or handles
\* updates, if there is one, will end.
Silent(k) == k.opening = 0 /\ ~k.client /\ ~k.on /\ k.poll = 0 /\ Loops(k) <= 1
\* One client or one loop, whose poll a stop can abort.
Lone(k) ==
    /\ k.opening > 0 => k.opening = 1 /\ ~k.client
    /\ Loops(k) <= 1 /\ (k.poll > 0 => k.abort)

\* The driver of a running channel is alone, every other one is silent.
Alone ==
    ~raced => \A d \in 1..Len(drivers) :
                  IF running /\ d = driver THEN Lone(links[d]) ELSE Silent(links[d])

Host == Typed /\ Streams /\ Lives /\ Alone

\* What a request can have before it.
Todos == {<<>>, <<"ask">>, <<"name", "persist", "start">>, <<"persist", "start">>, <<"start">>,
          <<"start", "persist">>, <<"persist">>, <<"code", "begin">>, <<"code", "begin", "persist">>,
          <<"begin">>, <<"begin", "persist">>}
Askers == {"page", "login", "onboard", "boot", "user", "bot"}
Results == {"none", "pending", "confirmed", "expired", "failed", "error"}
Jobs == [by : Askers \cup {"none"}, login : 0..MaxCreds, todo : Todos, res : Results, unsaved : BOOLEAN]

\* A save is still to come.
Saves(t) == \E i \in DOMAIN t : t[i] \in {"persist", "code"}

\* The platform is asked about a login; what a request changed it saves, or
\* ends with an error.
Sound(j) ==
    /\ j.todo = <<"ask">> => j.login \in Logins /\ ~j.unsaved
    /\ j.unsaved /\ j.res # "error" => Saves(j.todo)
    /\ j.by = "none" => j.todo = <<>>

Desk == jobs \in [Slots -> Jobs] /\ \A s \in Slots : Sound(jobs[s])

Pages == [active : 0..MaxCreds, timers : SUBSET Logins, starting : Nat, overtaken : SUBSET Logins]
Around ==
    /\ svc \in [login : [Logins -> {"none", "open", "confirmed", "expired"}], refused : SUBSET Creds]
    /\ page \in Pages
    /\ cli \in [by : {"none", "login", "onboard"}, login : 0..MaxCreds, left : 0..Budget]
    /\ cli.left > 0 => cli.login \in Logins /\ cli.by # "none"
    /\ requests \in Nat /\ crashes \in Nat /\ requests <= MaxRequests /\ crashes <= MaxCrashes

Inv == Host /\ Desk /\ Around

-------------------------------------------------------------------------------
(***************************************************************************)
(* Streams.                                                                *)
(***************************************************************************)
LEMMA KindsAre ==
    ASSUME Typed
    PROVE  /\ kind \in Sdk \/ kind = "telegram" \/ kind = "wechat"
           /\ kind \in Sdk => kind # "telegram"
BY BindingAssumption DEF Typed, Sdk, Qr

LEMMA LoopsAre ==
    ASSUME NEW k, NEW p \in Nat, NEW w \in Nat, NEW h \in Nat, k.poll = p, k.wait = w, k.handle = h
    PROVE  Loops(k) = p + w + h /\ Loops(k) \in Nat
BY DEF Loops

LEMMA LoopsBound ==
    ASSUME NEW k \in Links
    PROVE  Loops(k) \in Nat /\ (Loops(k) = 0 => k.poll = 0)
<1>1. PICK p \in Nat, w \in Nat, h \in Nat : k.poll = p /\ k.wait = w /\ k.handle = h
  BY DEF Links
<1>2. Loops(k) = p + w + h
  BY <1>1, LoopsAre
<1> QED BY <1>1, <1>2

LEMMA BeginFits ==
    ASSUME Typed, NEW k, Fits(k)
    PROVE  /\ Fits(Begin(k)) /\ Alive(Begin(k))
           /\ k.opening = 0 /\ ~k.client /\ Loops(k) = 0 => Lone(Begin(k))
<1>1. k \in Links
  BY DEF Fits
<1>2. CASE kind \in Sdk
  <2> DEFINE n == k.opening + 1
  <2>1. Begin(k) = [k EXCEPT !.opening = n] /\ n = k.opening + 1 /\ n \in Nat
    BY <1>1, <1>2, KindsAre DEF Begin, Links
  <2> HIDE DEF n
  <2>2. /\ Begin(k) \in Links /\ Begin(k).opening = k.opening + 1 /\ Begin(k).client = k.client
        /\ Begin(k).poll = k.poll /\ Begin(k).wait = k.wait /\ Begin(k).handle = k.handle /\ Begin(k).on = k.on
        /\ Begin(k).abort = k.abort
    BY <1>1, <2>1 DEF Links
  <2>3. kind # "telegram" /\ k.opening \in Nat
    BY <1>1, <1>2, KindsAre DEF Links
  <2>4. Loops(Begin(k)) = Loops(k)
    BY <2>2 DEF Loops
  <2>5. Loops(k) = 0 /\ k.poll = 0 /\ ~k.on /\ ~k.abort
    BY <1>1, <2>3, LoopsBound DEF Fits
  <2> QED BY <1>2, <2>2, <2>3, <2>4, <2>5 DEF Fits, Alive, Lone
<1>3. CASE kind = "telegram" /\ ~k.on
  <2> DEFINE n == k.poll + 1
  <2>1. Begin(k) = [k EXCEPT !.on = TRUE, !.poll = n, !.abort = TRUE] /\ n = k.poll + 1 /\ n \in Nat
    BY <1>1, <1>3, KindsAre DEF Begin, Links
  <2> HIDE DEF n
  <2>2. /\ Begin(k) \in Links /\ Begin(k).opening = k.opening /\ Begin(k).client = k.client
        /\ Begin(k).poll = k.poll + 1 /\ Begin(k).wait = k.wait /\ Begin(k).handle = k.handle /\ Begin(k).on
        /\ Begin(k).abort
    BY <1>1, <2>1 DEF Links
  <2>3. kind \notin Sdk /\ k.poll \in Nat /\ k.wait \in Nat /\ k.handle \in Nat
    BY <1>1, <1>3, KindsAre DEF Links
  <2> QED BY <1>3, <2>2, <2>3 DEF Fits, Alive, Lone, Loops
<1>4. CASE kind \notin Sdk /\ ~(kind = "telegram" /\ ~k.on)
  <2>1. Begin(k) = k
    BY <1>4 DEF Begin
  <2>2. k.poll \in Nat /\ k.wait \in Nat /\ k.handle \in Nat
    BY <1>1 DEF Links
  <2> QED BY <1>4, <2>1, <2>2 DEF Fits, Alive, Lone, Loops
<1> QED BY <1>2, <1>3, <1>4

LEMMA CeaseFits ==
    ASSUME Typed, NEW k, Fits(k)
    PROVE  /\ Fits(Cease(k))
           /\ k.opening = 0 /\ (Silent(k) \/ Lone(k)) => Silent(Cease(k))
<1>1. k \in Links
  BY DEF Fits
<1>2. CASE kind \in Sdk
  <2>1. Cease(k) = [k EXCEPT !.client = FALSE]
    BY <1>2, KindsAre DEF Cease
  <2>2. /\ Cease(k) \in Links /\ Cease(k).opening = k.opening /\ ~Cease(k).client
        /\ Cease(k).poll = k.poll /\ Cease(k).wait = k.wait /\ Cease(k).handle = k.handle /\ Cease(k).on = k.on
        /\ Cease(k).abort = k.abort
    BY <1>1, <2>1 DEF Links
  <2>3. kind # "telegram" /\ Loops(Cease(k)) = Loops(k)
    BY <1>2, <2>2, KindsAre DEF Loops
  <2>4. Loops(k) = 0 /\ k.poll = 0 /\ ~k.on /\ ~k.abort
    BY <1>1, <2>3, LoopsBound DEF Fits
  <2> QED BY <1>2, <2>2, <2>3, <2>4 DEF Fits, Silent
<1>3. CASE kind = "telegram"
  <2> DEFINE n == IF k.abort THEN k.poll - 1 ELSE k.poll
  <2>1. n \in Nat /\ k.poll \in Nat /\ k.wait \in Nat /\ k.handle \in Nat
    BY <1>1 DEF Fits, Links
  <2>2. Cease(k) = [k EXCEPT !.on = FALSE, !.abort = FALSE, !.poll = n]
    BY <1>3, KindsAre DEF Cease
  <2>3. (Silent(k) \/ Lone(k)) => n = 0 /\ Loops(k) <= 1
    BY <1>1, <2>1 DEF Silent, Lone, Fits, Links, Loops
  <2> HIDE DEF n
  <2>4. /\ Cease(k) \in Links /\ Cease(k).opening = k.opening /\ Cease(k).client = k.client
        /\ Cease(k).poll = n /\ Cease(k).wait = k.wait /\ Cease(k).handle = k.handle /\ ~Cease(k).on /\ ~Cease(k).abort
    BY <1>1, <2>1, <2>2 DEF Links
  <2>5. kind \notin Sdk
    BY <1>3, KindsAre
  <2> QED BY <1>3, <2>1, <2>3, <2>4, <2>5 DEF Fits, Silent, Loops
<1>4. CASE kind \notin Sdk /\ kind # "telegram"
  <2>1. Cease(k) = k
    BY <1>4 DEF Cease
  <2> QED BY <1>1, <1>4, <2>1 DEF Fits, Silent, Lone, Links, Loops
<1> QED BY <1>2, <1>3, <1>4

LEMMA NoLinkFits ==
    /\ Fits(NoLink) /\ Silent(NoLink)
    /\ NoLink.opening = 0 /\ ~NoLink.client /\ Loops(NoLink) = 0
BY DEF NoLink, Fits, Silent, Links, Loops

\* The driver d gets the link n; the others are as alone or silent as before.
LEMMA LinkMoves ==
    ASSUME Host, NEW d \in 1..Len(drivers), NEW n, Fits(n), links' = [links EXCEPT ![d] = n],
           UNCHANGED <<kind, drivers, driver>>, raced => raced',
           running' => running \/ d = driver,
           running' /\ d = driver => Alive(n),
           \A e \in 1..Len(drivers) : e # d /\ ~raced' =>
               (running' /\ e = driver <=> running /\ e = driver),
           ~raced' => IF running' /\ d = driver THEN Lone(n) ELSE Silent(n)
    PROVE  Streams' /\ Lives' /\ Alone'
<1>1. Len(drivers) \in Nat /\ Len(drivers) <= MaxDrivers /\ MaxDrivers \in Nat
  BY BindingAssumption DEF Host, Typed
<1>2. \A e \in 1..MaxDrivers : links'[e] = IF e = d THEN n ELSE links[e]
  BY <1>1 DEF Host, Streams
<1>3. Streams'
  BY <1>1, <1>2 DEF Host, Streams, Fits, Loops
<1>4. driver \in 1..MaxDrivers \/ driver = 0
  BY <1>1 DEF Host, Typed
<1>5. Lives'
  <2> SUFFICES ASSUME running' PROVE Alive(links[driver])'
    BY DEF Lives
  <2>1. CASE d = driver
    <3>1. links'[driver'] = n
      BY <1>1, <1>2, <2>1
    <3> QED BY <2>1, <3>1 DEF Alive
  <2>2. CASE d # driver
    <3>1. running /\ driver # 0
      BY <2>2 DEF Host, Typed
    <3>2. links'[driver'] = links[driver]
      BY <1>2, <1>4, <2>2, <3>1
    <3> QED BY <3>1, <3>2 DEF Host, Lives, Alive
  <2> QED BY <2>1, <2>2
<1>6. Alone'
  <2> SUFFICES ASSUME ~raced', NEW e \in 1..Len(drivers)
               PROVE  IF running' /\ e = driver THEN Lone(links'[e]) ELSE Silent(links'[e])
    BY DEF Alone, Lone, Silent, Loops
  <2>1. CASE e = d
    BY <1>1, <1>2, <2>1
  <2>2. CASE e # d
    <3>1. links'[e] = links[e]
      BY <1>1, <1>2, <2>2
    <3> QED BY <2>2, <3>1 DEF Host, Alone
  <2> QED BY <2>1, <2>2
<1> QED BY <1>3, <1>5, <1>6

\* What a step that leaves the drivers and the configuration alone keeps.
LEMMA TypedStays ==
    ASSUME Typed, UNCHANGED <<kind, config, disk, drivers, driver, fetch>>,
           relogin' \in BOOLEAN, running' \in BOOLEAN, running' => driver # 0, raced' \in BOOLEAN
    PROVE  Typed'
BY DEF Typed, HasDriver, Coded, Configs

\* The steps of the driver d's stream.
StreamMoves(d) ==
    \/ Opened(d) \/ OpenFails(d) \/ PollFails(d) \/ BackoffEnds(d)
    \/ PollReturns(d) \/ PollRefused(d) \/ HandlingEnds(d)

LEMMA StreamKeeps ==
    ASSUME Host, NEW d \in 1..Len(drivers),
           StreamMoves(d)
    PROVE  Host'
<1> DEFINE k == links[d]
<1>1. /\ Len(drivers) \in Nat /\ d \in 1..MaxDrivers /\ Typed /\ links \in [1..MaxDrivers -> Links]
      /\ running \in BOOLEAN /\ raced \in BOOLEAN
  BY BindingAssumption DEF Host, Typed, Streams
<1>2. Fits(k) /\ k \in Links
  BY <1>1 DEF Host, Streams, Fits, Loops
<1>3. running /\ d = driver => Alive(k)
  BY DEF Host, Lives
<1>4. ~raced => IF running /\ d = driver THEN Lone(k) ELSE Silent(k)
  BY DEF Host, Alone
<1>5. kind \in Sdk => kind # "telegram"
  BY <1>1, KindsAre
<1>6. /\ k.opening \in Nat /\ k.client \in BOOLEAN /\ k.on \in BOOLEAN /\ k.poll \in Nat
      /\ k.wait \in Nat /\ k.handle \in Nat /\ k.abort \in BOOLEAN
  BY <1>2 DEF Links
<1>19. PICK x \in Nat, y \in Nat, z \in Nat : x = k.poll /\ y = k.wait /\ z = k.handle
  BY <1>6
<1>20. Loops(k) = x + y + z
  BY <1>19, LoopsAre
<1>7. ASSUME NEW n, Fits(n), links' = [links EXCEPT ![d] = n], UNCHANGED <<kind, config, disk, drivers, driver, relogin, fetch, raced>>,
             running' = running, running /\ d = driver => Alive(n),
             ~raced => IF running /\ d = driver THEN Lone(n) ELSE Silent(n)
      PROVE  Host'
  <2>1. Typed'
    BY <1>1, <1>7, TypedStays DEF Typed
  <2>2. Streams' /\ Lives' /\ Alone'
    BY <1>7, LinkMoves
  <2> QED BY <2>1, <2>2 DEF Host
<1>8. ASSUME NEW n, Fits(n), links' = [links EXCEPT ![d] = n], UNCHANGED <<kind, config, disk, drivers, driver, relogin, fetch, raced>>,
             running' = FALSE, ~Silent(k), ~raced => Silent(n)
      PROVE  Host'
  <2>1. Typed'
    BY <1>1, <1>8, TypedStays DEF Typed
  <2>2. ~raced => d = driver
    BY <1>4, <1>8
  <2>3. Streams' /\ Lives' /\ Alone'
    BY <1>8, <2>2, LinkMoves
  <2> QED BY <2>1, <2>3 DEF Host
<1>9. CASE Opened(d)
  <2> DEFINE o == k.opening - 1
             n == [k EXCEPT !.opening = o, !.client = TRUE]
  <2>1. k.opening > 0 /\ o \in Nat /\ o = k.opening - 1
    BY <1>6, <1>9 DEF Opened
  <2> HIDE DEF o
  <2>5. links' = [links EXCEPT ![d] = n]
    BY <1>1, <1>9, <2>1 DEF Opened
  <2>2. n \in Links /\ n.opening = o /\ n.client /\ n.on = k.on /\ n.poll = k.poll /\ n.wait = k.wait
        /\ n.handle = k.handle /\ n.abort = k.abort
    BY <1>2, <1>6, <2>1 DEF Links
  <2> HIDE DEF n
  <2>3. Fits(n) /\ Alive(n)
    BY <1>2, <1>5, <1>6, <2>1, <2>2 DEF Fits, Alive, Loops
  <2>4. ~raced => running /\ d = driver /\ Lone(n)
    BY <1>2, <1>4, <1>6, <2>1, <2>2 DEF Lone, Silent, Loops
  <2> QED BY <1>7, <1>9, <2>5, <2>3, <2>4 DEF Opened
<1>10. CASE OpenFails(d) /\ k.opening > 0 /\ links' = [links EXCEPT ![d].opening = @ - 1]
  <2> DEFINE o == k.opening - 1
             n == [k EXCEPT !.opening = o]
  <2>1. o \in Nat /\ o = k.opening - 1 /\ links' = [links EXCEPT ![d] = n]
    BY <1>1, <1>6, <1>10
  <2> HIDE DEF o
  <2>2. n \in Links /\ n.opening = o /\ n.client = k.client /\ n.on = k.on /\ n.poll = k.poll /\ n.wait = k.wait
        /\ n.handle = k.handle /\ n.abort = k.abort
    BY <1>2, <1>6, <2>1 DEF Links
  <2> HIDE DEF n
  <2>5. Loops(n) = Loops(k)
    BY <2>2 DEF Loops
  <2>3. Fits(n)
    BY <1>2, <1>5, <1>6, <1>10, <2>1, <2>2, <2>5 DEF Fits
  <2>4. ~Silent(k) /\ (~raced => Silent(n))
    <3>1. kind \in Sdk /\ k.poll = 0 /\ ~k.on
      BY <1>2, <1>5, <1>10, <1>19, <1>20 DEF Fits
    <3> QED BY <1>4, <1>6, <1>10, <2>1, <2>2, <2>5, <3>1 DEF Lone, Silent
  <2> QED BY <1>8, <1>10, <2>1, <2>3, <2>4 DEF OpenFails
<1>11. CASE OpenFails(d) /\ k.client /\ links' = [links EXCEPT ![d].client = FALSE]
  <2> DEFINE n == [k EXCEPT !.client = FALSE]
  <2>1. links' = [links EXCEPT ![d] = n]
    BY <1>1, <1>6, <1>11
  <2>2. n \in Links /\ n.opening = k.opening /\ ~n.client /\ n.on = k.on /\ n.poll = k.poll /\ n.wait = k.wait
        /\ n.handle = k.handle /\ n.abort = k.abort
    BY <1>2, <1>6, <2>1 DEF Links
  <2> HIDE DEF n
  <2>5. Loops(n) = Loops(k)
    BY <2>2 DEF Loops
  <2>3. Fits(n)
    BY <1>2, <1>5, <1>6, <1>11, <2>2, <2>5 DEF Fits
  <2>4. ~Silent(k) /\ (~raced => Silent(n))
    <3>1. kind \in Sdk /\ k.poll = 0 /\ ~k.on
      BY <1>2, <1>5, <1>11, <1>19, <1>20 DEF Fits
    <3> QED BY <1>4, <1>6, <1>11, <2>2, <2>5, <3>1 DEF Lone, Silent
  <2> QED BY <1>8, <1>11, <2>1, <2>3, <2>4 DEF OpenFails
\* A poll ends, and its loop backs off or handles updates.
<1>12. ASSUME NEW w \in Nat, NEW h \in Nat, w + h = y + z + 1,
             PollEnds(d, [k EXCEPT !.wait = w, !.handle = h]),
             UNCHANGED <<kind, config, disk, drivers, driver, running, relogin, raced, fetch>>
      PROVE  Host'
  <2> DEFINE e == [k EXCEPT !.wait = w, !.handle = h]
  <2>1. /\ e \in Links /\ e.opening = k.opening /\ e.client = k.client /\ e.on = k.on /\ e.poll = k.poll
        /\ e.wait = w /\ e.handle = h /\ e.abort = k.abort
    BY <1>2, <1>12 DEF Links
  <2>2. PollEnds(d, e)
    BY <1>12
  <2> HIDE DEF e
  <2>3. PICK latest \in BOOLEAN :
            /\ latest \/ k.poll > 1 \/ ~k.abort
            /\ links' = [links EXCEPT ![d] = [e EXCEPT !.poll = k.poll - 1, !.abort = ~latest /\ k.abort]]
    BY <2>1, <2>2 DEF PollEnds
  <2> DEFINE p == k.poll - 1
             a == ~latest /\ k.abort
             n == [e EXCEPT !.poll = p, !.abort = a]
  <2>4. k.poll > 0 /\ p \in Nat /\ p = x - 1 /\ a \in BOOLEAN
    BY <1>6, <1>19, <2>1, <2>2 DEF PollEnds
  <2>5. a => k.abort /\ p > 0
    BY <1>6, <2>3
  <2>6. links' = [links EXCEPT ![d] = n]
    BY <2>3
  <2> HIDE DEF p, a
  <2>7. n \in Links /\ n.opening = k.opening /\ n.client = k.client /\ n.on = k.on /\ n.poll = p /\ n.wait = w
        /\ n.handle = h /\ n.abort = a
    BY <2>1, <2>4 DEF Links
  <2> HIDE DEF n
  <2>8. Loops(n) = Loops(k) /\ Loops(k) > 0
    <3>3. p \in Nat /\ n.poll = p /\ n.wait = w /\ n.handle = h
      BY <2>4, <2>7
    <3>1. Loops(n) = p + w + h
      BY <3>3, LoopsAre
    <3>2. x > 0 /\ p = x - 1
      BY <1>19, <2>4
    <3>4. w + h = y + z + 1
      BY <1>12
    <3>5. p + w + h = x + y + z
      BY <3>2, <3>3, <3>4
    <3> QED BY <1>20, <3>1, <3>2, <3>5
  <2>9. Fits(n) /\ (Alive(k) => Alive(n))
    BY <1>2, <1>5, <2>5, <2>7, <2>8 DEF Fits, Alive
  <2>10. (Lone(k) => Lone(n)) /\ ~Silent(k)
    <3>1. ASSUME Lone(k) PROVE Lone(n)
      <4>1. x + y + z <= 1
        BY <1>20, <3>1 DEF Lone
      <4>2. p = 0
        BY <2>4, <4>1
      <4> QED BY <2>7, <2>8, <3>1, <4>2 DEF Lone
    <3> QED BY <2>4, <3>1 DEF Silent
  <2> QED BY <1>3, <1>4, <1>7, <1>12, <2>6, <2>9, <2>10
<1>13. CASE PollFails(d)
  <2> DEFINE w == k.wait + 1
  <2>3. w \in Nat /\ w = y + 1
    BY <1>6, <1>19
  <2>1. w \in Nat /\ w + z = y + z + 1
    BY <2>3
  <2>2. PollEnds(d, [k EXCEPT !.wait = w]) /\ [k EXCEPT !.wait = w] = [k EXCEPT !.wait = w, !.handle = z]
    BY <1>2, <1>13, <1>19 DEF PollFails, Links
  <2> HIDE DEF w
  <2> QED BY <1>6, <1>12, <1>13, <2>1, <2>2 DEF PollFails
<1>14. CASE PollReturns(d)
  <2> DEFINE h == k.handle + 1
  <2>1. h \in Nat /\ y + h = y + z + 1
    BY <1>6, <1>19
  <2>2. PollEnds(d, [k EXCEPT !.handle = h]) /\ [k EXCEPT !.handle = h] = [k EXCEPT !.wait = y, !.handle = h]
    BY <1>2, <1>14, <1>19 DEF PollReturns, Links
  <2> HIDE DEF h
  <2> QED BY <1>6, <1>12, <1>14, <2>1, <2>2 DEF PollReturns
\* A loop that backed off or handled updates polls again or ends.
<1>15. ASSUME NEW w \in Nat, NEW h \in Nat, w + h + 1 = y + z,
             GoesOn(d, [k EXCEPT !.wait = w, !.handle = h]),
             UNCHANGED <<kind, config, disk, drivers, driver, running, relogin, raced, fetch>>
      PROVE  Host'
  <2> DEFINE e == [k EXCEPT !.wait = w, !.handle = h]
             p == IF k.on THEN k.poll + 1 ELSE k.poll
             a == k.on \/ k.abort
             n == [e EXCEPT !.poll = p, !.abort = a]
  <2>1. /\ e \in Links /\ e.opening = k.opening /\ e.client = k.client /\ e.on = k.on /\ e.poll = k.poll
        /\ e.wait = w /\ e.handle = h /\ e.abort = k.abort
    BY <1>2, <1>15 DEF Links
  <2>2. GoesOn(d, e)
    BY <1>15
  <2> HIDE DEF e
  <2>3. links' = [links EXCEPT ![d] = n]
    BY <2>1, <2>2 DEF GoesOn
  <2>4. p \in Nat /\ p = (IF k.on THEN x + 1 ELSE x) /\ a \in BOOLEAN
    BY <1>6, <1>19
  <2>5. (a => k.on \/ k.abort) /\ (k.on => a)
    OBVIOUS
  <2> HIDE DEF p, a
  <2>6. n \in Links /\ n.opening = k.opening /\ n.client = k.client /\ n.on = k.on /\ n.poll = p /\ n.wait = w
        /\ n.handle = h /\ n.abort = a
    BY <2>1, <2>4 DEF Links
  <2> HIDE DEF n
  <2>7. Loops(n) = p + w + h
    BY <1>15, <2>4, <2>6, LoopsAre
  <2>8. Loops(n) \in Nat /\ Loops(n) <= Loops(k) /\ Loops(k) \in Nat /\ (k.on => Loops(n) > 0 /\ p > 0)
    <3>1. w + h + 1 = y + z
      BY <1>15
    <3>2. p = x \/ (k.on /\ p = x + 1)
      BY <2>4
    <3>3. p + w + h <= x + y + z /\ (p = x + 1 => p + w + h > 0 /\ p > 0)
      BY <2>4, <3>1, <3>2
    <3>4. k.on => p = x + 1
      BY <2>4
    <3> QED BY <1>20, <2>4, <2>7, <3>3, <3>4
  <2>9. Fits(n) /\ (Alive(k) => Alive(n))
    <3>1. k.abort /\ ~k.on => p > 0
      BY <1>2, <1>19, <2>4 DEF Fits
    <3>2. kind # "telegram" => Loops(n) = 0
      BY <1>2, <2>8 DEF Fits
    <3> QED BY <1>2, <1>5, <2>5, <2>6, <2>8, <3>1, <3>2 DEF Fits, Alive
  <2>10. (Lone(k) => Lone(n)) /\ (Silent(k) => Silent(n))
    <3>1. ASSUME Lone(k) PROVE Lone(n)
      <4>1. x + y + z <= 1
        BY <1>20, <3>1 DEF Lone
      <4>2. x = 0 /\ Loops(n) <= 1
        BY <1>15, <1>20, <2>8, <4>1
      <4>3. p > 0 => a
        BY <2>4, <2>5, <4>2
      <4> QED BY <2>6, <3>1, <4>2, <4>3 DEF Lone
    <3>2. ASSUME Silent(k) PROVE Silent(n)
      <4>1. Loops(n) <= 1
        BY <2>8, <3>2 DEF Silent
      <4>2. p = 0
        BY <1>19, <2>4, <3>2 DEF Silent
      <4> QED BY <2>6, <3>2, <4>1, <4>2 DEF Silent
    <3> QED BY <3>1, <3>2
  <2> QED BY <1>3, <1>4, <1>7, <1>15, <2>3, <2>9, <2>10
<1>16. CASE BackoffEnds(d)
  <2> DEFINE w == k.wait - 1
  <2>1. w \in Nat /\ w + z + 1 = y + z
    BY <1>6, <1>16, <1>19 DEF BackoffEnds
  <2>2. GoesOn(d, [k EXCEPT !.wait = w]) /\ [k EXCEPT !.wait = w] = [k EXCEPT !.wait = w, !.handle = z]
    BY <1>2, <1>16, <1>19 DEF BackoffEnds, Links
  <2> HIDE DEF w
  <2> QED BY <1>6, <1>15, <1>16, <2>1, <2>2 DEF BackoffEnds
<1>17. CASE HandlingEnds(d)
  <2> DEFINE h == k.handle - 1
  <2>1. h \in Nat /\ y + h + 1 = y + z
    BY <1>6, <1>17, <1>19 DEF HandlingEnds
  <2>2. GoesOn(d, [k EXCEPT !.handle = h]) /\ [k EXCEPT !.handle = h] = [k EXCEPT !.wait = y, !.handle = h]
    BY <1>2, <1>17, <1>19 DEF HandlingEnds, Links
  <2> HIDE DEF h
  <2> QED BY <1>6, <1>15, <1>17, <2>1, <2>2 DEF HandlingEnds
<1>18. CASE PollRefused(d)
  <2> DEFINE e == [k EXCEPT !.on = FALSE]
  <2>1. /\ e \in Links /\ e.opening = k.opening /\ e.client = k.client /\ ~e.on /\ e.poll = k.poll
        /\ e.wait = k.wait /\ e.handle = k.handle /\ e.abort = k.abort
    BY <1>2 DEF Links
  <2>2. k.on /\ PollEnds(d, e)
    BY <1>18 DEF PollRefused
  <2> HIDE DEF e
  <2>3. PICK latest \in BOOLEAN :
            /\ latest \/ k.poll > 1 \/ ~k.abort
            /\ links' = [links EXCEPT ![d] = [e EXCEPT !.poll = k.poll - 1, !.abort = ~latest /\ k.abort]]
    BY <2>1, <2>2 DEF PollEnds
  <2> DEFINE p == k.poll - 1
             a == ~latest /\ k.abort
             n == [e EXCEPT !.poll = p, !.abort = a]
  <2>4. k.poll > 0 /\ p \in Nat /\ p = x - 1 /\ a \in BOOLEAN
    BY <1>6, <1>19, <2>1, <2>2 DEF PollEnds
  <2>5. a => k.abort /\ p > 0
    BY <1>6, <2>3
  <2>6. links' = [links EXCEPT ![d] = n]
    BY <2>3
  <2> HIDE DEF p, a
  <2>7. n \in Links /\ n.opening = k.opening /\ n.client = k.client /\ ~n.on /\ n.poll = p /\ n.wait = y
        /\ n.handle = z /\ n.abort = a
    BY <1>19, <2>1, <2>4 DEF Links
  <2> HIDE DEF n
  <2>8. kind = "telegram" /\ kind \notin Sdk
    BY <1>2, <1>5, <2>2 DEF Fits
  <2>9. Loops(n) = p + y + z
    <3>1. p \in Nat /\ n.poll = p /\ n.wait = y /\ n.handle = z
      BY <2>4, <2>7
    <3> QED BY <3>1, LoopsAre
  <2>10. Fits(n)
    BY <1>2, <2>5, <2>7, <2>8 DEF Fits
  <2>11. ~Silent(k) /\ (~raced => Silent(n))
    <3>1. ~Silent(k) /\ k.opening = 0 /\ ~k.client
      BY <1>2, <2>2, <2>8 DEF Silent, Fits
    <3>2. ~raced => Lone(k)
      BY <1>4, <3>1
    <3>3. ~raced => x + y + z <= 1
      BY <1>20, <3>2 DEF Lone
    <3>4. ~raced => p = 0 /\ Loops(n) <= 1
      BY <2>4, <2>9, <3>3
    <3> QED BY <2>7, <3>1, <3>4 DEF Silent
  <2> QED BY <1>8, <1>18, <2>6, <2>10, <2>11 DEF PollRefused
<1> QED BY <1>9, <1>10, <1>11, <1>13, <1>14, <1>16, <1>17, <1>18 DEF OpenFails, StreamMoves


-------------------------------------------------------------------------------
(***************************************************************************)
(* The runtime.                                                            *)
(***************************************************************************)
LEMMA StartKeeps ==
    ASSUME Host, Start, UNCHANGED <<kind, config, disk, drivers, driver, relogin, fetch>>
    PROVE  Host'
<1>1. /\ Len(drivers) \in Nat /\ Typed /\ links \in [1..MaxDrivers -> Links] /\ driver \in {0, Len(drivers)}
      /\ Len(drivers) <= MaxDrivers /\ running \in BOOLEAN /\ raced \in BOOLEAN /\ relogin \in BOOLEAN
      /\ MaxDrivers \in Nat
  BY BindingAssumption DEF Host, Typed, Streams
<1>2. CASE driver = 0 \/ running
  <2>1. UNCHANGED <<running, links, raced>>
    BY <1>2 DEF Start
  <2>2. Typed'
    BY <1>1, <2>1, TypedStays DEF Typed
  <2>3. Streams' /\ Lives' /\ Alone'
    BY <2>1 DEF Host, Streams, Fits, Lives, Alive, Alone, Lone, Silent, Loops
  <2> QED BY <2>2, <2>3 DEF Host
<1>3. CASE ~(driver = 0 \/ running)
  <2> DEFINE k == links[driver]
             n == Begin(k)
  <2>1. /\ running' = TRUE /\ links' = [links EXCEPT ![driver] = n]
        /\ raced' = (raced \/ Listens(driver) \/ k.opening > 0)
    BY <1>3 DEF Start
  <2>2. driver \in 1..Len(drivers) /\ driver \in 1..MaxDrivers
    BY <1>1, <1>3
  <2>3. Fits(k) /\ k \in Links
    BY <1>1, <2>2 DEF Host, Streams, Fits, Loops
  <2>4. k.opening \in Nat /\ k.poll \in Nat /\ k.wait \in Nat /\ k.handle \in Nat
    BY <2>3 DEF Links
  <2>10. ~raced' => ~raced /\ ~Listens(driver) /\ ~(k.opening > 0)
    BY <2>1, Zenon
  <2>11. Loops(k) \in Nat
    BY <2>4 DEF Loops
  <2>5. ~raced' => ~raced /\ k.opening = 0 /\ ~k.client /\ Loops(k) = 0
    BY <2>4, <2>10, <2>11 DEF Listens
  <2>6. Fits(n) /\ Alive(n) /\ (~raced' => Lone(n))
    BY <1>1, <2>3, <2>5, BeginFits
  <2> HIDE DEF n
  <2>7. raced' \in BOOLEAN /\ (raced => raced')
    BY <2>1
  <2>8. Typed'
    BY <1>1, <1>3, <2>1, <2>7, TypedStays
  <2>9. Streams' /\ Lives' /\ Alone'
    BY <2>1, <2>2, <2>6, <2>7, LinkMoves
  <2> QED BY <2>8, <2>9 DEF Host
<1> QED BY <1>2, <1>3

LEMMA StopKeeps ==
    ASSUME Host, Stop, UNCHANGED <<kind, config, disk, drivers, driver>>, relogin' \in BOOLEAN,
           fetch' \in {0, fetch}
    PROVE  Host'
<1>1. /\ Len(drivers) \in Nat /\ Typed /\ links \in [1..MaxDrivers -> Links] /\ driver \in {0, Len(drivers)}
      /\ Len(drivers) <= MaxDrivers /\ running \in BOOLEAN /\ raced \in BOOLEAN /\ MaxDrivers \in Nat
      /\ (running => driver # 0) /\ fetch' \in 0..Len(drivers)
  BY BindingAssumption DEF Host, Typed, Streams
<1>2. /\ running' = FALSE /\ raced' = (raced \/ (driver # 0 /\ links[driver].opening > 0))
      /\ links' = IF driver = 0 THEN links ELSE [links EXCEPT ![driver] = Cease(links[driver])]
  BY DEF Stop
<1>3. raced' \in BOOLEAN /\ (raced => raced')
  BY <1>2
<1>4. Typed'
  BY <1>1, <1>2, <1>3 DEF Typed, HasDriver, Coded, Configs
<1>5. CASE driver = 0
  <2>1. links' = links /\ running = FALSE
    BY <1>1, <1>2, <1>5
  <2>2. Streams' /\ Lives' /\ Alone'
    BY <1>2, <1>3, <2>1 DEF Host, Streams, Fits, Lives, Alive, Alone, Lone, Silent, Loops
  <2> QED BY <1>4, <2>2 DEF Host
<1>6. CASE driver # 0
  <2> DEFINE k == links[driver]
             n == Cease(k)
  <2>1. driver \in 1..Len(drivers) /\ driver \in 1..MaxDrivers
    BY <1>1, <1>6
  <2>2. Fits(k) /\ k \in Links /\ k.opening \in Nat
    BY <1>1, <2>1 DEF Host, Streams, Fits, Links
  <2>7. ~raced' => ~raced /\ ~(k.opening > 0)
    BY <1>2, <1>6, Zenon
  <2>3. ~raced' => ~raced /\ k.opening = 0 /\ (Silent(k) \/ Lone(k))
    BY <2>1, <2>2, <2>7 DEF Host, Alone
  <2>4. Fits(n) /\ (~raced' => Silent(n))
    BY <1>1, <2>2, <2>3, CeaseFits
  <2>5. links' = [links EXCEPT ![driver] = n]
    BY <1>2, <1>6
  <2> HIDE DEF n
  <2>6. Streams' /\ Lives' /\ Alone'
    BY <1>2, <1>3, <2>1, <2>4, <2>5, LinkMoves
  <2> QED BY <1>4, <2>6 DEF Host
<1> QED BY <1>5, <1>6

LEMMA RebindKeeps ==
    ASSUME Host, NEW c \in Configs, Coded(c), Rebind(c), UNCHANGED <<kind, disk, fetch>>
    PROVE  Host'
<1> DEFINE again == running /\ HasDriver(c)
           off == IF running THEN [links EXCEPT ![driver] = Cease(links[driver])] ELSE links
           new == Len(drivers) + 1
<1>1. /\ Len(drivers) \in Nat /\ Typed /\ links \in [1..MaxDrivers -> Links] /\ driver \in {0, Len(drivers)}
      /\ drivers \in Seq(0..MaxCreds)
      /\ Len(drivers) <= MaxDrivers /\ running \in BOOLEAN /\ raced \in BOOLEAN /\ MaxDrivers \in Nat
      /\ (running => driver # 0) /\ fetch \in 0..Len(drivers) /\ disk \in Configs /\ Coded(disk)
  BY BindingAssumption DEF Host, Typed, Streams
<1>2. /\ HasDriver(c) => Len(drivers) < MaxDrivers
      /\ config' = [c EXCEPT !.code = @ \/ (again /\ Unpaired(c))]
      /\ drivers' = IF HasDriver(c) THEN Append(drivers, c.cred) ELSE drivers
      /\ driver' = IF HasDriver(c) THEN Len(drivers') ELSE 0
      /\ running' = again /\ relogin' = FALSE
      /\ links' = IF again THEN [off EXCEPT ![driver'] = Begin(off[driver'])] ELSE off
      /\ raced' = (raced \/ (driver # 0 /\ links[driver].opening > 0))
  BY DEF Rebind
<1> HIDE DEF off
<1>3. /\ config' \in Configs /\ config'.enabled = c.enabled /\ config'.cred = c.cred
      /\ config'.linked = c.linked /\ (config'.code <=> c.code \/ (again /\ Unpaired(c)))
  BY <1>2 DEF Configs
<1>4. Coded(config')
  BY <1>3 DEF Coded, Unpaired
<1>5. HasDriver(config') <=> HasDriver(c)
  BY <1>3 DEF HasDriver
<1>6. /\ HasDriver(c) => driver' = new /\ Len(drivers') = new /\ drivers'[new] = c.cred /\ new <= MaxDrivers
      /\ ~HasDriver(c) => driver' = 0 /\ drivers' = drivers /\ Len(drivers') = Len(drivers)
      /\ drivers' \in Seq(0..MaxCreds) /\ Len(drivers') \in Nat
  <2>1. CASE HasDriver(c)
    <3>1. c.cred \in 0..MaxCreds /\ drivers' = Append(drivers, c.cred)
      BY <1>2, <2>1 DEF Configs
    <3>2. Len(drivers') = new /\ drivers'[new] = c.cred /\ drivers' \in Seq(0..MaxCreds)
      BY <1>1, <3>1
    <3> QED BY <1>1, <1>2, <2>1, <3>2
  <2>2. CASE ~HasDriver(c)
    BY <1>1, <1>2, <2>2
  <2> QED BY <2>1, <2>2
<1>7. again \in BOOLEAN /\ (again => running /\ HasDriver(c))
  OBVIOUS
<1>8. raced' \in BOOLEAN /\ (~raced' => ~raced /\ (driver # 0 => ~(links[driver].opening > 0)))
  BY <1>2, Zenon
<1>9. (HasDriver(config))' <=> HasDriver(c)
  BY <1>5 DEF HasDriver
<1>10. Typed'
  <2>1. (Coded(config))' /\ (Coded(disk))' /\ disk' \in Configs
    BY <1>1, <1>2, <1>3, <1>4 DEF Coded
  <2>2. IF (HasDriver(config))' THEN driver' # 0 /\ drivers'[driver'] = config'.cred ELSE driver' = 0
    BY <1>1, <1>3, <1>6, <1>9
  <2>3. driver' \in {0, Len(drivers')} /\ fetch' \in 0..Len(drivers') /\ Len(drivers') <= MaxDrivers
    BY <1>1, <1>6
  <2>6. running' => HasDriver(c)
    BY <1>2, Zenon
  <2>4. running' => driver' # 0
    BY <1>1, <1>6, <2>6
  <2>5. kind' \in Kinds /\ running' \in BOOLEAN /\ relogin' \in BOOLEAN
    BY <1>1, <1>2 DEF Typed
  <2> QED BY <1>3, <1>6, <1>8, <2>1, <2>2, <2>3, <2>4, <2>5 DEF Typed
\* What is open after the stop of the driver in use.
<1>11. /\ off \in [1..MaxDrivers -> Links]
       /\ \A d \in 1..MaxDrivers : Fits(off[d]) /\ (d > Len(drivers) => off[d] = NoLink)
       /\ ~raced' => \A d \in 1..MaxDrivers : Silent(off[d])
  <2>1. CASE ~running
    <3>1. off = links
      BY <2>1 DEF off
    <3>2. \A d \in 1..MaxDrivers : d \in 1..Len(drivers) \/ d > Len(drivers)
      BY <1>1
    <3> QED BY <1>1, <1>8, <2>1, <3>1, <3>2, NoLinkFits DEF Host, Streams, Alone
  <2>2. CASE running
    <3> DEFINE k == links[driver]
               n == Cease(k)
    <3>1. driver \in 1..Len(drivers) /\ driver \in 1..MaxDrivers /\ driver # 0
      BY <1>1, <2>2
    <3>2. Fits(k) /\ k \in Links /\ k.opening \in Nat
      BY <1>1, <3>1 DEF Host, Streams, Fits, Links
    <3>3. ~raced' => k.opening = 0 /\ Lone(k)
      BY <1>8, <2>2, <3>1, <3>2 DEF Host, Alone
    <3>4. Fits(n) /\ n \in Links /\ (~raced' => Silent(n))
      BY <1>1, <3>2, <3>3, CeaseFits DEF Fits
    <3>5. off = [links EXCEPT ![driver] = n]
      BY <2>2 DEF off
    <3> HIDE DEF n
    <3>6. \A d \in 1..MaxDrivers : off[d] = IF d = driver THEN n ELSE links[d]
      BY <1>1, <3>5
    <3>7. off \in [1..MaxDrivers -> Links]
      BY <1>1, <3>1, <3>4, <3>5
    <3>8. ASSUME NEW d \in 1..MaxDrivers
          PROVE  Fits(off[d]) /\ (d > Len(drivers) => off[d] = NoLink) /\ (~raced' => Silent(off[d]))
      <4>1. CASE d = driver
        BY <1>1, <3>1, <3>4, <3>6, <4>1
      <4>2. CASE d # driver
        <5>1. off[d] = links[d] /\ (d \in 1..Len(drivers) \/ d > Len(drivers))
          BY <1>1, <3>6, <4>2
        <5>2. Fits(links[d]) /\ (d > Len(drivers) => links[d] = NoLink)
          BY DEF Host, Streams
        <5>3. ~raced' /\ d \in 1..Len(drivers) => Silent(links[d])
          BY <1>8, <4>2 DEF Host, Alone
        <5> QED BY <5>1, <5>2, <5>3, NoLinkFits
      <4> QED BY <4>1, <4>2
    <3> QED BY <3>7, <3>8
  <2> QED BY <2>1, <2>2
<1>12. CASE again
  <2> DEFINE n == Begin(NoLink)
  <2>9. running' /\ HasDriver(c)
    BY <1>2, <1>12, Zenon
  <2>1. running' /\ HasDriver(c) /\ new \in 1..MaxDrivers /\ driver' = new /\ Len(drivers') = new
    BY <1>1, <1>6, <2>9
  <2>2. off[new] = NoLink
    BY <1>1, <1>11, <2>1
  <2>3. links' = [off EXCEPT ![new] = n]
    BY <1>2, <1>12, <2>1, <2>2
  <2>4. Fits(n) /\ Alive(n) /\ Lone(n) /\ n \in Links
    <3>1. Fits(n) /\ Alive(n) /\ Lone(n)
      BY <1>1, BeginFits, NoLinkFits
    <3> QED BY <3>1 DEF Fits
  <2> HIDE DEF n
  <2>5. links' \in [1..MaxDrivers -> Links] /\ \A d \in 1..MaxDrivers : links'[d] = IF d = new THEN n ELSE off[d]
    BY <1>11, <2>1, <2>3, <2>4
  <2>6. Streams'
    <3>1. ASSUME NEW d \in 1..MaxDrivers PROVE Fits(links'[d]) /\ (d > new => links'[d] = NoLink)
      BY <1>1, <1>11, <2>4, <2>5
    <3> QED BY <2>1, <2>5, <3>1 DEF Streams, Fits, Loops
  <2>7. Lives'
    BY <2>1, <2>4, <2>5 DEF Lives, Alive
  <2>8. Alone'
    BY <1>1, <1>11, <2>1, <2>4, <2>5 DEF Alone, Lone, Silent, Loops
  <2> QED BY <1>10, <2>6, <2>7, <2>8 DEF Host
<1>13. CASE ~again
  <2>1. links' = off /\ running' = FALSE /\ Len(drivers') \in {Len(drivers), new}
    BY <1>2, <1>6, <1>13
  <2>2. Streams'
    BY <1>1, <1>11, <2>1 DEF Streams, Fits, Loops
  <2>3. Lives'
    BY <2>1 DEF Lives
  <2>4. Alone'
    <3>1. Len(drivers') <= MaxDrivers
      BY <1>10 DEF Typed
    <3> QED BY <1>1, <1>11, <2>1, <3>1 DEF Alone, Silent, Loops
  <2> QED BY <1>10, <2>2, <2>3, <2>4 DEF Host
<1> QED BY <1>12, <1>13

LEMMA CrashKeeps ==
    ASSUME Host, Crash
    PROVE  Host'
<1>1. /\ Len(drivers) \in Nat /\ MaxDrivers \in Nat \ {0} /\ links \in [1..MaxDrivers -> Links]
      /\ disk \in Configs /\ Coded(disk)
  BY BindingAssumption DEF Host, Typed, Streams
<1>2. /\ kind' = kind /\ config' = disk /\ disk' = disk /\ drivers' = (IF HasDriver(disk) THEN <<disk.cred>> ELSE <<>>)
      /\ driver' = Len(drivers') /\ links' = [d \in 1..MaxDrivers |-> NoLink]
      /\ running' = FALSE /\ relogin' = FALSE /\ fetch' = 0 /\ raced' = FALSE
  BY <1>1 DEF Crash
<1>3. /\ drivers' \in Seq(0..MaxCreds) /\ Len(drivers') <= 1 /\ Len(drivers') \in Nat
      /\ HasDriver(disk) => Len(drivers') = 1 /\ drivers'[1] = disk.cred
      /\ ~HasDriver(disk) => Len(drivers') = 0
  <2>1. CASE HasDriver(disk)
    <3>1. disk.cred \in 0..MaxCreds /\ drivers' = <<disk.cred>>
      BY <1>1, <1>2, <2>1 DEF Configs
    <3> QED BY <2>1, <3>1
  <2>2. CASE ~HasDriver(disk)
    <3>1. drivers' = <<>>
      BY <1>2, <2>2
    <3> QED BY <2>2, <3>1
  <2> QED BY <2>1, <2>2
<1>6. Typed'
  <2>1. (HasDriver(config))' <=> HasDriver(disk)
    BY <1>2 DEF HasDriver
  <2>2. IF (HasDriver(config))' THEN driver' # 0 /\ drivers'[driver'] = config'.cred ELSE driver' = 0
    BY <1>2, <1>3, <2>1
  <2>3. (Coded(config))' /\ (Coded(disk))'
    BY <1>1, <1>2 DEF Coded
  <2>4. kind' \in Kinds
    BY <1>2 DEF Host, Typed
  <2>5. driver' \in {0, Len(drivers')} /\ fetch' \in 0..Len(drivers') /\ Len(drivers') <= MaxDrivers
    BY <1>1, <1>2, <1>3
  <2> QED BY <1>1, <1>2, <1>3, <2>2, <2>3, <2>4, <2>5 DEF Typed
<1>7. Streams'
  BY <1>1, <1>2, NoLinkFits DEF Streams, Fits, Loops
<1>8. Lives' /\ Alone'
  <2>1. 1..Len(drivers') \subseteq 1..MaxDrivers
    BY <1>1, <1>3
  <2> QED BY <1>2, <2>1, NoLinkFits DEF Lives, Alone, Silent, Loops
<1> QED BY <1>6, <1>7, <1>8 DEF Host

\* The other steps change the configuration saved, the fetch, the pairing.
LEMMA HostStays ==
    ASSUME Host, UNCHANGED <<kind, config, drivers, driver, links, running, relogin, raced>>,
           disk' \in {disk, config}, fetch' \in {fetch, driver, 0}
    PROVE  Host'
<1>1. Len(drivers) \in Nat
  BY DEF Host, Typed
<1>2. Typed'
  BY <1>1 DEF Host, Typed, HasDriver, Coded
<1>3. Streams' /\ Lives' /\ Alone'
  BY DEF Host, Streams, Fits, Lives, Alive, Alone, Lone, Silent, Loops
<1> QED BY <1>2, <1>3 DEF Host

LEMMA PairingKeeps ==
    ASSUME Host, UNCHANGED <<kind, drivers, driver, links, running, relogin, raced, fetch>>,
           config' \in Configs, config'.enabled = config.enabled, config'.cred = config.cred,
           Coded(config'), disk' = disk
    PROVE  Host'
<1>1. (HasDriver(config))' <=> HasDriver(config)
  BY DEF HasDriver
<1>2. (Coded(config))' /\ (Coded(disk))'
  BY DEF Host, Typed, Coded
<1>3. Typed'
  BY <1>1, <1>2 DEF Host, Typed
<1>4. Streams' /\ Lives' /\ Alone'
  BY DEF Host, Streams, Fits, Lives, Alive, Alone, Lone, Silent, Loops
<1> QED BY <1>3, <1>4 DEF Host

-------------------------------------------------------------------------------
(***************************************************************************)
(* Requests.                                                               *)
(***************************************************************************)
LEMMA TodosAre ==
    /\ \A t \in Todos : t # <<>> => /\ Tail(t) \in Todos /\ Tail(t) # <<"ask">>
                                    /\ Head(t) \notin {"persist", "code"} /\ Saves(t) => Saves(Tail(t))
                                    /\ Head(t) = "ask" => t = <<"ask">>
    /\ ~Saves(<<>>) /\ ~Saves(<<"ask">>)
<1>1. /\ ~Saves(<<>>) /\ ~Saves(<<"ask">>) /\ ~Saves(<<"start">>) /\ ~Saves(<<"begin">>)
      /\ Saves(<<"persist">>) /\ Saves(<<"persist", "start">>)
  BY DEF Saves
<1>2. ASSUME NEW t \in Todos, t # <<>>
      PROVE  /\ Tail(t) \in Todos /\ Tail(t) # <<"ask">>
             /\ Head(t) \notin {"persist", "code"} /\ Saves(t) => Saves(Tail(t))
             /\ Head(t) = "ask" => t = <<"ask">>
  <2> DEFINE Goal == /\ Tail(t) \in Todos /\ Tail(t) # <<"ask">>
                     /\ Head(t) \notin {"persist", "code"} /\ Saves(t) => Saves(Tail(t))
                     /\ Head(t) = "ask" => t = <<"ask">>
  <2>1. ASSUME t = <<"ask">> PROVE Goal
    <3>1. Tail(t) = <<>>
      BY <2>1
    <3> QED BY <1>1, <2>1, <3>1 DEF Todos
  <2>2. ASSUME t = <<"name", "persist", "start">> PROVE Goal
    <3>1. Tail(t) = <<"persist", "start">> /\ Head(t) = "name" /\ Tail(t)[1] = "persist"
      BY <2>2
    <3> QED BY <1>1, <3>1 DEF Todos
  <2>3. ASSUME t = <<"persist", "start">> PROVE Goal
    <3>1. Tail(t) = <<"start">> /\ Head(t) = "persist" /\ Tail(t)[1] = "start"
      BY <2>3
    <3> QED BY <3>1 DEF Todos
  <2>4. ASSUME t = <<"start">> PROVE Goal
    <3>1. Tail(t) = <<>> /\ Head(t) = "start"
      BY <2>4
    <3> QED BY <1>1, <2>4, <3>1 DEF Todos
  <2>5. ASSUME t = <<"start", "persist">> PROVE Goal
    <3>1. Tail(t) = <<"persist">> /\ Head(t) = "start" /\ Tail(t)[1] = "persist"
      BY <2>5
    <3> QED BY <1>1, <3>1 DEF Todos
  <2>6. ASSUME t = <<"persist">> PROVE Goal
    <3>1. Tail(t) = <<>> /\ Head(t) = "persist"
      BY <2>6
    <3> QED BY <3>1 DEF Todos
  <2>7. ASSUME t = <<"code", "begin">> PROVE Goal
    <3>1. Tail(t) = <<"begin">> /\ Head(t) = "code" /\ Tail(t)[1] = "begin"
      BY <2>7
    <3> QED BY <3>1 DEF Todos
  <2>8. ASSUME t = <<"code", "begin", "persist">> PROVE Goal
    <3>1. Tail(t) = <<"begin", "persist">> /\ Head(t) = "code" /\ Tail(t)[1] = "begin"
      BY <2>8
    <3> QED BY <3>1 DEF Todos
  <2>9. ASSUME t = <<"begin">> PROVE Goal
    <3>1. Tail(t) = <<>> /\ Head(t) = "begin"
      BY <2>9
    <3> QED BY <1>1, <2>9, <3>1 DEF Todos
  <2>10. ASSUME t = <<"begin", "persist">> PROVE Goal
    <3>1. Tail(t) = <<"persist">> /\ Head(t) = "begin" /\ Tail(t)[1] = "persist"
      BY <2>10
    <3> QED BY <1>1, <3>1 DEF Todos
  <2> HIDE DEF Goal
  <2>11. Goal
    BY <1>2, <2>1, <2>2, <2>3, <2>4, <2>5, <2>6, <2>7, <2>8, <2>9, <2>10 DEF Todos
  <2> QED BY <2>11 DEF Goal
<1> QED BY <1>1, <1>2

\* What the requests begin with.
LEMMA Beginnings ==
    /\ \A t \in {<<"start", "persist">>, <<"persist", "start">>, <<"persist">>, <<"code", "begin">>,
                 <<"code", "begin", "persist">>, <<"name", "persist", "start">>} :
           t \in Todos /\ t # <<"ask">> /\ Saves(t) /\ t # <<>>
    /\ <<"start">> \in Todos /\ <<"start">> # <<"ask">> /\ <<"start">> # <<>>
    /\ <<>> \in Todos /\ <<>> # <<"ask">> /\ <<"ask">> \in Todos
<1>1. ASSUME NEW t \in {<<"start", "persist">>, <<"persist", "start">>, <<"persist">>, <<"code", "begin">>,
                        <<"code", "begin", "persist">>, <<"name", "persist", "start">>}
      PROVE  t \in Todos /\ t # <<"ask">> /\ Saves(t) /\ t # <<>>
  <2>1. t \in Todos
    BY <1>1 DEF Todos
  <2>2. t[1] \in {"start", "persist", "code", "name"} /\ Len(t) > 0
    BY <1>1
  <2>3. t # <<"ask">> /\ t # <<>>
    BY <2>2
  <2>4. Saves(t)
    BY <1>1 DEF Saves
  <2> QED BY <2>1, <2>3, <2>4
<1>2. <<"start">>[1] # <<"ask">>[1] /\ Len(<<>>) # Len(<<"ask">>) /\ Len(<<>>) # Len(<<"start">>)
  OBVIOUS
<1> QED BY <1>1, <1>2 DEF Todos

LEMMA JobIs ==
    ASSUME NEW b \in Askers, NEW l \in 0..MaxCreds, NEW t \in Todos, t # <<"ask">> \/ l \in Logins
    PROVE  Job(b, l, t) \in Jobs /\ Sound(Job(b, l, t)) /\ Job(b, l, t).todo = t
<1> DEFINE j == Job(b, l, t)
<1>1. Idle \in Jobs /\ ~Idle.unsaved
  BY BindingAssumption DEF Idle, Jobs, Todos, Results
<1>2. j \in Jobs /\ j.by = b /\ j.login = l /\ j.todo = t /\ ~j.unsaved
  BY <1>1 DEF Job, Jobs
<1> HIDE DEF j
<1>3. Sound(j)
  BY <1>2 DEF Sound, Askers
<1> QED BY <1>2, <1>3 DEF j

LEMMA IdleIs == Idle \in Jobs /\ Sound(Idle) /\ Idle.todo = <<>>
<1>1. Idle \in Jobs
  BY BindingAssumption DEF Idle, Jobs, Todos, Results
<1> QED BY <1>1, Beginnings DEF Idle, Sound

\* A request that changed the configuration and is to save it.
LEMMA JobSaves ==
    ASSUME NEW b \in Askers, NEW t \in Todos, Saves(t)
    PROVE  LET i == [Job(b, 0, t) EXCEPT !.res = "confirmed", !.unsaved = TRUE]
           IN i \in Jobs /\ Sound(i)
<1> DEFINE j == Job(b, 0, t)
           i == [j EXCEPT !.res = "confirmed", !.unsaved = TRUE]
<1>1. t # <<"ask">> /\ t # <<>> /\ 0 \in 0..MaxCreds
  BY TodosAre, BindingAssumption
<1>2. j \in Jobs /\ j.todo = t /\ j.by = b
  <2>1. j \in Jobs /\ j.todo = t
    BY <1>1, JobIs
  <2> QED BY <2>1 DEF Job, Idle
<1> HIDE DEF j
<1>3. i \in Jobs /\ i.todo = t /\ i.by = b
  BY <1>2 DEF Jobs, Results
<1> HIDE DEF i
<1>4. i \in Jobs /\ Sound(i)
  BY <1>1, <1>3 DEF Sound, Askers
<1> QED BY <1>4 DEF i, j

\* A request is taken, goes on or is over.
LEMMA JobMoves ==
    ASSUME Desk, NEW s \in Slots, NEW j \in Jobs, Sound(j), jobs' = [jobs EXCEPT ![s] = j]
    PROVE  Desk'
BY DEF Desk, Sound, Saves

LEMMA JobEdits ==
    ASSUME Desk, NEW s \in Slots, jobs[s].todo # <<>>,
           NEW t \in Todos, t # <<"ask">>, NEW r \in Results, NEW u \in BOOLEAN,
           u /\ r # "error" => Saves(t),
           jobs' = [jobs EXCEPT ![s] = [jobs[s] EXCEPT !.todo = t, !.res = r, !.unsaved = u]]
    PROVE  Desk'
<1> DEFINE j == [jobs[s] EXCEPT !.todo = t, !.res = r, !.unsaved = u]
<1>1. jobs[s] \in Jobs /\ jobs[s].by # "none"
  BY DEF Desk, Sound
<1>2. j \in Jobs /\ j.todo = t /\ j.by # "none" /\ j.res = r /\ j.unsaved = u
  BY <1>1 DEF Jobs
<1>3. jobs' = [jobs EXCEPT ![s] = j]
  OBVIOUS
<1> HIDE DEF j
<1>4. Sound(j)
  BY <1>2 DEF Sound
<1> QED BY <1>2, <1>3, <1>4, JobMoves

LEMMA JobGoesOn ==
    ASSUME Desk, NEW s \in Slots, jobs[s].todo # <<>>, Head(jobs[s].todo) \notin {"persist", "code"},
           jobs' = [jobs EXCEPT ![s].todo = Rest(s)]
    PROVE  Desk'
<1> DEFINE t == Tail(jobs[s].todo)
           j == jobs[s]
<1>1. jobs \in [Slots -> Jobs] /\ j \in Jobs /\ Sound(j)
  BY DEF Desk
<1>2. t \in Todos /\ t # <<"ask">> /\ (Saves(j.todo) => Saves(t))
  BY <1>1, TodosAre DEF Jobs
<1>3. jobs' = [jobs EXCEPT ![s].todo = t]
  BY DEF Rest
<1> HIDE DEF t
<1>4. [j EXCEPT !.todo = t] = [j EXCEPT !.todo = t, !.res = j.res, !.unsaved = j.unsaved]
  BY <1>1 DEF Jobs
<1>5. jobs' = [jobs EXCEPT ![s] = [j EXCEPT !.todo = t, !.res = j.res, !.unsaved = j.unsaved]]
  BY <1>3, <1>4
<1>6. j.res \in Results /\ j.unsaved \in BOOLEAN /\ (j.unsaved /\ j.res # "error" => Saves(t))
  BY <1>1, <1>2 DEF Jobs, Sound
<1> QED BY <1>2, <1>5, <1>6, JobEdits

LEMMA BootedIs ==
    ASSUME NEW c
    PROVE  Booted(c) \in [Slots -> Jobs] /\ \A s \in Slots : Sound(Booted(c)[s])
<1> DEFINE boot == [Idle EXCEPT !.by = "boot", !.todo = <<"start">>]
<1>6. Idle \in Jobs /\ Idle.login = 0
  BY IdleIs DEF Idle
<1>1. boot = Job("boot", 0, <<"start">>)
  BY <1>6 DEF Job, Jobs
<1>2. "boot" \in Askers /\ 0 \in 0..MaxCreds
  BY BindingAssumption DEF Askers
<1>3. boot \in Jobs /\ Sound(boot)
  BY <1>1, <1>2, JobIs, Beginnings
<1>4. ASSUME NEW s \in Slots PROVE Booted(c)[s] \in {boot, Idle}
  BY DEF Booted
<1>5. Booted(c) = [s \in Slots |-> Booted(c)[s]]
  BY DEF Booted
<1> HIDE DEF boot
<1> QED BY <1>3, <1>4, <1>5, IdleIs

-------------------------------------------------------------------------------
(***************************************************************************)
(* Every step keeps the invariant.                                         *)
(***************************************************************************)
LEMMA Starting == Init => Inv
<1> SUFFICES ASSUME Init PROVE Inv
  OBVIOUS
<1>1. /\ kind \in Kinds /\ config \in {[Unset EXCEPT !.enabled = (kind = "wechat")], [Unset EXCEPT !.enabled = TRUE, !.cred = 1]}
      /\ disk = config /\ drivers = (IF HasDriver(config) THEN <<config.cred>> ELSE <<>>)
      /\ driver = Len(drivers) /\ links = [d \in 1..MaxDrivers |-> NoLink]
      /\ running = FALSE /\ relogin = FALSE /\ fetch = 0 /\ jobs = Booted(config) /\ raced = FALSE
  BY DEF Init
<1>2. MaxDrivers \in Nat \ {0} /\ MaxCreds \in Nat \ {0} /\ Budget \in Nat /\ MaxRequests \in Nat /\ MaxCrashes \in Nat
  BY BindingAssumption
<1>3. config \in Configs /\ ~config.code
  <2>1. Unset \in Configs /\ ~Unset.code
    BY <1>2 DEF Unset, Configs
  <2>2. [Unset EXCEPT !.enabled = (kind = "wechat")] \in Configs /\ ~[Unset EXCEPT !.enabled = (kind = "wechat")].code
    BY <2>1 DEF Configs
  <2>3. [Unset EXCEPT !.enabled = TRUE, !.cred = 1] \in Configs /\ ~[Unset EXCEPT !.enabled = TRUE, !.cred = 1].code
    <3>1. 1 \in 0..MaxCreds
      BY <1>2
    <3> DEFINE c == [Unset EXCEPT !.enabled = TRUE]
    <3>2. c \in Configs /\ ~c.code
      BY <2>1 DEF Configs
    <3> HIDE DEF c
    <3>3. [c EXCEPT !.cred = 1] \in Configs /\ ~[c EXCEPT !.cred = 1].code
      BY <3>1, <3>2 DEF Configs
    <3> QED BY <3>3 DEF c
  <2> QED BY <1>1, <2>2, <2>3
<1>4. /\ drivers \in Seq(0..MaxCreds) /\ Len(drivers) <= 1 /\ Len(drivers) \in Nat
      /\ HasDriver(config) => Len(drivers) = 1 /\ drivers[1] = config.cred
      /\ ~HasDriver(config) => Len(drivers) = 0
  <2>1. CASE HasDriver(config)
    <3>1. config.cred \in 0..MaxCreds /\ drivers = <<config.cred>>
      BY <1>1, <1>3, <2>1 DEF Configs
    <3> QED BY <2>1, <3>1
  <2>2. CASE ~HasDriver(config)
    <3>1. drivers = <<>>
      BY <1>1, <2>2
    <3> QED BY <2>2, <3>1
  <2> QED BY <2>1, <2>2
<1>5. Typed
  <2>1. Coded(config) /\ Coded(disk) /\ disk \in Configs
    BY <1>1, <1>3 DEF Coded
  <2>2. IF HasDriver(config) THEN driver # 0 /\ drivers[driver] = config.cred ELSE driver = 0
    BY <1>1, <1>4
  <2>3. driver \in {0, Len(drivers)} /\ fetch \in 0..Len(drivers) /\ Len(drivers) <= MaxDrivers
    BY <1>1, <1>2, <1>4
  <2> QED BY <1>1, <1>3, <1>4, <2>1, <2>2, <2>3 DEF Typed
<1>6. Streams /\ Lives /\ Alone
  <2>1. 1..Len(drivers) \subseteq 1..MaxDrivers
    BY <1>2, <1>4
  <2> QED BY <1>1, <2>1, NoLinkFits DEF Streams, Lives, Alone, Fits
<1>7. Desk
  BY <1>1, BootedIs DEF Desk
<1>8. Around
  <2>1. page = [active |-> 0, timers |-> {}, starting |-> 0, overtaken |-> {}] /\ cli = NoCli /\ requests = 0 /\ crashes = 0
        /\ svc = [login |-> [l \in Logins |-> "none"], refused |-> {}]
    BY DEF Init
  <2> QED BY <1>2, <2>1 DEF Around, Pages, NoCli
<1> QED BY <1>5, <1>6, <1>7, <1>8 DEF Inv, Host

LEMMA DeskRests ==
    ASSUME Inv, jobs' = jobs
    PROVE  Desk'
BY DEF Inv, Desk, Sound, Saves

LEMMA OutsideRests ==
    ASSUME Inv, UNCHANGED outside
    PROVE  Around'
BY DEF Inv, Around, outside

\* The drivers' streams and the poll timer.
LEMMA RuntimeSteps ==
    ASSUME Inv,
           (\E d \in 1..Len(drivers) : StreamMoves(d)) \/ Fetch \/ Fetched \/ FetchRefused
    PROVE  Inv'
<1>1. ASSUME NEW d \in 1..Len(drivers), StreamMoves(d) PROVE Inv'
  <2>1. UNCHANGED <<jobs, outside>>
    BY <1>1 DEF StreamMoves, Opened, OpenFails, PollFails, BackoffEnds, PollReturns, PollRefused, HandlingEnds
  <2> QED BY <1>1, <2>1, StreamKeeps, DeskRests, OutsideRests DEF Inv
<1>2. CASE Fetch \/ Fetched
  <2>1. UNCHANGED <<kind, host, jobs, outside>> /\ fetch' \in {driver, 0}
    BY <1>2 DEF Fetch, Fetched
  <2>2. Host'
    BY <2>1, HostStays DEF Inv, host
  <2> QED BY <2>1, <2>2, DeskRests, OutsideRests DEF Inv, host
<1>3. CASE FetchRefused
  <2>1. /\ UNCHANGED <<kind, config, disk, drivers, driver, jobs, outside>> /\ fetch' = 0
        /\ relogin' = TRUE /\ Stop
    BY <1>3 DEF FetchRefused
  <2>2. Host'
    BY <2>1, StopKeeps DEF Inv
  <2> QED BY <2>1, <2>2, DeskRests, OutsideRests DEF Inv
<1> QED BY <1>1, <1>2, <1>3

\* A confirmed login is bound and its save is to come.
LEMMA ConfirmedKeeps ==
    ASSUME Inv, NEW s \in Slots, Confirmed(s)
    PROVE  Inv'
<1> DEFINE l == jobs[s].login
           c == [config EXCEPT !.enabled = TRUE, !.cred = l]
           t == IF kind = "feishu" THEN <<"name", "persist", "start">> ELSE <<"persist", "start">>
<1>1. /\ At(s, "ask") /\ Rebind(c) /\ UNCHANGED <<kind, disk, fetch, outside>>
      /\ jobs' = [jobs EXCEPT ![s].todo = t, ![s].res = "confirmed", ![s].unsaved = TRUE]
  BY DEF Confirmed, OnceStored
<1>2. /\ Desk /\ config \in Configs /\ Coded(config) /\ jobs[s].todo # <<>> /\ jobs[s].todo \in Todos
      /\ Head(jobs[s].todo) = "ask" /\ Sound(jobs[s]) /\ jobs \in [Slots -> Jobs]
  BY <1>1 DEF Inv, Host, Typed, At, Desk, Jobs
<1>3. l \in Logins
  BY <1>2, TodosAre DEF Sound
<1>4. l \in 0..MaxCreds
  BY <1>3, BindingAssumption DEF Logins
<1>5. t \in Todos /\ t # <<"ask">> /\ Saves(t)
  BY Beginnings
<1> HIDE DEF l, t
<1>6. c \in Configs /\ Coded(c)
  BY <1>2, <1>4 DEF Configs, Coded
<1> HIDE DEF c
<1>7. Host'
  BY <1>1, <1>6, RebindKeeps DEF Inv
<1>8. Desk'
  <2>1. jobs' = [jobs EXCEPT ![s] = [jobs[s] EXCEPT !.todo = t, !.res = "confirmed", !.unsaved = TRUE]]
    BY <1>1, <1>2
  <2>2. "confirmed" \in Results
    BY DEF Results
  <2> QED BY <1>2, <1>5, <2>1, <2>2, JobEdits
<1> QED BY <1>1, <1>7, <1>8, OutsideRests DEF Inv

\* The platform has not confirmed the login, or was not reached.
LEMMA UnconfirmedKeeps ==
    ASSUME Inv, NEW s \in Slots, NotConfirmed(s) \/ NotReached(s)
    PROVE  Inv'
<1>1. PICK r \in Results : jobs' = [jobs EXCEPT ![s].todo = <<>>, ![s].res = r]
  <2>1. CASE NotConfirmed(s)
    BY <2>1 DEF NotConfirmed, Results
  <2>2. CASE NotReached(s)
    BY <2>2 DEF NotReached, Results
  <2> QED BY <2>1, <2>2
<1>2. At(s, "ask") /\ UNCHANGED <<kind, host, fetch, outside>>
  BY DEF NotConfirmed, NotReached
<1>3. /\ Desk /\ jobs[s].todo # <<>> /\ jobs[s].todo \in Todos /\ Head(jobs[s].todo) = "ask"
      /\ jobs \in [Slots -> Jobs] /\ jobs[s] \in Jobs /\ Sound(jobs[s])
  BY <1>2 DEF Inv, At, Desk, Jobs
<1>4. jobs[s].unsaved = FALSE
  BY <1>3, TodosAre DEF Sound, Jobs
<1>5. [jobs[s] EXCEPT !.todo = <<>>, !.res = r] = [jobs[s] EXCEPT !.todo = <<>>, !.res = r, !.unsaved = FALSE]
  BY <1>3, <1>4 DEF Jobs
<1>6. jobs' = [jobs EXCEPT ![s] = [jobs[s] EXCEPT !.todo = <<>>, !.res = r, !.unsaved = FALSE]]
  BY <1>1, <1>3, <1>5
<1>7. Desk'
  BY <1>3, <1>6, JobEdits, Beginnings
<1>8. Host'
  BY <1>2, HostStays DEF Inv, host
<1> QED BY <1>2, <1>7, <1>8, OutsideRests DEF Inv

\* A save that was awaited: nothing any request changed is unsaved now.
LEMMA PersistKeeps ==
    ASSUME Inv, NEW s \in Slots, Persist(s)
    PROVE  Inv'
<1> DEFINE j(o) == [jobs[o] EXCEPT !.unsaved = FALSE, !.todo = IF o = s THEN Tail(@) ELSE @]
<1>1. /\ jobs[s].todo # <<>> /\ disk' = config /\ jobs' = [o \in Slots |-> j(o)]
      /\ UNCHANGED <<kind, config, drivers, driver, links, running, relogin, raced, fetch, outside>>
  BY DEF Persist, At
<1>2. Host'
  BY <1>1, HostStays DEF Inv
<1>3. ASSUME NEW o \in Slots PROVE j(o) \in Jobs /\ Sound(j(o))
  <2> DEFINE t == IF o = s THEN Tail(jobs[o].todo) ELSE jobs[o].todo
  <2>1. jobs[o] \in Jobs /\ Sound(jobs[o])
    BY DEF Inv, Desk
  <2>2. t \in Todos /\ (t = <<"ask">> => o # s) /\ (o = s => jobs[o].by # "none")
    BY <1>1, <2>1, TodosAre DEF Jobs, Sound
  <2>3. j(o) = [jobs[o] EXCEPT !.unsaved = FALSE, !.todo = t]
    BY <2>1 DEF Jobs
  <2>4. o # s => t = jobs[o].todo
    OBVIOUS
  <2> HIDE DEF t
  <2>5. /\ j(o) \in Jobs /\ ~j(o).unsaved /\ j(o).todo = t /\ j(o).by = jobs[o].by
        /\ j(o).login = jobs[o].login
    BY <2>1, <2>2, <2>3 DEF Jobs
  <2> HIDE DEF j
  <2> QED BY <2>1, <2>2, <2>4, <2>5 DEF Sound
<1> HIDE DEF j
<1>4. Desk'
  BY <1>1, <1>3 DEF Desk, Sound, Saves
<1> QED BY <1>1, <1>2, <1>4, OutsideRests DEF Inv

\* It fails: the request ends with an error, or configure goes on to save.
LEMMA PersistFailsKeeps ==
    ASSUME Inv, NEW s \in Slots, PersistFails(s)
    PROVE  Inv'
<1> DEFINE t == IF At(s, "code") THEN Tail(Rest(s)) ELSE <<>>
           r == IF t = <<>> THEN "error" ELSE jobs[s].res
           u == jobs[s].unsaved
<1>1. /\ jobs[s].todo # <<>>
      /\ jobs' = [jobs EXCEPT ![s].todo = t, ![s].res = IF t = <<>> THEN "error" ELSE @]
      /\ UNCHANGED <<kind, host, fetch, outside>>
  BY DEF PersistFails, At
<1>2. Desk /\ jobs \in [Slots -> Jobs] /\ jobs[s] \in Jobs /\ jobs[s].todo \in Todos
  BY DEF Inv, Desk, Jobs
<1>3. t \in {<<>>, <<"persist">>}
  <2>1. CASE ~At(s, "code")
    BY <2>1
  <2>2. CASE At(s, "code")
    <3>1. jobs[s].todo # <<>> /\ Head(jobs[s].todo) = "code"
      BY <2>2 DEF At
    <3>2. jobs[s].todo \in {<<"code", "begin">>, <<"code", "begin", "persist">>}
      BY <1>2, <3>1 DEF Todos
    <3>3. CASE jobs[s].todo = <<"code", "begin">>
      <4>1. Rest(s) = <<"begin">> /\ Tail(<<"begin">>) = <<>>
        BY <3>3 DEF Rest
      <4> QED BY <2>2, <4>1
    <3>4. CASE jobs[s].todo = <<"code", "begin", "persist">>
      <4>1. Rest(s) = <<"begin", "persist">> /\ Tail(<<"begin", "persist">>) = <<"persist">>
        BY <3>4 DEF Rest
      <4> QED BY <2>2, <4>1
    <3> QED BY <3>2, <3>3, <3>4
  <2> QED BY <2>1, <2>2
<1>4. t \in Todos /\ t # <<"ask">> /\ (t # <<>> => Saves(t))
  BY <1>3, Beginnings
<1>5. r \in Results /\ u \in BOOLEAN /\ (u /\ r # "error" => Saves(t))
  BY <1>2, <1>4 DEF Jobs, Results
<1>6. [jobs[s] EXCEPT !.todo = t, !.res = IF t = <<>> THEN "error" ELSE @] = [jobs[s] EXCEPT !.todo = t, !.res = r, !.unsaved = u]
  BY <1>2 DEF Jobs
<1>7. jobs' = [jobs EXCEPT ![s] = [jobs[s] EXCEPT !.todo = t, !.res = r, !.unsaved = u]]
  BY <1>1, <1>2, <1>6
<1> HIDE DEF t, r, u
<1>8. Desk'
  <2>1. jobs[s].todo # <<>>
    BY <1>1
  <2> QED BY <1>2, <1>4, <1>5, <1>7, <2>1, JobEdits
<1>9. Host'
  BY <1>1, HostStays DEF Inv, host
<1> QED BY <1>1, <1>8, <1>9, OutsideRests DEF Inv

\* telegram's start makes a pairing code, which it is to save.
LEMMA MakesCodeKeeps ==
    ASSUME Inv, NEW s \in Slots, MakesCode(s)
    PROVE  Inv'
<1> DEFINE t == <<"code", "begin">> \o Rest(s)
<1>1. /\ At(s, "start") /\ Unpaired(config) /\ config' = [config EXCEPT !.code = TRUE]
      /\ jobs' = [jobs EXCEPT ![s].todo = t, ![s].unsaved = TRUE]
      /\ UNCHANGED <<kind, disk, drivers, driver, links, running, relogin, raced, fetch, outside>>
  BY DEF MakesCode
<1>2. /\ Desk /\ jobs \in [Slots -> Jobs] /\ jobs[s] \in Jobs /\ jobs[s].todo \in Todos /\ config \in Configs
      /\ jobs[s].todo # <<>> /\ Head(jobs[s].todo) = "start"
  BY <1>1 DEF Inv, Desk, Jobs, Host, Typed, At
<1>3. /\ config' \in Configs /\ config'.enabled = config.enabled /\ config'.cred = config.cred
      /\ config'.linked = config.linked
  BY <1>1, <1>2 DEF Configs
<1>4. Coded(config')
  BY <1>1, <1>3 DEF Coded, Unpaired
<1>5. Host'
  BY <1>1, <1>3, <1>4, PairingKeeps DEF Inv
<1>6. t \in {<<"code", "begin">>, <<"code", "begin", "persist">>}
  <2>1. jobs[s].todo \in {<<"start">>, <<"start", "persist">>}
    BY <1>2 DEF Todos
  <2>2. CASE jobs[s].todo = <<"start">>
    <3>1. Rest(s) = <<>> /\ <<"code", "begin">> \o <<>> = <<"code", "begin">>
      BY <2>2 DEF Rest
    <3> QED BY <3>1
  <2>3. CASE jobs[s].todo = <<"start", "persist">>
    <3>1. Rest(s) = <<"persist">>
      BY <2>3 DEF Rest
    <3>2. <<"code", "begin">> \o <<"persist">> = <<"code", "begin", "persist">>
      <4>1. <<"code", "begin">> \in Seq({"code", "begin", "persist"}) /\ "persist" \in {"code", "begin", "persist"}
        OBVIOUS
      <4>2. Append(<<"code", "begin">>, "persist") = <<"code", "begin">> \o <<"persist">>
        BY <4>1, AppendIsConcat
      <4>3. Append(<<"code", "begin">>, "persist") = <<"code", "begin", "persist">>
        <5> DEFINE u == Append(<<"code", "begin">>, "persist")
                   v == <<"code", "begin", "persist">>
        <5>1. /\ u \in Seq({"code", "begin", "persist"}) /\ Len(u) = Len(<<"code", "begin">>) + 1
              /\ \A i \in 1..Len(<<"code", "begin">>) : u[i] = <<"code", "begin">>[i]
              /\ u[Len(<<"code", "begin">>) + 1] = "persist"
          BY <4>1, AppendProperties
        <5>2. Len(<<"code", "begin">>) = 2 /\ <<"code", "begin">>[1] = "code" /\ <<"code", "begin">>[2] = "begin"
          OBVIOUS
        <5>3. v \in Seq({"code", "begin", "persist"}) /\ Len(v) = 3 /\ v[1] = "code" /\ v[2] = "begin"
              /\ v[3] = "persist"
          OBVIOUS
        <5> HIDE DEF u, v
        <5>4. Len(u) = 3 /\ u[1] = "code" /\ u[2] = "begin" /\ u[3] = "persist"
          BY <5>1, <5>2
        <5>5. \A i \in 1..3 : u[i] = v[i]
          BY <5>3, <5>4
        <5>6. u = v
          BY <5>1, <5>3, <5>4, <5>5, SeqEqual
        <5> QED BY <5>6 DEF u, v
      <4> QED BY <4>2, <4>3
    <3> QED BY <3>1, <3>2
  <2> QED BY <2>1, <2>2, <2>3
<1>7. t \in Todos /\ t # <<"ask">> /\ Saves(t)
  BY <1>6, Beginnings
<1>8. [jobs[s] EXCEPT !.todo = t, !.unsaved = TRUE] = [jobs[s] EXCEPT !.todo = t, !.res = jobs[s].res, !.unsaved = TRUE]
  BY <1>2 DEF Jobs
<1>9. jobs' = [jobs EXCEPT ![s] = [jobs[s] EXCEPT !.todo = t, !.res = jobs[s].res, !.unsaved = TRUE]]
  BY <1>1, <1>2, <1>8
<1>10. jobs[s].res \in Results
  BY <1>2 DEF Jobs
<1> HIDE DEF t
<1>11. Desk'
  BY <1>2, <1>7, <1>9, <1>10, JobEdits
<1> QED BY <1>1, <1>5, <1>11, OutsideRests DEF Inv

\* The other steps of a request, and the pairing.
LEMMA ServingKeeps ==
    ASSUME Inv, NEW s \in Slots, Named(s) \/ Starts(s) \/ Pair(s)
    PROVE  Inv'
<1>1. Desk /\ jobs \in [Slots -> Jobs] /\ config \in Configs
  BY DEF Inv, Desk, Host, Typed
<1>2. CASE Named(s)
  <2>1. At(s, "name") /\ jobs' = [jobs EXCEPT ![s].todo = Rest(s)] /\ UNCHANGED <<kind, host, fetch, outside>>
    BY <1>2 DEF Named
  <2>2. Host'
    BY <2>1, HostStays DEF Inv, host
  <2>3. jobs[s].todo # <<>> /\ Head(jobs[s].todo) \notin {"persist", "code"}
    BY <2>1 DEF At
  <2>4. Desk'
    BY <1>1, <2>1, <2>3, JobGoesOn
  <2> QED BY <2>1, <2>2, <2>4, OutsideRests DEF Inv
<1>3. CASE Starts(s)
  <2>1. /\ At(s, "begin") \/ At(s, "start")
        /\ Start /\ jobs' = [jobs EXCEPT ![s].todo = Rest(s)]
        /\ UNCHANGED <<kind, config, disk, drivers, driver, relogin, fetch, outside>>
    BY <1>3 DEF Starts
  <2>2. Host'
    BY <2>1, StartKeeps DEF Inv
  <2>3. jobs[s].todo # <<>> /\ Head(jobs[s].todo) \notin {"persist", "code"}
    BY <2>1 DEF At
  <2>4. Desk'
    BY <1>1, <2>1, <2>3, JobGoesOn
  <2> QED BY <2>1, <2>2, <2>4, OutsideRests DEF Inv
<1>4. CASE Pair(s)
  <2> DEFINE j == [Job("bot", 0, <<"persist">>) EXCEPT !.res = "confirmed", !.unsaved = TRUE]
  <2>1. /\ config' = [config EXCEPT !.code = FALSE, !.linked = TRUE] /\ jobs' = [jobs EXCEPT ![s] = j]
        /\ UNCHANGED <<kind, disk, drivers, driver, links, running, relogin, raced, fetch, outside>>
    BY <1>4 DEF Pair
  <2>2. config' \in Configs /\ config'.enabled = config.enabled /\ config'.cred = config.cred /\ ~config'.code
    BY <1>1, <2>1 DEF Configs
  <2>3. Host'
    BY <2>1, <2>2, PairingKeeps DEF Inv, Coded
  <2>4. "bot" \in Askers
    BY DEF Askers
  <2>5. j \in Jobs /\ Sound(j)
    BY <2>4, JobSaves, Beginnings
  <2> HIDE DEF j
  <2>6. Desk'
    BY <1>1, <2>1, <2>5, JobMoves
  <2> QED BY <2>1, <2>3, <2>6, OutsideRests DEF Inv
<1> QED BY <1>2, <1>3, <1>4

\* The answer leaves the host.
LEMMA AnsweredKeeps ==
    ASSUME Inv, NEW s \in Slots, Answered(s)
    PROVE  Inv'
<1> DEFINE j == IF jobs[s].by = "onboard" /\ jobs[s].res = "confirmed" THEN Job("user", 0, <<"start">>) ELSE Idle
<1>1. /\ jobs[s].todo = <<>> /\ jobs' = [jobs EXCEPT ![s] = j]
      /\ UNCHANGED <<kind, config, disk, drivers, driver, links, running, relogin, raced, fetch,
                     svc, requests, crashes>>
      /\ cli' \in {NoCli, cli}
      /\ page' = page \/ page' = [page EXCEPT !.timers = @ \ {page.active}, !.overtaken = @ \ {page.active}, !.active = 0]
  BY DEF Answered, PageTold
<1>2. j \in Jobs /\ Sound(j)
  <2>1. "user" \in Askers /\ 0 \in 0..MaxCreds
    BY BindingAssumption DEF Askers
  <2> QED BY <2>1, JobIs, IdleIs, Beginnings
<1> HIDE DEF j
<1>3. Desk'
  BY <1>1, <1>2, JobMoves DEF Inv
<1>5. Host'
  BY <1>1, HostStays DEF Inv
<1>6. Around'
  <2>1. page' \in Pages
    <3>1. page \in Pages /\ 0 \in 0..MaxCreds
      BY BindingAssumption DEF Inv, Around
    <3> DEFINE left == page.timers \ {page.active}
               over == page.overtaken \ {page.active}
    <3>2. left \in SUBSET Logins /\ over \in SUBSET Logins
      BY <3>1 DEF Pages
    <3>3. page' = page \/ page' = [page EXCEPT !.timers = left, !.overtaken = over, !.active = 0]
      BY <1>1
    <3> HIDE DEF left, over
    <3> QED BY <3>1, <3>2, <3>3 DEF Pages
  <2>2. cli' \in [by : {"none", "login", "onboard"}, login : 0..MaxCreds, left : 0..Budget]
        /\ (cli'.left > 0 => cli'.login \in Logins /\ cli'.by # "none")
    BY <1>1, BindingAssumption DEF Inv, Around, NoCli
  <2> QED BY <1>1, <2>1, <2>2 DEF Inv, Around
<1> QED BY <1>3, <1>5, <1>6 DEF Inv

LEMMA FreeIs == \A s \in Free : s \in Slots /\ jobs[s].by = "none"
<1> DEFINE none == {s \in Slots : jobs[s].by = "none"}
<1>1. CASE none = {}
  BY <1>1 DEF Free
<1>2. CASE none # {}
  <2>1. (CHOOSE s \in none : TRUE) \in none
    BY <1>2
  <2> QED BY <1>2, <2>1 DEF Free
<1> QED BY <1>1, <1>2

\* A request takes a slot.
LEMMA TakesSlot ==
    ASSUME Inv, NEW s \in Free, NEW j \in Jobs, Sound(j), jobs' = [jobs EXCEPT ![s] = j]
    PROVE  Desk'
BY FreeIs, JobMoves DEF Inv

LEMMA ConfigureKeeps ==
    ASSUME Inv, NEW s \in Free, NEW b \in Askers, NEW c \in Configs, Coded(c), Configure(s, b, c),
           UNCHANGED <<kind, disk, fetch>>
    PROVE  Host' /\ Desk'
<1>1. PICK t \in {<<"start", "persist">>, <<"persist", "start">>, <<"persist">>} :
          jobs' = [jobs EXCEPT ![s] = [Job(b, 0, t) EXCEPT !.res = "confirmed", !.unsaved = TRUE]]
  BY DEF Configure
<1>2. Host'
  BY RebindKeeps DEF Inv, Configure
<1>3. t \in Todos /\ Saves(t)
  BY Beginnings
<1> DEFINE i == [Job(b, 0, t) EXCEPT !.res = "confirmed", !.unsaved = TRUE]
<1>4. i \in Jobs /\ Sound(i)
  BY <1>3, JobSaves
<1>5. jobs' = [jobs EXCEPT ![s] = i]
  BY <1>1
<1> HIDE DEF i
<1>6. Desk'
  BY <1>4, <1>5, TakesSlot
<1> QED BY <1>2, <1>6

LEMMA AskedIs ==
    ASSUME Inv, Asked
    PROVE  requests' \in Nat /\ requests' <= MaxRequests
BY BindingAssumption DEF Inv, Around, Asked

\* The settings form, and the commands that configure, start and stop.
LEMMA CommandsKeep ==
    ASSUME Inv,
           \/ \E s \in Slots : PageSaves(s) \/ OnboardSaves(s) \/ ConfigCommand(s) \/ StartCommand(s)
           \/ StopCommand
    PROVE  Inv'
<1>1. Asked /\ UNCHANGED <<kind, fetch, svc, page, cli, crashes>>
  BY DEF PageSaves, OnboardSaves, ConfigCommand, StartCommand, StopCommand
<1>2. Around'
  BY <1>1, AskedIs DEF Inv, Around
<1>3. config \in Configs /\ Coded(config)
  BY DEF Inv, Host, Typed
<1>8. Known \subseteq 0..MaxCreds /\ CredPatches \subseteq 0..MaxCreds /\ config.cred \in 0..MaxCreds
  BY <1>3, BindingAssumption DEF Known, CredPatches, Configs
<1>4. {"user", "onboard"} \subseteq Askers
  BY DEF Askers
\* What the request makes of the configuration.
<1>9. ASSUME NEW cred \in 0..MaxCreds, NEW e \in BOOLEAN, NEW blank \in BOOLEAN
      PROVE  LET c == [config EXCEPT !.cred = cred, !.enabled = e, !.linked = @ /\ ~blank, !.code = @ /\ ~blank]
             IN c \in Configs /\ Coded(c)
  <2> DEFINE l == config.linked /\ ~blank
             k == config.code /\ ~blank
             c == [config EXCEPT !.cred = cred, !.enabled = e, !.linked = l, !.code = k]
  <2>1. l \in BOOLEAN /\ k \in BOOLEAN /\ (k => kind = "telegram" /\ ~l)
    BY <1>3 DEF Configs, Coded
  <2>2. [config EXCEPT !.cred = cred, !.enabled = e, !.linked = @ /\ ~blank, !.code = @ /\ ~blank] = c
    BY <1>3 DEF Configs
  <2> HIDE DEF l, k
  <2>3. c \in Configs /\ c.code = k /\ c.linked = l
    BY <1>3, <2>1 DEF Configs
  <2> HIDE DEF c
  <2>4. Coded(c)
    BY <2>1, <2>3 DEF Coded
  <2> QED BY <2>2, <2>3, <2>4
<1>10. ASSUME NEW cred \in 0..MaxCreds
       PROVE  [config EXCEPT !.cred = cred] \in Configs /\ Coded([config EXCEPT !.cred = cred])
  BY <1>3 DEF Configs, Coded
<1>5. ASSUME NEW s \in Slots, PageSaves(s) \/ OnboardSaves(s) \/ ConfigCommand(s)
      PROVE  Inv'
  <2>1. s \in Free /\ UNCHANGED <<kind, disk, fetch>>
    BY <1>5 DEF PageSaves, OnboardSaves, ConfigCommand
  <2>2. PICK b \in Askers, c \in Configs : Coded(c) /\ Configure(s, b, c)
    <3>1. CASE PageSaves(s)
      <4>1. PICK x \in CredPatches : Configure(s, "user", [config EXCEPT !.cred = x])
        BY <3>1 DEF PageSaves
      <4> QED BY <1>4, <1>8, <1>10, <4>1
    <3>2. CASE OnboardSaves(s)
      <4>1. PICK x \in Known : Configure(s, "onboard", [config EXCEPT !.cred = x])
        BY <3>2 DEF OnboardSaves
      <4> QED BY <1>4, <1>8, <1>10, <4>1
    <3>3. CASE ConfigCommand(s)
      <4>1. PICK x \in 0..MaxCreds, e \in BOOLEAN, blank \in BOOLEAN :
                Configure(s, "user", [config EXCEPT !.cred = x, !.enabled = e, !.linked = @ /\ ~blank,
                                                    !.code = @ /\ ~blank])
        <5>1. {config.enabled, TRUE, kind = "wechat"} \subseteq BOOLEAN /\ {FALSE, kind = "telegram"} \subseteq BOOLEAN
          BY <1>3 DEF Configs
        <5> QED BY <1>8, <3>3, <5>1 DEF ConfigCommand
      <4> QED BY <1>4, <1>9, <4>1
    <3> QED BY <1>5, <3>1, <3>2, <3>3
  <2>3. Host' /\ Desk'
    BY <2>1, <2>2, ConfigureKeeps
  <2> QED BY <1>2, <2>3 DEF Inv
<1>6. ASSUME NEW s \in Slots, StartCommand(s)
      PROVE  Inv'
  <2> DEFINE j == Job("user", 0, <<"start">>)
  <2>1. s \in Free /\ jobs' = [jobs EXCEPT ![s] = j] /\ UNCHANGED <<kind, host, fetch>>
    BY <1>6 DEF StartCommand
  <2>2. "user" \in Askers /\ 0 \in 0..MaxCreds
    BY BindingAssumption DEF Askers
  <2>3. j \in Jobs /\ Sound(j)
    BY <2>2, JobIs, Beginnings
  <2> HIDE DEF j
  <2>4. Desk'
    BY <2>1, <2>3, TakesSlot
  <2>5. Host'
    BY <2>1, HostStays DEF Inv, host
  <2> QED BY <1>2, <2>4, <2>5 DEF Inv
<1>7. CASE StopCommand
  <2>1. Stop /\ UNCHANGED <<kind, config, disk, drivers, driver, relogin, fetch, jobs>>
    BY <1>7 DEF StopCommand
  <2>2. relogin' \in BOOLEAN
    BY <2>1 DEF Inv, Host, Typed
  <2>3. Host'
    BY <2>1, <2>2, StopKeeps DEF Inv
  <2> QED BY <1>2, <2>1, <2>3, DeskRests DEF Inv
<1> QED BY <1>5, <1>6, <1>7

\* The page's logins.
LEMMA PageKeeps ==
    ASSUME Inv, PageBinds \/ PageBound \/ PageBindFails \/ \E l \in Logins : PagePolls(l)
    PROVE  Inv'
<1>1. UNCHANGED <<kind, host, fetch>>
  BY DEF PageBinds, PageBound, PageBindFails, PagePolls
<1>2. Host'
  BY <1>1, HostStays DEF Inv, host
<1>3. MaxCreds \in Nat /\ page \in Pages
      /\ svc \in [login : [Logins -> {"none", "open", "confirmed", "expired"}], refused : SUBSET Creds]
  BY BindingAssumption DEF Inv, Around
<1>4. Logins \subseteq 0..MaxCreds
  BY <1>3 DEF Logins
<1>5. CASE PageBinds
  <2>1. /\ page' = [page EXCEPT !.timers = @ \ {page.active}, !.overtaken = @ \ {page.active},
                                !.starting = @ + 1]
        /\ Asked
        /\ UNCHANGED <<jobs, svc, cli, crashes>>
    BY <1>5 DEF PageBinds
  <2> DEFINE ts == page.timers \ {page.active}
             os == page.overtaken \ {page.active}
             n == page.starting + 1
  <2>2. ts \in SUBSET Logins /\ os \in SUBSET Logins /\ n \in Nat
        /\ page' = [page EXCEPT !.timers = ts, !.overtaken = os, !.starting = n]
    BY <1>3, <2>1 DEF Pages
  <2> HIDE DEF ts, os, n
  <2>3. page' \in Pages
    BY <1>3, <2>2 DEF Pages
  <2>4. Around'
    BY <2>1, <2>3, AskedIs DEF Inv, Around
  <2> QED BY <1>1, <1>2, <2>1, <2>4, DeskRests DEF Inv, host
<1>6. CASE PageBound
  <2>1. PICK l \in Logins :
            /\ svc' = [svc EXCEPT !.login[l] = "open"]
            /\ page' = [active |-> l, timers |-> page.timers \cup {l}, starting |-> page.starting - 1,
                        overtaken |-> page.overtaken \cup {m \in {l} : page.starting > 1}]
    BY <1>6 DEF PageBound
  <2>2. page.starting > 0 /\ UNCHANGED <<jobs, cli, requests, crashes>>
    BY <1>6 DEF PageBound
  <2>3. page' \in Pages
    BY <1>3, <1>4, <2>1, <2>2 DEF Pages
  <2>4. svc' \in [login : [Logins -> {"none", "open", "confirmed", "expired"}], refused : SUBSET Creds]
    BY <1>3, <2>1
  <2>5. Around'
    BY <2>2, <2>3, <2>4 DEF Inv, Around
  <2> QED BY <1>1, <1>2, <2>2, <2>5, DeskRests DEF Inv, host
<1>7. CASE PageBindFails
  <2>1. page.starting > 0 /\ page' = [page EXCEPT !.active = 0, !.starting = @ - 1]
        /\ UNCHANGED <<jobs, svc, cli, requests, crashes>>
    BY <1>7 DEF PageBindFails
  <2> DEFINE n == page.starting - 1
  <2>2. n \in Nat /\ 0 \in 0..MaxCreds /\ page' = [page EXCEPT !.active = 0, !.starting = n]
    BY <1>3, <2>1 DEF Pages
  <2> HIDE DEF n
  <2>3. page' \in Pages
    BY <1>3, <2>2 DEF Pages
  <2>4. Around'
    BY <2>1, <2>3 DEF Inv, Around
  <2> QED BY <1>1, <1>2, <2>1, <2>4, DeskRests DEF Inv, host
<1>8. ASSUME NEW l \in Logins, PagePolls(l)
      PROVE  Inv'
  <2> DEFINE j == Job("page", l, <<"ask">>)
  <2>1. PICK s \in Free : jobs' = [jobs EXCEPT ![s] = j]
    BY <1>8 DEF PagePolls
  <2>2. "page" \in Askers /\ <<"ask">> \in Todos /\ l \in 0..MaxCreds
    BY <1>4 DEF Askers, Todos
  <2>3. j \in Jobs /\ Sound(j)
    BY <2>2, JobIs
  <2> HIDE DEF j
  <2>4. Desk'
    BY <2>1, <2>3, TakesSlot
  <2>5. Around'
    BY <1>8, OutsideRests DEF PagePolls
  <2> QED BY <1>2, <2>4, <2>5 DEF Inv
<1> QED BY <1>5, <1>6, <1>7, <1>8

\* The login commands, and the platforms.
LEMMA CliKeeps ==
    ASSUME Inv, LoginCommand \/ OnboardLogin \/ CliPolls
    PROVE  Inv'
<1>1. UNCHANGED <<kind, host, fetch, page, crashes>>
  BY DEF LoginCommand, OnboardLogin, CliLogin, CliPolls
<1>2. Host'
  BY <1>1, HostStays DEF Inv, host
<1>3. /\ MaxCreds \in Nat /\ Budget \in Nat
      /\ svc \in [login : [Logins -> {"none", "open", "confirmed", "expired"}], refused : SUBSET Creds]
      /\ cli \in [by : {"none", "login", "onboard"}, login : 0..MaxCreds, left : 0..Budget]
      /\ (cli.left > 0 => cli.login \in Logins /\ cli.by # "none")
  BY BindingAssumption DEF Inv, Around
<1>4. Logins \subseteq 0..MaxCreds
  BY <1>3 DEF Logins
<1>5. CASE LoginCommand \/ OnboardLogin
  <2>1. PICK b \in {"login", "onboard"} : CliLogin(b)
    BY <1>5 DEF LoginCommand, OnboardLogin
  <2>2. PICK l \in Logins :
            /\ svc' = [svc EXCEPT !.login[l] = "open"]
            /\ cli' = [by |-> b, login |-> l, left |-> Budget]
    BY <2>1 DEF CliLogin
  <2>3. Asked /\ UNCHANGED jobs
    BY <2>1 DEF CliLogin
  <2>4. cli' \in [by : {"none", "login", "onboard"}, login : 0..MaxCreds, left : 0..Budget]
        /\ cli'.login \in Logins /\ cli'.by # "none"
    BY <1>3, <1>4, <2>2
  <2>5. svc' \in [login : [Logins -> {"none", "open", "confirmed", "expired"}], refused : SUBSET Creds]
    BY <1>3, <2>2
  <2>6. Around'
    BY <1>1, <2>3, <2>4, <2>5, AskedIs DEF Inv, Around
  <2> QED BY <1>1, <1>2, <2>3, <2>6, DeskRests DEF Inv, host
<1>6. CASE CliPolls
  <2>1. cli.left > 0 /\ cli' = [cli EXCEPT !.left = @ - 1] /\ UNCHANGED <<svc, requests>>
    BY <1>6 DEF CliPolls
  <2> DEFINE j == Job(cli.by, cli.login, <<"ask">>)
             n == cli.left - 1
  <2>2. PICK s \in Free : jobs' = [jobs EXCEPT ![s] = j]
    BY <1>6 DEF CliPolls
  <2>3. cli.by \in Askers /\ <<"ask">> \in Todos /\ cli.login \in Logins /\ cli.login \in 0..MaxCreds
    BY <1>3, <2>1 DEF Askers, Todos
  <2>4. j \in Jobs /\ Sound(j)
    BY <2>3, JobIs
  <2> HIDE DEF j
  <2>5. Desk'
    BY <2>2, <2>4, TakesSlot
  <2>6. n \in 0..Budget /\ cli' = [cli EXCEPT !.left = n]
    BY <1>3, <2>1
  <2> HIDE DEF n
  <2>7. /\ cli' \in [by : {"none", "login", "onboard"}, login : 0..MaxCreds, left : 0..Budget]
        /\ cli'.login = cli.login /\ cli'.by = cli.by
    BY <1>3, <2>6
  <2>8. Around'
    BY <1>1, <1>3, <2>1, <2>7 DEF Inv, Around
  <2> QED BY <1>2, <2>5, <2>8 DEF Inv
<1> QED BY <1>5, <1>6

LEMMA PlatformKeeps ==
    ASSUME Inv,
           \/ \E l \in Logins : Scan(l) \/ Expire(l)
           \/ \E c \in Creds : Revoke(c)
    PROVE  Inv'
<1>1. UNCHANGED <<kind, host, fetch, jobs, page, cli, requests, crashes>>
  BY DEF Scan, Expire, Revoke
<1>2. svc' \in [login : [Logins -> {"none", "open", "confirmed", "expired"}], refused : SUBSET Creds]
  <2>1. svc \in [login : [Logins -> {"none", "open", "confirmed", "expired"}], refused : SUBSET Creds]
    BY DEF Inv, Around
  <2>2. ASSUME NEW l \in Logins, Scan(l) \/ Expire(l)
        PROVE  svc' \in [login : [Logins -> {"none", "open", "confirmed", "expired"}], refused : SUBSET Creds]
    <3>1. PICK x \in {"confirmed", "expired"} : svc' = [svc EXCEPT !.login[l] = x]
      BY <2>2 DEF Scan, Expire
    <3> QED BY <2>1, <3>1
  <2>3. ASSUME NEW c \in Creds, Revoke(c)
        PROVE  svc' \in [login : [Logins -> {"none", "open", "confirmed", "expired"}], refused : SUBSET Creds]
    BY <2>1, <2>3 DEF Revoke
  <2> QED BY <2>2, <2>3
<1>3. Around'
  BY <1>1, <1>2 DEF Inv, Around
<1>4. Host'
  BY <1>1, HostStays DEF Inv, host
<1> QED BY <1>1, <1>3, <1>4, DeskRests DEF Inv, host

LEMMA RestartKeeps ==
    ASSUME Inv, Crash
    PROVE  Inv'
<1>1. Host'
  BY CrashKeeps DEF Inv
<1>2. /\ jobs' = Booted(disk) /\ config' = disk /\ disk' = disk /\ cli' = NoCli /\ crashes' = crashes + 1
      /\ crashes < MaxCrashes /\ UNCHANGED <<svc, page, requests>>
  BY DEF Crash
<1>3. Desk'
  BY <1>2, BootedIs DEF Desk, Sound, Saves
<1>4. Around'
  <2>1. cli' \in [by : {"none", "login", "onboard"}, login : 0..MaxCreds, left : 0..Budget] /\ ~(cli'.left > 0)
    BY <1>2, BindingAssumption DEF NoCli
  <2>2. crashes' \in Nat /\ crashes' <= MaxCrashes
    BY <1>2, BindingAssumption DEF Inv, Around
  <2> QED BY <1>2, <2>1, <2>2 DEF Inv, Around
<1> QED BY <1>1, <1>3, <1>4 DEF Inv

LEMMA Invariant == Spec => []Inv
<1>1. ASSUME Inv, [Next]_vars PROVE Inv'
  <2>1. CASE UNCHANGED vars
    <3>1. UNCHANGED <<kind, host, fetch, jobs, outside>>
      BY <2>1 DEF vars
    <3>2. Host'
      BY <1>1, <3>1, HostStays DEF Inv, host
    <3> QED BY <1>1, <3>1, <3>2, DeskRests, OutsideRests DEF Inv, host
  <2>2. CASE Next
    BY <1>1, <2>2, RuntimeSteps, ConfirmedKeeps, UnconfirmedKeeps, PersistKeeps, PersistFailsKeeps,
       MakesCodeKeeps, ServingKeeps, AnsweredKeeps, CommandsKeep, PageKeeps, CliKeeps, PlatformKeeps,
       RestartKeeps DEF Next, StreamMoves, PlatformAnswers, Serve
  <2> QED BY <1>1, <2>1, <2>2
<1> QED BY <1>1, Starting, PTL DEF Spec

-------------------------------------------------------------------------------
(***************************************************************************)
(* What holds of every channel.                                            *)
(***************************************************************************)
\* The configuration, the drivers and the requests keep their types; the
\* runtime's driver is always the newest and made of the credentials the
\* configuration has, whoever changed it, and a runtime without one does not
\* run.
THEOREM BindingTypes == Spec => []TypeOK
<1>1. Inv => TypeOK
  <2> SUFFICES ASSUME Inv PROVE TypeOK
    OBVIOUS
  <2>1. \A c \in {config, disk} :
            /\ c \in [enabled : BOOLEAN, cred : 0..MaxCreds, linked : BOOLEAN, code : BOOLEAN]
            /\ c.code => kind = "telegram" /\ ~c.linked
    BY DEF Inv, Host, Typed, Configs, Coded
  <2>2. jobs \in [Slots -> [by : {"none", "page", "login", "onboard", "boot", "user", "bot"},
                           login : 0..MaxCreds,
                           todo : Seq({"ask", "name", "persist", "start", "code", "begin"}),
                           res : {"none", "pending", "confirmed", "expired", "failed", "error"},
                           unsaved : BOOLEAN]]
    <3>1. Todos \subseteq Seq({"ask", "name", "persist", "start", "code", "begin"})
      BY DEF Todos
    <3> QED BY <3>1 DEF Inv, Desk, Jobs, Askers, Results
  <2>3. /\ svc.login \in [Logins -> {"none", "open", "confirmed", "expired"}] /\ svc.refused \subseteq Creds
        /\ page.active \in 0..MaxCreds /\ page.overtaken \subseteq Logins /\ page.timers \subseteq Logins
        /\ cli.left \in 0..Budget /\ requests <= MaxRequests /\ crashes <= MaxCrashes
    BY DEF Inv, Around, Pages
  <2> QED BY <2>1, <2>2, <2>3 DEF Inv, Host, Typed, TypeOK
<1> QED BY <1>1, Invariant, PTL

\* Whatever requests overlap and whichever saves fail, no request is answered
\* with anything but an error while a change it made to the configuration is
\* not in state.json: a confirmed login, a saved form, a pairing.
THEOREM AnsweredStays == Spec => []AnsweredIsSaved
<1>1. Inv => AnsweredIsSaved
  BY TodosAre DEF Inv, Desk, Sound, AnsweredIsSaved
<1> QED BY <1>1, Invariant, PTL

\* A channel with a stream of its own that shows "running" listens, or is
\* about to, with the driver of the present configuration.
THEOREM RunningHears == Spec => []RunningListens
<1>1. Inv => RunningListens
  <2> SUFFICES ASSUME Inv, running, kind # "wechat" PROVE links[driver].opening > 0 \/ Listens(driver)
    BY DEF RunningListens
  <2>1. driver \in 1..MaxDrivers /\ Typed
    BY BindingAssumption DEF Inv, Host, Typed
  <2>2. Fits(links[driver]) /\ Alive(links[driver])
    BY <2>1 DEF Inv, Host, Streams, Lives
  <2>3. CASE kind \in Sdk
    BY <2>2, <2>3 DEF Alive, Listens
  <2>4. CASE kind = "telegram"
    BY <2>2, <2>4 DEF Alive, Fits, Listens
  <2> QED BY <2>1, <2>3, <2>4, KindsAre
<1> QED BY <1>1, Invariant, PTL

\* No stream of an earlier driver or of a stopped runtime is left listening,
\* and no driver has two loops, polling, backing off or handling updates,
\* while no stop and no start overtook a stream.
THEOREM OthersAreSilent == Spec => []OneListener
<1>1. Inv => OneListener
  <2> SUFFICES ASSUME Inv, ~raced, NEW d \in 1..Len(drivers)
               PROVE  /\ d # driver \/ ~running => ~links[d].client /\ links[d].poll = 0
                      /\ Loops(links[d]) <= 1
    BY DEF OneListener
  <2>1. IF running /\ d = driver THEN Lone(links[d]) ELSE Silent(links[d])
    BY DEF Inv, Host, Alone
  <2> QED BY <2>1 DEF Lone, Silent
<1> QED BY <1>1, Invariant, PTL

=============================================================================
