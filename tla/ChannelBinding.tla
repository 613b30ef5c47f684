---------------------------- MODULE ChannelBinding ----------------------------
(***************************************************************************)
(* How a chat channel is bound to the host and keeps listening: its saved  *)
(* configuration, the driver made of it, the runtime's running flag and    *)
(* the streams the drivers hold open; the requests that change them (the   *)
(* page's QR login and settings form, the commands login, onboard, config, *)
(* start and stop), which overlap at every await; saves that fail; and a   *)
(* crash.                                                                  *)
(*                                                                         *)
(* One channel of any kind: feishu and dingtalk open an SDK client,        *)
(* telegram runs a long-poll loop, wechat a timer; feishu and wechat are   *)
(* bound by a QR login, the others by saving credentials.  A credential is *)
(* a number, the login with the same number yields it.                     *)
(***************************************************************************)
EXTENDS Naturals, Sequences, FiniteSets

CONSTANTS Kinds,
          MaxCreds,    \* credentials are 1..MaxCreds, 1 that of the environment
          MaxDrivers,  \* bound on drivers made before a restart
          MaxRequests, \* bound on what users ask for, and on crashes with it
          MaxCrashes,
          Budget,      \* polls a login command makes at most
          Slots        \* requests under way at once

Sdk == {"feishu", "dingtalk"}
Qr == {"feishu", "wechat"}
Creds == 1..MaxCreds
Logins == 2..MaxCreds

ASSUME BindingAssumption ==
    /\ Kinds \subseteq Sdk \cup Qr \cup {"telegram"}
    /\ {MaxCreds, MaxDrivers, Budget} \subseteq Nat \ {0}
    /\ {MaxRequests, MaxCrashes} \subseteq Nat

VARIABLES
    kind,
    config,   \* stack.config: linked and code are telegram's pairing
    disk,     \* the configuration saved last
    drivers,  \* credentials of the drivers made since boot
    driver,   \* the runtime's driver, an index of drivers, or 0
    links,    \* per driver: what it is opening, holds open or polls
    running, relogin,
    fetch,    \* wechat: the driver of the poll in flight, or 0
    jobs,     \* requests the host is working on
    svc,      \* the platforms: the state of each login, the credentials refused
    page,     \* the web page: active login, its timers, logins being started
    cli,      \* a login command: its login and the polls it has left
    requests, crashes,
    raced     \* history: a stop or start overtook a stream that was not there
              \* to be stopped: opening, backing off or handling updates

host == <<config, disk, drivers, driver, links, running, relogin, raced>>
outside == <<svc, page, cli, requests, crashes>>
vars == <<kind, host, fetch, jobs, outside>>

\* Telegram's loops: in a poll, backing off, handling updates; abort: the
\* controller is that of a poll still in flight.
NoLink == [opening |-> 0, client |-> FALSE, on |-> FALSE, poll |-> 0, wait |-> 0, handle |-> 0,
           abort |-> FALSE]
\* unsaved (history): a change the request made is not on disk.
Idle == [by |-> "none", login |-> 0, todo |-> <<>>, res |-> "none", unsaved |-> FALSE]
Unset == [enabled |-> FALSE, cred |-> 0, linked |-> FALSE, code |-> FALSE]
NoCli == [by |-> "none", login |-> 0, left |-> 0]

Configured(c) == c.enabled /\ c.cred # 0
\* createDriver: wechat needs one to log in with, before it has a token.
HasDriver(c) == c.enabled /\ (kind = "wechat" \/ c.cred # 0)

\* The channels whose configuration is complete are started after boot.
Booted(c) == [s \in Slots |->
    IF Configured(c) /\ s = CHOOSE t \in Slots : TRUE
    THEN [Idle EXCEPT !.by = "boot", !.todo = <<"start">>] ELSE Idle]

Init ==
    /\ kind \in Kinds
    /\ config \in {[Unset EXCEPT !.enabled = (kind = "wechat")],
                   [Unset EXCEPT !.enabled = TRUE, !.cred = 1]}
    /\ disk = config
    /\ drivers = IF HasDriver(config) THEN <<config.cred>> ELSE <<>>
    /\ driver = Len(drivers)
    /\ links = [d \in 1..MaxDrivers |-> NoLink]
    /\ running = FALSE /\ relogin = FALSE /\ fetch = 0
    /\ jobs = Booted(config) /\ raced = FALSE
    /\ svc = [login |-> [l \in Logins |-> "none"], refused |-> {}]
    /\ page = [active |-> 0, timers |-> {}, starting |-> 0, overtaken |-> {}]
    /\ cli = NoCli /\ requests = 0 /\ crashes = 0

TypeOK ==
    /\ kind \in Kinds /\ relogin \in BOOLEAN /\ raced \in BOOLEAN
    /\ \A c \in {config, disk} :
           /\ c \in [enabled : BOOLEAN, cred : 0..MaxCreds, linked : BOOLEAN, code : BOOLEAN]
           /\ c.code => kind = "telegram" /\ ~c.linked
    /\ drivers \in Seq(0..MaxCreds) /\ Len(drivers) <= MaxDrivers
    /\ driver \in {0, Len(drivers)} /\ fetch \in 0..Len(drivers)
    \* The driver is that of the configuration, whoever changed it.
    /\ IF HasDriver(config) THEN driver # 0 /\ drivers[driver] = config.cred ELSE driver = 0
    /\ running => driver # 0
    /\ jobs \in [Slots -> [by : {"none", "page", "login", "onboard", "boot", "user", "bot"},
                           login : 0..MaxCreds,
                           todo : Seq({"ask", "name", "persist", "start", "code", "begin"}),
                           res : {"none", "pending", "confirmed", "expired", "failed", "error"},
                           unsaved : BOOLEAN]]
    /\ svc.login \in [Logins -> {"none", "open", "confirmed", "expired"}]
    /\ svc.refused \subseteq Creds
    /\ page.active \in 0..MaxCreds /\ page.overtaken \subseteq Logins /\ page.timers \subseteq Logins
    /\ cli.left \in 0..Budget
    /\ requests <= MaxRequests /\ crashes <= MaxCrashes

(***************************************************************************)
(* The drivers' streams.                                                   *)
(***************************************************************************)
\* startEventStream: the SDK is imported first; a loop is not begun twice.
Begin(k) ==
    CASE kind \in Sdk -> [k EXCEPT !.opening = @ + 1]
      [] kind = "telegram" /\ ~k.on -> [k EXCEPT !.on = TRUE, !.poll = @ + 1, !.abort = TRUE]
      [] OTHER -> k

\* stopEventStream: closes the client there is, aborts the poll begun last
\* unless it has returned.
Cease(k) ==
    CASE kind \in Sdk -> [k EXCEPT !.client = FALSE]
      [] kind = "telegram" ->
             [k EXCEPT !.on = FALSE, !.abort = FALSE, !.poll = IF k.abort THEN @ - 1 ELSE @]
      [] OTHER -> k

Loops(k) == k.poll + k.wait + k.handle
Listens(d) == links[d].client \/ Loops(links[d]) > 0

\* The SDK is there: a client of before is closed, the new one connects.
Opened(d) ==
    /\ links[d].opening > 0
    /\ links' = [links EXCEPT ![d].opening = @ - 1, ![d].client = TRUE]
    /\ UNCHANGED <<kind, config, disk, drivers, driver, running, relogin, raced, fetch, jobs, outside>>
\* The import fails, or the client gives up: whichever driver's it was.
OpenFails(d) ==
    /\ \/ links[d].opening > 0 /\ links' = [links EXCEPT ![d].opening = @ - 1]
       \/ links[d].client /\ links' = [links EXCEPT ![d].client = FALSE]
    /\ running' = FALSE
    /\ UNCHANGED <<kind, config, disk, drivers, driver, relogin, raced, fetch, jobs, outside>>

\* A poll of driver d ends, that of the loop begun last or that of another.
PollEnds(d, k) ==
    /\ k.poll > 0
    /\ \E latest \in BOOLEAN :
           /\ latest \/ k.poll > 1 \/ ~k.abort
           /\ links' = [links EXCEPT ![d] = [k EXCEPT !.poll = k.poll - 1, !.abort = ~latest /\ k.abort]]

\* _loop: a poll that fails while the stream is on backs off.
PollFails(d) ==
    /\ links[d].on /\ links[d].wait < 2 /\ PollEnds(d, [links[d] EXCEPT !.wait = @ + 1])
    /\ UNCHANGED <<kind, config, disk, drivers, driver, running, relogin, raced, fetch, jobs, outside>>
\* A poll returns: its updates are handled, at one await after another.
PollReturns(d) ==
    /\ PollEnds(d, [links[d] EXCEPT !.handle = @ + 1])
    /\ UNCHANGED <<kind, config, disk, drivers, driver, running, relogin, raced, fetch, jobs, outside>>
\* 401: the loop ends, and with it the others of this driver.
PollRefused(d) ==
    /\ links[d].on /\ drivers[d] \in svc.refused /\ PollEnds(d, [links[d] EXCEPT !.on = FALSE])
    /\ running' = FALSE
    /\ UNCHANGED <<kind, config, disk, drivers, driver, relogin, raced, fetch, jobs, outside>>

\* The loop goes on with a new poll while the stream is on, or ends.
GoesOn(d, k) ==
    links' = [links EXCEPT ![d] = [k EXCEPT !.poll = IF k.on THEN k.poll + 1 ELSE k.poll,
                                            !.abort = k.on \/ k.abort]]
BackoffEnds(d) ==
    /\ links[d].wait > 0 /\ GoesOn(d, [links[d] EXCEPT !.wait = @ - 1])
    /\ UNCHANGED <<kind, config, disk, drivers, driver, running, relogin, raced, fetch, jobs, outside>>
HandlingEnds(d) ==
    /\ links[d].handle > 0 /\ GoesOn(d, [links[d] EXCEPT !.handle = @ - 1])
    /\ UNCHANGED <<kind, config, disk, drivers, driver, running, relogin, raced, fetch, jobs, outside>>

(***************************************************************************)
(* The runtime.                                                            *)
(***************************************************************************)
\* Mutant: a channel without a driver is called running.
MutStartNoDriver ==
    /\ running' = TRUE /\ UNCHANGED raced
    /\ links' = IF driver = 0 \/ running THEN links ELSE [links EXCEPT ![driver] = Begin(links[driver])]
\* start, once the pairing code is there; no driver or running: nothing.
Start ==
    IF driver = 0 \/ running
    THEN UNCHANGED <<running, links, raced>>
    ELSE /\ running' = TRUE
         /\ links' = [links EXCEPT ![driver] = Begin(links[driver])]
         /\ raced' = (raced \/ Listens(driver) \/ links[driver].opening > 0)

\* stop: what the driver is only opening is not stopped.
Stop ==
    /\ running' = FALSE
    /\ links' = IF driver = 0 THEN links ELSE [links EXCEPT ![driver] = Cease(links[driver])]
    /\ raced' = (raced \/ (driver # 0 /\ links[driver].opening > 0))

\* ensurePairingCode: telegram makes one unless it has one or is linked.
Unpaired(c) == kind = "telegram" /\ ~c.linked /\ ~c.code

\* Mutant: the driver in use is not stopped.
MutRebindLeavesOpen(c) ==
    LET again == running /\ HasDriver(c)
    IN /\ HasDriver(c) => Len(drivers) < MaxDrivers
       /\ config' = [c EXCEPT !.code = @ \/ (again /\ Unpaired(c))]
       /\ drivers' = IF HasDriver(c) THEN Append(drivers, c.cred) ELSE drivers
       /\ driver' = IF HasDriver(c) THEN Len(drivers') ELSE 0
       /\ running' = again /\ relogin' = FALSE
       /\ links' = IF again THEN [links EXCEPT ![driver'] = Begin(links[driver'])] ELSE links
       /\ raced' = (raced \/ (driver # 0 /\ links[driver].opening > 0))
\* Mutant: the flag stays up, so start returns early.
MutRebindNoRestart(c) ==
    /\ HasDriver(c) => Len(drivers) < MaxDrivers
    /\ config' = c
    /\ drivers' = IF HasDriver(c) THEN Append(drivers, c.cred) ELSE drivers
    /\ driver' = IF HasDriver(c) THEN Len(drivers') ELSE 0
    /\ running' = (running /\ HasDriver(c)) /\ relogin' = FALSE
    /\ links' = IF running THEN [links EXCEPT ![driver] = Cease(links[driver])] ELSE links
    /\ raced' = (raced \/ (driver # 0 /\ links[driver].opening > 0))
\* The configuration becomes c and the runtime gets a driver made of it
\* (configureDriver): a runtime that was running goes on with the new one,
\* if there is one; telegram's start is not awaited and may make a code.
Rebind(c) ==
    LET again == running /\ HasDriver(c)
        off == IF running THEN [links EXCEPT ![driver] = Cease(links[driver])] ELSE links
    IN /\ HasDriver(c) => Len(drivers) < MaxDrivers
       /\ config' = [c EXCEPT !.code = @ \/ (again /\ Unpaired(c))]
       /\ drivers' = IF HasDriver(c) THEN Append(drivers, c.cred) ELSE drivers
       /\ driver' = IF HasDriver(c) THEN Len(drivers') ELSE 0
       /\ running' = again /\ relogin' = FALSE
       /\ links' = IF again THEN [off EXCEPT ![driver'] = Begin(off[driver'])] ELSE off
       /\ raced' = (raced \/ (driver # 0 /\ links[driver].opening > 0))

\* The poll timer of wechat: one fetch at a time.
Fetch ==
    /\ kind = "wechat" /\ running /\ fetch = 0 /\ fetch' = driver
    /\ UNCHANGED <<kind, host, jobs, outside>>
Fetched ==
    /\ fetch # 0 /\ fetch' = 0
    /\ UNCHANGED <<kind, host, jobs, outside>>
\* Mutant: a refused token is an error like any other.
MutFetchRefused ==
    /\ fetch # 0 /\ drivers[fetch] \in svc.refused /\ fetch' = 0
    /\ UNCHANGED <<kind, host, jobs, outside>>
\* _handleFetchError: a refused token stops the runtime, whoever's it was.
FetchRefused ==
    /\ fetch # 0 /\ drivers[fetch] \in svc.refused
    /\ fetch' = 0 /\ relogin' = TRUE /\ Stop
    /\ UNCHANGED <<kind, config, disk, drivers, driver, jobs, outside>>

(***************************************************************************)
(* Requests the host works on.                                             *)
(***************************************************************************)
\* The slot a new request takes.
Free == LET none == {s \in Slots : jobs[s].by = "none"}
        IN IF none = {} THEN {} ELSE {CHOOSE s \in none : TRUE}
Job(b, l, do) == [Idle EXCEPT !.by = b, !.login = l, !.todo = do]
\* The credential users type, other than that of the environment for the
\* channels bound so; those a login yields never leave the host.
Known == {IF kind \in Qr THEN 1 ELSE MaxCreds}
Asked == requests + crashes < MaxRequests /\ requests' = requests + 1
Rest(s) == Tail(jobs[s].todo)
At(s, step) == jobs[s].todo # <<>> /\ Head(jobs[s].todo) = step

\* Mutant: a login is answered before it is saved.
MutOnceStored(s) ==
    jobs' = [jobs EXCEPT ![s].todo = IF kind = "feishu" THEN <<"name", "start">> ELSE <<"start">>,
                         ![s].res = "confirmed", ![s].unsaved = TRUE]
\* What follows a confirmed login that was stored, at each await.
OnceStored(s) ==
    jobs' = [jobs EXCEPT ![s].todo = IF kind = "feishu" THEN <<"name", "persist", "start">>
                                     ELSE <<"persist", "start">>,
                         ![s].res = "confirmed", ![s].unsaved = TRUE]

\* getLoginStatus: the platform is asked once; a login it confirms is stored.
Confirmed(s) ==
    LET l == jobs[s].login
    IN /\ At(s, "ask") /\ svc.login[l] = "confirmed"
       /\ Rebind([config EXCEPT !.enabled = TRUE, !.cred = l])
       /\ OnceStored(s)
       /\ UNCHANGED <<kind, disk, fetch, outside>>
\* Pending, expired; a code used up is expired too.
NotConfirmed(s) ==
    LET was == svc.login[jobs[s].login]
    IN /\ At(s, "ask")
       /\ was = "confirmed" => Len(drivers) = MaxDrivers
       /\ jobs' = [jobs EXCEPT ![s].todo = <<>>,
                               ![s].res = IF was = "open" THEN "pending" ELSE "expired"]
       /\ UNCHANGED <<kind, host, fetch, outside>>
\* The platform is not reached: feishu calls the login failed, wechat's
\* request fails.
NotReached(s) ==
    /\ At(s, "ask")
    /\ jobs' = [jobs EXCEPT ![s].todo = <<>>,
                            ![s].res = IF kind = "feishu" THEN "failed" ELSE "error"]
    /\ UNCHANGED <<kind, host, fetch, outside>>

\* resolveUserName: the platform is asked for a name (not modelled), which
\* may also be refused; either way the request goes on.
Named(s) ==
    /\ At(s, "name")
    /\ jobs' = [jobs EXCEPT ![s].todo = Rest(s)]
    /\ UNCHANGED <<kind, host, fetch, outside>>
\* A save that was awaited is done.  Saves made for other reasons, which only
\* come sooner, are left out.
Persist(s) ==
    /\ At(s, "persist") \/ At(s, "code")
    /\ disk' = config
    /\ jobs' = [t \in Slots |-> [jobs[t] EXCEPT !.unsaved = FALSE, !.todo = IF t = s THEN Tail(@) ELSE @]]
    /\ UNCHANGED <<kind, config, drivers, driver, links, running, relogin, raced, fetch, outside>>
\* It fails, and the request with it; what start throws, configure catches.
PersistFails(s) ==
    LET left == IF At(s, "code") THEN Tail(Rest(s)) ELSE <<>>
    IN /\ At(s, "persist") \/ At(s, "code")
       /\ jobs' = [jobs EXCEPT ![s].todo = left, ![s].res = IF left = <<>> THEN "error" ELSE @]
       /\ UNCHANGED <<kind, host, fetch, outside>>
\* start of telegram: a pairing code first, saved before the stream begins.
MakesCode(s) ==
    /\ At(s, "start") /\ Unpaired(config)
    /\ config' = [config EXCEPT !.code = TRUE]
    /\ jobs' = [jobs EXCEPT ![s].todo = <<"code", "begin">> \o Rest(s), ![s].unsaved = TRUE]
    /\ UNCHANGED <<kind, disk, drivers, driver, links, running, relogin, raced, fetch, outside>>
Starts(s) ==
    /\ At(s, "begin") \/ (At(s, "start") /\ ~Unpaired(config))
    /\ Start
    /\ jobs' = [jobs EXCEPT ![s].todo = Rest(s)]
    /\ UNCHANGED <<kind, config, disk, drivers, driver, relogin, fetch, outside>>

\* onPaired: the pairing code is among the updates a loop handles; the user
\* is told so once it is saved.
Pair(s) ==
    /\ config.code /\ s \in Free /\ \E d \in 1..Len(drivers) : links[d].handle > 0
    /\ config' = [config EXCEPT !.code = FALSE, !.linked = TRUE]
    /\ jobs' = [jobs EXCEPT ![s] = [Job("bot", 0, <<"persist">>)
                                   EXCEPT !.res = "confirmed", !.unsaved = TRUE]]
    /\ UNCHANGED <<kind, disk, drivers, driver, links, running, relogin, raced, fetch, outside>>

\* The wrapper's configure.  Saving is what binds these channels, so what is
\* complete is started; then it is saved, and with it a code made meanwhile.
Configure(s, b, c) ==
    /\ Rebind(c)
    /\ jobs' = [jobs EXCEPT ![s] =
           [Job(b, 0, CASE kind \notin Qr /\ Configured(c) /\ ~running' -> <<"start", "persist">>
                        [] running' /\ Unpaired(c) -> <<"persist", "start">>
                        [] OTHER -> <<"persist">>)
            EXCEPT !.res = "confirmed", !.unsaved = TRUE]]
\* A patch may leave the credential, set one or send it blank, which clears
\* it; telegram's token is stripped from the patch when it is blank.
CredPatches == Known \cup {IF kind = "telegram" THEN config.cred ELSE 0}

(***************************************************************************)
(* Who asks.                                                               *)
(***************************************************************************)
\* The page's form: a refresh may have emptied it; it has no field "enabled".
PageSaves(s) ==
    /\ kind \notin Qr /\ s \in Free /\ Asked
    /\ \E c \in CredPatches : Configure(s, "user", [config EXCEPT !.cred = c])
    /\ UNCHANGED <<kind, disk, fetch, svc, page, cli, crashes>>
\* The command onboard asks for the fields the channel lists.
OnboardSaves(s) ==
    /\ kind \notin Qr /\ s \in Free /\ Asked
    /\ \E c \in Known : Configure(s, "onboard", [config EXCEPT !.cred = c])
    /\ UNCHANGED <<kind, disk, fetch, svc, page, cli, crashes>>
\* The command config sets or blanks any field; a blank "enabled" is false but
\* for wechat, blank pairing fields unpair.
ConfigCommand(s) ==
    /\ s \in Free /\ Asked
    /\ \E c \in CredPatches \cup {config.cred}, e \in {config.enabled, TRUE, kind = "wechat"},
         blank \in {FALSE, kind = "telegram"} :
           Configure(s, "user", [config EXCEPT !.cred = c, !.enabled = e,
                                               !.linked = @ /\ ~blank, !.code = @ /\ ~blank])
    /\ UNCHANGED <<kind, disk, fetch, svc, page, cli, crashes>>
StartCommand(s) ==
    /\ s \in Free /\ Asked
    /\ jobs' = [jobs EXCEPT ![s] = Job("user", 0, <<"start">>)]
    /\ UNCHANGED <<kind, host, fetch, svc, page, cli, crashes>>
StopCommand ==
    /\ Asked /\ Stop
    /\ UNCHANGED <<kind, config, disk, drivers, driver, relogin, fetch, jobs, svc, page, cli, crashes>>

\* The platform hands out logins in order.
Fresh(l) == svc.login[l] = "none" /\ \A m \in Logins : m < l => svc.login[m] # "none"

\* Mutant: the timer of the active login is left to run.
MutPageBinds ==
    /\ kind \in Qr /\ Asked
    /\ page' = [page EXCEPT !.starting = @ + 1]
    /\ UNCHANGED <<kind, host, fetch, jobs, svc, cli, crashes>>
\* startQrLogin, up to its request: the timer of the active login is cleared.
PageBinds ==
    /\ kind \in Qr /\ Asked
    /\ page' = [page EXCEPT !.timers = @ \ {page.active}, !.overtaken = @ \ {page.active},
                          !.starting = @ + 1]
    /\ UNCHANGED <<kind, host, fetch, jobs, svc, cli, crashes>>
\* The login there is becomes the active one, polled by a timer; overtaken
\* (history): when another start was under way, which will not clear it.
PageBound ==
    /\ page.starting > 0
    /\ \E l \in Logins :
           /\ Fresh(l) /\ svc' = [svc EXCEPT !.login[l] = "open"]
           /\ page' = [active |-> l, timers |-> page.timers \cup {l}, starting |-> page.starting - 1,
                       overtaken |-> page.overtaken \cup {m \in {l} : page.starting > 1}]
    /\ UNCHANGED <<kind, host, fetch, jobs, cli, requests, crashes>>
PageBindFails ==
    /\ page.starting > 0
    /\ page' = [page EXCEPT !.active = 0, !.starting = @ - 1]
    /\ UNCHANGED <<kind, host, fetch, jobs, svc, cli, requests, crashes>>
\* pollQrLogin: a tick asks, though the answer before has not come.
PagePolls(l) ==
    /\ l \in page.timers
    /\ \E s \in Free : jobs' = [jobs EXCEPT ![s] = Job("page", l, <<"ask">>)]
    /\ UNCHANGED <<kind, host, fetch, outside>>

\* The commands login and onboard start a login of their own.
CliLogin(b) ==
    /\ kind \in Qr /\ cli = NoCli /\ Asked
    /\ \E l \in Logins :
           /\ Fresh(l) /\ svc' = [svc EXCEPT !.login[l] = "open"]
           /\ cli' = [by |-> b, login |-> l, left |-> Budget]
    /\ UNCHANGED <<kind, host, fetch, jobs, page, crashes>>
LoginCommand == CliLogin("login")
OnboardLogin == CliLogin("onboard")
CliPolls ==
    /\ cli.left > 0 /\ \A s \in Slots : jobs[s].login # cli.login
    /\ cli' = [cli EXCEPT !.left = @ - 1]
    /\ \E s \in Free : jobs' = [jobs EXCEPT ![s] = Job(cli.by, cli.login, <<"ask">>)]
    /\ UNCHANGED <<kind, host, fetch, svc, page, requests, crashes>>

Terminal == {"confirmed", "expired", "failed"}
\* The answer ends the active login, whichever login it was about; if there
\* is none it throws, and the timer that asked goes on.
PageTold(res) ==
    page' = IF res \in Terminal
            THEN [page EXCEPT !.timers = @ \ {page.active}, !.overtaken = @ \ {page.active}, !.active = 0]
            ELSE page

\* The answer leaves the host.  Onboarding goes on to start the channel.
Answered(s) ==
    LET j == jobs[s]
        last == j.login = cli.login /\ (j.res \in Terminal \cup {"error"} \/ cli.left = 0)
    IN /\ j.by # "none" /\ j.todo = <<>>
       /\ jobs' = [jobs EXCEPT ![s] = IF j.by = "onboard" /\ j.res = "confirmed"
                                      THEN Job("user", 0, <<"start">>) ELSE Idle]
       /\ IF j.by = "page" THEN PageTold(j.res) ELSE UNCHANGED page
       /\ cli' = IF j.by \in {"login", "onboard"} /\ j.login # 0 /\ last THEN NoCli ELSE cli
       /\ UNCHANGED <<kind, config, disk, drivers, driver, links, running, relogin, raced, fetch,
                      svc, requests, crashes>>

(***************************************************************************)
(* Outside.                                                                *)
(***************************************************************************)
Scan(l) ==
    /\ svc.login[l] = "open" /\ svc' = [svc EXCEPT !.login[l] = "confirmed"]
    /\ UNCHANGED <<kind, host, fetch, jobs, page, cli, requests, crashes>>
Expire(l) ==
    /\ svc.login[l] = "open" /\ svc' = [svc EXCEPT !.login[l] = "expired"]
    /\ UNCHANGED <<kind, host, fetch, jobs, page, cli, requests, crashes>>
Revoke(c) ==
    /\ kind \notin Sdk /\ c = config.cred /\ svc.refused = {} /\ svc' = [svc EXCEPT !.refused = {c}]
    /\ UNCHANGED <<kind, host, fetch, jobs, page, cli, requests, crashes>>

\* A crash and a restart, from the configuration saved; requests are lost,
\* the page stays.
Crash ==
    /\ crashes < MaxCrashes /\ requests + crashes < MaxRequests /\ crashes' = crashes + 1
    /\ config' = disk /\ drivers' = IF HasDriver(disk) THEN <<disk.cred>> ELSE <<>>
    /\ driver' = Len(drivers') /\ links' = [d \in DOMAIN links |-> NoLink]
    /\ running' = FALSE /\ relogin' = FALSE /\ fetch' = 0 /\ raced' = FALSE
    /\ jobs' = Booted(disk) /\ cli' = NoCli
    /\ UNCHANGED <<kind, disk, svc, page, requests>>

PlatformAnswers(s) == Confirmed(s) \/ NotConfirmed(s)
Serve(s) ==
    Named(s) \/ Persist(s) \/ PersistFails(s) \/ MakesCode(s) \/ Starts(s) \/ Answered(s)

Next ==
    \/ \E d \in 1..Len(drivers) :
           \/ Opened(d) \/ OpenFails(d) \/ PollFails(d) \/ BackoffEnds(d)
           \/ PollReturns(d) \/ PollRefused(d) \/ HandlingEnds(d)
    \/ Fetch \/ Fetched \/ FetchRefused
    \/ \E s \in Slots : PlatformAnswers(s) \/ NotReached(s) \/ Serve(s) \/ Pair(s)
    \/ \E s \in Slots : PageSaves(s) \/ OnboardSaves(s) \/ ConfigCommand(s) \/ StartCommand(s)
    \/ StopCommand \/ PageBinds \/ PageBound \/ PageBindFails
    \/ \E l \in Logins : PagePolls(l) \/ Scan(l) \/ Expire(l)
    \/ LoginCommand \/ OnboardLogin \/ CliPolls
    \/ \E c \in Creds : Revoke(c)
    \/ Crash

\* Promises resolve, timers tick, a login code expires if nobody scans it;
\* a platform asked again and again answers in the end, one request or another.
Fairness ==
    /\ WF_vars(\E s \in Slots : Serve(s)) /\ SF_vars(\E s \in Slots : PlatformAnswers(s))
    /\ SF_vars(\E l \in Logins : PagePolls(l)) /\ WF_vars(\E l \in Logins : Expire(l))
    /\ WF_vars(Fetch) /\ WF_vars(Fetched \/ FetchRefused) /\ SF_vars(FetchRefused)

Spec == Init /\ [][Next]_vars /\ Fairness

(***************************************************************************)
(* Properties.                                                             *)
(***************************************************************************)
\* A login the user was told is confirmed, a form that was told saved, a bot
\* that said "paired", a start that made a code: each of these changes is in
\* state.json before the answer leaves, whichever saves fail and whoever
\* changes the configuration meanwhile, so a crash the moment after the answer
\* does not undo it.
AnsweredIsSaved ==
    \A s \in Slots :
        jobs[s].todo = <<>> /\ jobs[s].res # "error" => ~jobs[s].unsaved

\* A runtime that shows "running" listens with the driver of the present
\* configuration, or is about to: no rebinding leaves it running deaf.
RunningListens ==
    running /\ kind # "wechat" => links[driver].opening > 0 \/ Listens(driver)

\* Nothing listens besides that: a rebinding, a stop or a failure leaves no
\* stream of an earlier driver or of a stopped runtime, and no driver has two
\* loops, unless a stop found the stream still being opened, or a start came
\* while a loop that was stopped was backing off or handling its updates.
OneListener ==
    ~raced => \A d \in 1..Len(drivers) :
        /\ d # driver \/ ~running => ~links[d].client /\ links[d].poll = 0
        /\ Loops(links[d]) <= 1

\* The intervals of the page that poll a login are cleared in the end, however
\* their answers overlap and whichever login they are about: by an answer, or
\* by the start of another login.  Only one that began while another start was
\* under way may poll until the page is left, which startQrLogin means to
\* avoid: the other start cleared the timers there were before it.
LoginEnds == page.timers # {} ~> page.timers \subseteq page.overtaken

\* "An expired bot token would otherwise fail silently forever": a wechat
\* runtime whose token is refused stops and asks for a new login.
RefusedTokenShows ==
    (kind = "wechat" /\ running /\ config.cred \in svc.refused)
        ~> (relogin \/ ~running \/ config.cred \notin svc.refused)

\* What state.js says of saving: "saving valid credentials IS the bind".  A
\* form that saves credentials leaves the channel with a driver to run.
SavingBinds == [][\A s \in Slots : PageSaves(s) /\ config'.cred # 0 => driver' # 0]_vars
=============================================================================
