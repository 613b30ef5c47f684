---------------------------- MODULE DaemonProcess ----------------------------
(***************************************************************************)
(* The daemon as a process of the machine: booting, listening on its port, *)
(* shutting down, with its update check; and the desktop shell that adopts *)
(* a running daemon or spawns one, shows it in a window, and stops or keeps*)
(* it at the end.  Daemons are also started by others: npm, systemd, a     *)
(* second app.                                                             *)
(*                                                                         *)
(* Everything listens on one port.  What a daemon writes is in             *)
(* JsonFileStore, and what a stop keeps it from writing in the README.     *)
(* A release is always published, so an update check never finds none; all *)
(* daemons share one version-cache.json.                                   *)
(***************************************************************************)
EXTENDS Naturals, FiniteSets

CONSTANTS Pids,
          MaxVersion,   \* releases of Comote are 1..MaxVersion
          MaxStarts,    \* bound on processes started
          None

ASSUME ProcessAssumption ==
    MaxVersion \in Nat \ {0} /\ MaxStarts \in Nat /\ None \notin Pids

Versions == 1..MaxVersion

VARIABLES
    procs,    \* the daemons: how far each is, its version, and (history) who
              \* started it, or that a quit kept it
    check,    \* their update checks
    cache,    \* version-cache.json
    release,  \* the newest release published
    app,      \* the version of the app on disk
    shell,    \* the desktop shell: its window, the daemon it holds
    keep,     \* keepDaemonAlive
    starts

vars == <<procs, check, cache, release, app, shell, keep, starts>>

Gone == [stage |-> "none", v |-> 0, by |-> "none"]
\* offer: the update it knows of, or 0; flying: answers under way; saves:
\* offers on their way to the cache.
NoCheck == [armed |-> FALSE, offer |-> 0, flying |-> {}, saves |-> {}]
NoCache == [current |-> 0, offer |-> 0]
Closed == [window |-> "none", v |-> 0, holds |-> None]

Alive(p) == procs[p].stage # "none"
Listening == {p \in Pids : procs[p].stage = "up"}

TypeOK ==
    /\ procs \in [Pids -> [stage : {"none", "boot", "up", "closing"},
                           v : 0..MaxVersion,
                           by : {"none", "shell", "kept", "others"}]]
    /\ check \in [Pids -> [armed : BOOLEAN, offer : 0..MaxVersion, flying : SUBSET Versions,
                           saves : SUBSET (0..MaxVersion)]]
    /\ \A p \in Pids : check[p].armed => procs[p].stage \in {"boot", "up"}
    /\ Cardinality(Listening) <= 1
    /\ cache \in [current : 0..MaxVersion, offer : 0..MaxVersion]
    /\ release \in Versions /\ app \in 1..release
    /\ shell \in [window : {"none", "boot", "service", "error", "quitting"},
                  v : 0..MaxVersion, holds : Pids \cup {None}]
    /\ shell.window = "none" <=> shell.v = 0
    /\ keep \in BOOLEAN /\ starts \in 0..MaxStarts

Init ==
    /\ procs = [p \in Pids |-> Gone] /\ check = [p \in Pids |-> NoCheck]
    /\ cache = NoCache /\ release = 1 /\ app = 1
    /\ shell = Closed /\ keep = FALSE /\ starts = 0

(***************************************************************************)
(* One daemon.                                                             *)
(***************************************************************************)
\* Mutant: a cache of any version is taken.
MutCachedAny(v) == cache
\* loadCache: what another version cached is not used.
Cached(v) == IF cache.current = v THEN cache ELSE NoCache

\* It reads its files and starts the update check before it listens.
Spawn(p, v, by) ==
    /\ ~Alive(p) /\ starts < MaxStarts /\ starts' = starts + 1
    /\ procs' = [procs EXCEPT ![p] = [stage |-> "boot", v |-> v, by |-> by]]
    /\ check' = [check EXCEPT ![p] = [armed |-> TRUE, offer |-> Cached(v).offer, flying |-> {}, saves |-> {}]]

\* p is gone.
Ends(p) ==
    /\ procs' = [procs EXCEPT ![p] = Gone]
    /\ check' = [check EXCEPT ![p] = NoCheck]

\* EADDRINUSE ends it.
Listen(p) ==
    /\ procs[p].stage = "boot"
    /\ IF Listening = {}
       THEN procs' = [procs EXCEPT ![p].stage = "up"] /\ UNCHANGED check
       ELSE Ends(p)
    /\ UNCHANGED <<cache, release, app, shell, keep, starts>>

\* Mutant: the update check is not stopped.
MutShutdownTicksOn(p) ==
    IF procs[p].stage = "up"
    THEN procs' = [procs EXCEPT ![p].stage = "closing"] /\ UNCHANGED check
    ELSE Ends(p)
\* SIGTERM: the handlers are installed once it listens.  The port is closed
\* and the update check stopped.
Sigterm(p) ==
    CASE procs[p].stage = "up" ->
            /\ procs' = [procs EXCEPT ![p].stage = "closing"]
            /\ check' = [check EXCEPT ![p].armed = FALSE]
      [] procs[p].stage = "boot" -> Ends(p)
      [] OTHER -> UNCHANGED <<procs, check>>

\* The port's last connection closes, or two seconds pass.
Exits(p) ==
    /\ procs[p].stage = "closing" /\ Ends(p)
    /\ UNCHANGED <<cache, release, app, shell, keep, starts>>

Crash(p) ==
    /\ Alive(p) /\ Ends(p)
    /\ UNCHANGED <<cache, release, app, shell, keep, starts>>

\* npm, systemd or a terminal.
OthersStart(p, v) ==
    /\ v <= release /\ Spawn(p, v, "others")
    /\ UNCHANGED <<cache, release, app, shell, keep>>
OthersStop(p) ==
    /\ Alive(p) /\ Sigterm(p)
    /\ UNCHANGED <<cache, release, app, shell, keep, starts>>

(***************************************************************************)
(* The update check.                                                       *)
(***************************************************************************)
\* checkNow: by its timers while they run, or forced by the API at any time.
CheckNow(p) ==
    /\ procs[p].stage = "up" \/ check[p].armed
    /\ check' = [check EXCEPT ![p].flying = @ \cup {release}]
    /\ UNCHANGED <<procs, cache, release, app, shell, keep, starts>>

\* The update an answer offers to version v.
Offer(latest, v) == IF latest > v THEN latest ELSE 0

Takes(p, latest, offer, saves) ==
    /\ latest \in check[p].flying
    /\ check' = [check EXCEPT ![p].offer = offer, ![p].flying = @ \ {latest},
                             ![p].saves = @ \cup saves]
    /\ UNCHANGED <<procs, cache, release, app, shell, keep, starts>>

\* An answer is taken over, and will be cached.
CheckAnswered(p, latest) ==
    LET offer == Offer(latest, procs[p].v) IN Takes(p, latest, offer, {offer})

\* It fails: what was known stays, and is cached when GitHub did answer.
CheckFails(p, latest) ==
    \E saves \in {{}, {check[p].offer}} : Takes(p, latest, check[p].offer, saves)

\* _persist: writes overlap, a file half written is no cache, and a write
\* that fails is forgotten.
CacheWrites(p, offer) ==
    /\ offer \in check[p].saves
    /\ \/ cache' = NoCache /\ UNCHANGED check
       \/ /\ cache' \in {cache, [current |-> procs[p].v, offer |-> offer]}
          /\ check' = [check EXCEPT ![p].saves = @ \ {offer}]
    /\ UNCHANGED <<procs, release, app, shell, keep, starts>>

(***************************************************************************)
(* The desktop shell.                                                      *)
(***************************************************************************)
\* classify_service_probe: a daemon of the app's own version.
Reusable(p) == procs[p].v = app

\* setup: adopt, refuse, or spawn.  A daemon that listens may be too busy to
\* tell its version.
Launch ==
    /\ shell.window = "none"
    /\ \/ \E p \in Listening :
           /\ \/ Reusable(p) /\ shell' = [window |-> "boot", v |-> app, holds |-> p]
              \/ shell' = [window |-> "error", v |-> app, holds |-> None]
           /\ UNCHANGED <<procs, check, starts>>
       \/ /\ Listening = {}
          /\ \E p \in Pids : Spawn(p, app, "shell") /\ shell' = [window |-> "boot", v |-> app, holds |-> p]
    /\ UNCHANGED <<cache, release, app, keep>>

\* start_comote_sidecar fails.  The window is waited for nevertheless.
LaunchWithoutSidecar ==
    /\ shell.window = "none" /\ Listening = {}
    /\ shell' = [window |-> "boot", v |-> app, holds |-> None]
    /\ UNCHANGED <<procs, check, cache, release, app, keep, starts>>

\* wait_for_service: anything that accepts a connection, for some time.
ServiceReady ==
    /\ shell.window = "boot" /\ Listening # {}
    /\ shell' = [shell EXCEPT !.window = "service"]
    /\ UNCHANGED <<procs, check, cache, release, app, keep, starts>>
WaitTimesOut ==
    /\ shell.window = "boot"
    /\ shell' = [shell EXCEPT !.window = "error"]
    /\ UNCHANGED <<procs, check, cache, release, app, keep, starts>>

SetKeepAlive ==
    /\ shell.window = "service" /\ keep' = ~keep
    /\ UNCHANGED <<procs, check, cache, release, app, shell, starts>>

\* handle_app_exit: release the daemon, or begin to stop it.
Quit ==
    /\ shell.window \in {"boot", "service", "error"}
    /\ IF keep /\ shell.holds # None
       THEN /\ shell' = Closed /\ UNCHANGED check
            /\ procs' = [procs EXCEPT ![shell.holds].by = IF Alive(shell.holds) THEN "kept" ELSE @]
       ELSE IF shell.holds = None THEN shell' = Closed /\ UNCHANGED <<procs, check>>
       ELSE shell' = [shell EXCEPT !.window = "quitting"] /\ Sigterm(shell.holds)
    /\ UNCHANGED <<cache, release, app, keep, starts>>

\* graceful_stop: the daemon was seen gone, or the grace is over.
Stopped ==
    /\ shell.window = "quitting" /\ ~Alive(shell.holds) /\ shell' = Closed
    /\ UNCHANGED <<procs, check, cache, release, app, keep, starts>>
\* Mutant: no SIGKILL.
MutKillNothing ==
    /\ shell.window = "quitting" /\ Alive(shell.holds) /\ shell' = Closed
    /\ UNCHANGED <<procs, check, cache, release, app, keep, starts>>
Kill ==
    /\ shell.window = "quitting" /\ Alive(shell.holds) /\ shell' = Closed
    /\ Ends(shell.holds)
    /\ UNCHANGED <<cache, release, app, keep, starts>>

\* A release is published; the app is updated while it is closed.
Publish ==
    /\ release < MaxVersion /\ release' = release + 1
    /\ UNCHANGED <<procs, check, cache, app, shell, keep, starts>>
UpdateApp ==
    /\ app < release /\ shell.window = "none" /\ app' = release
    /\ UNCHANGED <<procs, check, cache, release, shell, keep, starts>>

Next ==
    \/ \E p \in Pids :
        \/ Listen(p) \/ Exits(p) \/ Crash(p) \/ OthersStop(p) \/ CheckNow(p)
        \/ \E v \in Versions : OthersStart(p, v) \/ CheckAnswered(p, v) \/ CheckFails(p, v)
        \/ \E v \in 0..MaxVersion : CacheWrites(p, v)
    \/ Launch \/ LaunchWithoutSidecar \/ ServiceReady \/ WaitTimesOut
    \/ SetKeepAlive \/ Quit \/ Stopped \/ Kill \/ Publish \/ UpdateApp

Spec == Init /\ [][Next]_vars

(***************************************************************************)
(* Properties.                                                             *)
(***************************************************************************)
\* A daemon the shell started does not outlive it unless a quit kept it: in
\* whatever stage a quit meets it, it is gone when the shell is.
NothingLeftBehind ==
    shell.window = "none" => \A p \in Pids : procs[p].by # "shell"

\* An update that is offered is newer than what runs, also after the daemon
\* was updated and finds what its predecessor cached.
UpdateIsNewer ==
    \A p \in Pids : check[p].offer # 0 => check[p].offer > procs[p].v

=============================================================================
