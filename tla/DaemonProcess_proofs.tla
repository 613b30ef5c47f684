------------------------- MODULE DaemonProcess_proofs -------------------------
(***************************************************************************)
(* What holds of daemons, their update checks and the shell for any number *)
(* of processes, releases and starts.                                      *)
(***************************************************************************)
EXTENDS DaemonProcess, FiniteSetTheorems, TLAPS

Processes == [stage : {"none", "boot", "up", "closing"}, v : 0..MaxVersion,
              by : {"none", "shell", "kept", "others"}]
Checks == [armed : BOOLEAN, offer : 0..MaxVersion, flying : SUBSET Versions,
           saves : SUBSET (0..MaxVersion)]
Shells == [window : {"none", "boot", "service", "error", "quitting"},
           v : 0..MaxVersion, holds : Pids \cup {None}]

\* A process that is not there has nothing, and no update check.
Sound(r, k) ==
    /\ r \in Processes /\ k \in Checks
    /\ r.stage = "none" => r = Gone /\ k = NoCheck
    /\ k.armed => r.stage \in {"boot", "up"}
    /\ \A o \in k.saves \cup {k.offer} : o # 0 => o > r.v

\* What was cached is newer than the version that cached it.
CacheInv ==
    /\ cache \in [current : 0..MaxVersion, offer : 0..MaxVersion]
    /\ cache.offer # 0 => cache.offer > cache.current

\* The shell holds the one daemon it started, as long as it has a window.
HoldsIts ==
    \A p \in Pids : procs[p].by = "shell" => shell.window # "none" /\ shell.holds = p

ShellInv ==
    /\ shell \in Shells
    /\ shell.window = "none" <=> shell.v = 0
    /\ shell.window = "quitting" => shell.holds # None

\* Each process is sound, and one of them has the port.
Processed ==
    /\ procs \in [Pids -> Processes] /\ check \in [Pids -> Checks]
    /\ \A p \in Pids : Sound(procs[p], check[p])
    /\ \A p, q \in Listening : p = q

ProcessInv ==
    /\ Processed /\ CacheInv /\ HoldsIts /\ ShellInv
    /\ release \in Versions /\ app \in 1..release
    /\ keep \in BOOLEAN /\ starts \in 0..MaxStarts

-------------------------------------------------------------------------------
LEMMA InvImplies == ProcessInv => TypeOK /\ NothingLeftBehind /\ UpdateIsNewer
<1> SUFFICES ASSUME ProcessInv PROVE TypeOK /\ NothingLeftBehind /\ UpdateIsNewer
  OBVIOUS
<1>1. Cardinality(Listening) <= 1
  <2>1. CASE Listening = {}
    BY <2>1, FS_EmptySet
  <2>2. CASE Listening # {}
    <3>1. PICK p \in Listening : TRUE
      BY <2>2
    <3>2. Listening = {p}
      BY <3>1 DEF ProcessInv, Processed
    <3>3. Cardinality({p}) = 1
      BY FS_Singleton
    <3> QED BY <3>2, <3>3
  <2> QED BY <2>1, <2>2
<1>2. TypeOK
  <2>1. \A p \in Pids : check[p].armed => procs[p].stage \in {"boot", "up"}
    BY DEF ProcessInv, Processed, Sound
  <2>2. procs \in [Pids -> Processes] /\ check \in [Pids -> Checks]
    BY DEF ProcessInv, Processed
  <2> QED BY <1>1, <2>1, <2>2 DEF ProcessInv, CacheInv, ShellInv, Shells, Processes, Checks, TypeOK
<1> QED BY <1>2 DEF ProcessInv, Processed, Sound, HoldsIts, NothingLeftBehind, UpdateIsNewer

LEMMA InitHolds == Init => ProcessInv
<1> SUFFICES ASSUME Init PROVE ProcessInv
  OBVIOUS
<1>1. /\ 0 \in 0..MaxVersion /\ 1 \in Versions /\ 1 \in 1..1 /\ 0 \in 0..MaxStarts
  BY ProcessAssumption DEF Versions
<1>2. \A p \in Pids : procs[p] = Gone /\ check[p] = NoCheck
  BY DEF Init
<1>3. Gone \in Processes /\ NoCheck \in Checks
  BY <1>1 DEF Gone, NoCheck, Processes, Checks
<1>4. Listening = {} /\ HoldsIts
  BY <1>2 DEF Listening, Gone, HoldsIts
<1>5. Processed
  BY <1>2, <1>3, <1>4 DEF Init, Processed, Sound, Gone, NoCheck
<1>6. ShellInv
  BY <1>1 DEF Init, ShellInv, Shells, Closed
<1>7. CacheInv
  BY <1>1 DEF Init, CacheInv, NoCache
<1> QED BY <1>1, <1>4, <1>5, <1>6, <1>7 DEF Init, ProcessInv

-------------------------------------------------------------------------------
(***************************************************************************)
(* Steps of one process.                                                   *)
(***************************************************************************)
LEMMA OneChanges ==
    ASSUME Processed, NEW p \in Pids, NEW r, NEW k, Sound(r, k),
           procs' = [procs EXCEPT ![p] = r], check' = [check EXCEPT ![p] = k],
           r.stage = "up" => Listening \subseteq {p}
    PROVE  Processed'
<1>1. procs' \in [Pids -> Processes] /\ check' \in [Pids -> Checks]
  BY DEF Processed, Sound
<1>2. \A q \in Pids : procs'[q] = (IF q = p THEN r ELSE procs[q]) /\ check'[q] = (IF q = p THEN k ELSE check[q])
  BY DEF Processed
<1>3. \A q \in Pids : Sound(procs'[q], check'[q])
  BY <1>2 DEF Processed
<1>4. Listening' \subseteq Listening \cup {p} /\ (r.stage # "up" => Listening' \subseteq Listening)
  BY <1>2 DEF Listening
<1>5. \A q, w \in Listening' : q = w
  BY <1>4 DEF Processed
<1> QED BY <1>1, <1>3, <1>5 DEF Processed

LEMMA NobodyIsSound == Sound(Gone, NoCheck)
<1>1. 0 \in 0..MaxVersion
  BY ProcessAssumption
<1> QED BY <1>1 DEF Sound, Gone, NoCheck, Processes, Checks

LEMMA Ending ==
    ASSUME Processed, NEW p \in Pids, Ends(p)
    PROVE  /\ Processed'
           /\ procs'[p].by = "none" /\ \A q \in Pids \ {p} : procs'[q] = procs[q]
<1>1. Processed'
  BY OneChanges, NobodyIsSound DEF Ends, Gone
<1> QED BY <1>1 DEF Ends, Processed, Gone

\* A stop closes a daemon that listens, ends one that boots and is nothing to
\* one that closes already.
LEMMA Stopping ==
    ASSUME Processed, NEW p \in Pids, Sigterm(p)
    PROVE  /\ Processed'
           /\ procs'[p].by \in {procs[p].by, "none"} /\ \A q \in Pids \ {p} : procs'[q] = procs[q]
<1>1. CASE procs[p].stage = "up"
  <2> DEFINE r == [procs[p] EXCEPT !.stage = "closing"]
             k == [check[p] EXCEPT !.armed = FALSE]
  <2>1. Sound(r, k) /\ r.stage = "closing" /\ r.by = procs[p].by
    BY <1>1 DEF Processed, Sound, Processes, Checks, Gone
  <2>2. procs' = [procs EXCEPT ![p] = r] /\ check' = [check EXCEPT ![p] = k]
    BY <1>1 DEF Sigterm
  <2> HIDE DEF r, k
  <2>3. Processed'
    BY <2>1, <2>2, OneChanges
  <2> QED BY <2>1, <2>2, <2>3 DEF Processed
<1>2. CASE procs[p].stage = "boot"
  BY <1>2, Ending DEF Sigterm
<1>3. CASE procs[p].stage \notin {"boot", "up"}
  BY <1>3 DEF Sigterm, Processed, Listening
<1> QED BY <1>1, <1>2, <1>3

LEMMA Spawning ==
    ASSUME Processed, CacheInv, starts \in 0..MaxStarts,
           NEW p \in Pids, NEW v \in Versions, NEW by \in {"shell", "others"}, Spawn(p, v, by)
    PROVE  /\ Processed' /\ starts' \in 0..MaxStarts
           /\ procs'[p].by = by /\ \A q \in Pids \ {p} : procs'[q] = procs[q]
<1> DEFINE r == [stage |-> "boot", v |-> v, by |-> by]
           k == [armed |-> TRUE, offer |-> Cached(v).offer, flying |-> {}, saves |-> {}]
<1>1. v \in 0..MaxVersion /\ 0 \in 0..MaxVersion
  BY ProcessAssumption DEF Versions
<1>2. Cached(v).offer \in 0..MaxVersion /\ (Cached(v).offer # 0 => Cached(v).offer > v)
  BY <1>1 DEF Cached, CacheInv, NoCache
<1>3. Sound(r, k)
  BY <1>1, <1>2 DEF Sound, Processes, Checks
<1>4. /\ procs' = [procs EXCEPT ![p] = r] /\ check' = [check EXCEPT ![p] = k]
      /\ starts' = starts + 1 /\ starts < MaxStarts
  BY DEF Spawn
<1>5. r.by = by /\ r.stage = "boot"
  OBVIOUS
<1> HIDE DEF r, k
<1>6. Processed'
  BY <1>3, <1>4, <1>5, OneChanges
<1> QED BY <1>4, <1>5, <1>6, ProcessAssumption DEF Processed

-------------------------------------------------------------------------------
(***************************************************************************)
(* The daemon's and the update check's steps leave the shell alone.        *)
(***************************************************************************)
DaemonStep(p) ==
    \/ Listen(p) \/ Exits(p) \/ Crash(p) \/ OthersStop(p) \/ CheckNow(p)
    \/ \E v \in Versions : OthersStart(p, v) \/ CheckAnswered(p, v) \/ CheckFails(p, v)
    \/ \E v \in 0..MaxVersion : CacheWrites(p, v)

\* Whoever started a daemon, a step of its own does not give it to the shell.
LEMMA Untouched ==
    ASSUME HoldsIts, NEW p \in Pids, UNCHANGED shell,
           procs'[p].by \in {procs[p].by, "none", "others"}, \A q \in Pids \ {p} : procs'[q] = procs[q]
    PROVE  HoldsIts'
<1> SUFFICES ASSUME NEW q \in Pids, procs'[q].by = "shell" PROVE shell.window # "none" /\ shell.holds = q
  BY DEF HoldsIts
<1>1. procs[q].by = "shell"
  <2>1. CASE q = p
    BY <2>1
  <2>2. CASE q # p
    BY <2>2
  <2> QED BY <2>1, <2>2
<1> QED BY <1>1 DEF HoldsIts

LEMMA Checking ==
    ASSUME Processed, NEW p \in Pids, NEW latest \in Versions, NEW offer \in 0..MaxVersion,
           NEW saves \in SUBSET {offer}, Takes(p, latest, offer, saves), offer # 0 => offer > procs[p].v
    PROVE  Processed'
<1> DEFINE k == check'[p]
<1>1. procs[p].stage # "none" /\ check' = [check EXCEPT ![p] = k] /\ UNCHANGED procs
  <2>1. latest \in check[p].flying /\ UNCHANGED procs /\ check' = [check EXCEPT ![p] = k]
    BY DEF Takes, Processed
  <2>2. check[p] # NoCheck
    BY <2>1 DEF NoCheck
  <2> QED BY <2>1, <2>2 DEF Processed, Sound
<1>2. Sound(procs[p], k)
  <2>1. k = [check[p] EXCEPT !.offer = offer, !.flying = check[p].flying \ {latest},
                              !.saves = check[p].saves \cup saves]
    BY DEF Takes, Processed
  <2>2. k \in Checks
    <3>1. check[p] \in Checks /\ saves \subseteq 0..MaxVersion
      BY DEF Processed
    <3>2. /\ check[p].flying \ {latest} \in SUBSET Versions
          /\ check[p].saves \cup saves \in SUBSET (0..MaxVersion)
      BY <3>1 DEF Checks
    <3> DEFINE fs == check[p].flying \ {latest}
               ss == check[p].saves \cup saves
    <3> HIDE DEF fs, ss
    <3>3. k = [check[p] EXCEPT !.offer = offer, !.flying = fs, !.saves = ss]
      BY <2>1 DEF fs, ss
    <3>4. k = [armed |-> check[p].armed, offer |-> offer, flying |-> fs, saves |-> ss]
      BY <3>1, <3>3 DEF Checks
    <3> QED BY <3>1, <3>2, <3>4 DEF Checks, fs, ss
  <2>3. k.offer = offer /\ k.armed = check[p].armed /\ k.saves = check[p].saves \cup saves
    BY <2>1 DEF Processed, Checks
  <2> HIDE DEF k
  <2> QED BY <1>1, <2>2, <2>3 DEF Processed, Sound
<1>3. procs' = [procs EXCEPT ![p] = procs[p]]
  BY <1>1 DEF Processed
<1>4. procs[p].stage = "up" => Listening \subseteq {p}
  BY DEF Processed, Listening
<1> HIDE DEF k
<1> QED BY <1>1, <1>2, <1>3, <1>4, OneChanges

LEMMA DaemonKeeps ==
    ASSUME ProcessInv, NEW p \in Pids, DaemonStep(p)
    PROVE  ProcessInv'
<1>0. Processed /\ CacheInv /\ HoldsIts
  BY DEF ProcessInv
<1>1. UNCHANGED <<release, app, shell, keep>> /\ (UNCHANGED starts \/ \E v \in Versions : OthersStart(p, v))
  BY DEF DaemonStep, Listen, Exits, Crash, OthersStop, CheckNow, OthersStart,
         CheckAnswered, CheckFails, CacheWrites, Takes
<1> DEFINE Kept ==
      /\ Processed' /\ CacheInv' /\ starts' \in 0..MaxStarts
      /\ procs'[p].by \in {procs[p].by, "none", "others"} /\ \A q \in Pids \ {p} : procs'[q] = procs[q]
<1>2. Kept
  <2>1. CASE Exits(p) \/ Crash(p)
    BY <1>0, <2>1, Ending DEF Exits, Crash, CacheInv, ProcessInv
  <2>2. CASE OthersStop(p)
    BY <1>0, <2>2, Stopping DEF OthersStop, CacheInv, ProcessInv
  <2>3. ASSUME NEW v \in Versions, OthersStart(p, v) PROVE Kept
    <3>1. Spawn(p, v, "others") /\ UNCHANGED cache /\ starts \in 0..MaxStarts
      BY <2>3 DEF OthersStart, ProcessInv
    <3> QED BY <1>0, <3>1, Spawning DEF CacheInv
  <2>4. CASE Listen(p)
    <3>1. CASE Listening = {}
      <4> DEFINE r == [procs[p] EXCEPT !.stage = "up"]
      <4>1. r.stage = "up" /\ r.by = procs[p].by /\ Sound(r, check[p])
        BY <1>0, <2>4 DEF Listen, Processed, Sound, Processes, Checks, Gone
      <4>2. procs' = [procs EXCEPT ![p] = r] /\ check' = [check EXCEPT ![p] = check[p]]
        BY <1>0, <2>4, <3>1 DEF Listen, Processed
      <4> HIDE DEF r
      <4>3. Processed'
        BY <1>0, <3>1, <4>1, <4>2, OneChanges
      <4> QED BY <1>0, <2>4, <4>1, <4>2, <4>3 DEF Listen, CacheInv, ProcessInv, Processed
    <3>2. CASE Listening # {}
      BY <1>0, <2>4, <3>2, Ending DEF Listen, CacheInv, ProcessInv
    <3> QED BY <3>1, <3>2
  <2>6. CASE CheckNow(p)
    <3> DEFINE k == [check[p] EXCEPT !.flying = @ \cup {release}]
    <3>1. /\ procs[p].stage # "none" /\ check' = [check EXCEPT ![p] = k]
          /\ UNCHANGED <<procs, cache, starts>>
      BY <1>0, <2>6 DEF CheckNow, Processed, Sound
    <3>2. Sound(procs[p], k)
      BY <1>0, <3>1 DEF Processed, Sound, Checks, ProcessInv
    <3>3. procs' = [procs EXCEPT ![p] = procs[p]]
      BY <1>0, <3>1 DEF Processed
    <3>4. procs[p].stage = "up" => Listening \subseteq {p}
      BY <1>0 DEF Processed, Listening
    <3> HIDE DEF k
    <3>5. Processed'
      BY <1>0, <3>1, <3>2, <3>3, <3>4, OneChanges
    <3> QED BY <1>0, <3>1, <3>5 DEF CacheInv, ProcessInv
  <2>7. ASSUME NEW v \in Versions, CheckAnswered(p, v) \/ CheckFails(p, v) PROVE Kept
    <3>1. procs[p].v \in 0..MaxVersion /\ check[p].offer \in 0..MaxVersion
          /\ (check[p].offer # 0 => check[p].offer > procs[p].v)
      BY <1>0 DEF Processed, Sound, Processes, Checks
    <3>2. Offer(v, procs[p].v) \in 0..MaxVersion /\ (Offer(v, procs[p].v) # 0 => Offer(v, procs[p].v) > procs[p].v)
      BY <3>1, ProcessAssumption DEF Offer, Versions
    <3>3. PICK o \in 0..MaxVersion :
            \E z \in SUBSET {o} : Takes(p, v, o, z) /\ (o # 0 => o > procs[p].v)
      BY <2>7, <3>1, <3>2 DEF CheckAnswered, CheckFails
    <3>4. Processed'
      BY <1>0, <3>3, Checking
    <3> QED BY <1>0, <3>3, <3>4 DEF Takes, CacheInv, ProcessInv
  <2>8. ASSUME NEW v \in 0..MaxVersion, CacheWrites(p, v) PROVE Kept
    <3>1. /\ v \in check[p].saves /\ UNCHANGED <<procs, starts>>
          /\ procs[p].stage # "none" /\ procs[p].v \in 0..MaxVersion /\ (v # 0 => v > procs[p].v)
      BY <1>0, <2>8 DEF CacheWrites, Processed, Sound, NoCheck, Processes
    <3>2. CacheInv'
      <4>1. cache' \in {cache, NoCache, [current |-> procs[p].v, offer |-> v]}
        BY <2>8 DEF CacheWrites
      <4> QED BY <1>0, <3>1, <4>1, ProcessAssumption DEF CacheInv, NoCache
    <3>3. CASE UNCHANGED check
      BY <1>0, <3>1, <3>2, <3>3 DEF Processed, Listening, ProcessInv
    <3>4. CASE check' = [check EXCEPT ![p].saves = @ \ {v}]
      <4> DEFINE k == [check[p] EXCEPT !.saves = check[p].saves \ {v}]
      <4>1. check' = [check EXCEPT ![p] = k] /\ procs' = [procs EXCEPT ![p] = procs[p]]
        BY <1>0, <3>1, <3>4 DEF Processed
      <4>2. Sound(procs[p], k)
        BY <1>0, <3>1 DEF Processed, Sound, Checks
      <4>3. procs[p].stage = "up" => Listening \subseteq {p}
        BY <1>0 DEF Processed, Listening
      <4> HIDE DEF k
      <4>4. Processed'
        BY <1>0, <4>1, <4>2, <4>3, OneChanges
      <4> QED BY <1>0, <3>1, <3>2, <4>4 DEF ProcessInv
    <3> QED BY <2>8, <3>3, <3>4 DEF CacheWrites
  <2> QED BY <2>1, <2>2, <2>3, <2>4, <2>6, <2>7, <2>8 DEF DaemonStep
<1>3. HoldsIts'
  BY <1>0, <1>1, <1>2, Untouched
<1> QED BY <1>1, <1>2, <1>3 DEF ProcessInv, ShellInv

-------------------------------------------------------------------------------
(***************************************************************************)
(* The shell's steps.                                                      *)
(***************************************************************************)
LEMMA WindowKeeps ==
    ASSUME ProcessInv,
           LaunchWithoutSidecar \/ ServiceReady \/ WaitTimesOut \/ SetKeepAlive \/ Publish \/ UpdateApp
    PROVE  ProcessInv'
<1>1. UNCHANGED <<procs, check, cache, starts>> /\ Processed' /\ CacheInv'
  BY DEF LaunchWithoutSidecar, ServiceReady, WaitTimesOut, SetKeepAlive, Publish, UpdateApp, ProcessInv,
         Processed, Listening, CacheInv
<1>2. release' \in Versions /\ app' \in 1..release' /\ (UNCHANGED keep \/ keep' = ~keep)
  BY ProcessAssumption DEF LaunchWithoutSidecar, ServiceReady, WaitTimesOut, SetKeepAlive, Publish,
     UpdateApp, ProcessInv, Versions
<1>3. app \in 1..MaxVersion
  BY ProcessAssumption DEF ProcessInv, Versions
<1>4. ShellInv' /\ HoldsIts'
  <2>1. CASE LaunchWithoutSidecar
    BY <1>1, <1>3, <2>1 DEF LaunchWithoutSidecar, ProcessInv, ShellInv, Shells, HoldsIts
  <2>2. CASE ServiceReady \/ WaitTimesOut
    BY <1>1, <2>2 DEF ServiceReady, WaitTimesOut, ProcessInv, ShellInv, Shells, HoldsIts
  <2>3. CASE SetKeepAlive \/ Publish \/ UpdateApp
    BY <1>1, <2>3 DEF SetKeepAlive, Publish, UpdateApp, ProcessInv, ShellInv, HoldsIts
  <2> QED BY <2>1, <2>2, <2>3
<1>5. keep' \in BOOLEAN
  BY <1>2, Zenon DEF ProcessInv
<1> QED BY <1>1, <1>2, <1>4, <1>5 DEF ProcessInv

LEMMA LaunchKeeps ==
    ASSUME ProcessInv, Launch
    PROVE  ProcessInv'
<1>0. /\ Processed /\ CacheInv /\ starts \in 0..MaxStarts /\ shell.window = "none"
      /\ \A p \in Pids : procs[p].by # "shell"
  BY DEF ProcessInv, Launch, HoldsIts
<1>1. app \in Versions /\ app \in 1..MaxVersion
  BY ProcessAssumption DEF ProcessInv, Versions
<1>2. CASE UNCHANGED <<procs, check, starts>>
  <2>1. Processed' /\ CacheInv' /\ HoldsIts'
    BY <1>0, <1>2 DEF Processed, Listening, CacheInv, Launch, HoldsIts
  <2>2. ShellInv'
    BY <1>1 DEF Launch, ShellInv, Shells, Listening
  <2> QED BY <1>0, <1>2, <2>1, <2>2 DEF ProcessInv, Launch
<1>3. ASSUME NEW p \in Pids, Spawn(p, app, "shell"), shell' = [window |-> "boot", v |-> app, holds |-> p]
      PROVE  ProcessInv'
  <2>1. /\ Processed' /\ starts' \in 0..MaxStarts /\ procs'[p].by = "shell"
        /\ \A q \in Pids \ {p} : procs'[q] = procs[q]
    BY <1>0, <1>1, <1>3, Spawning
  <2>2. HoldsIts'
    BY <1>0, <1>3, <2>1 DEF HoldsIts
  <2>3. ShellInv'
    BY <1>1, <1>3 DEF ShellInv, Shells
  <2>4. CacheInv' /\ UNCHANGED <<release, app, keep>>
    BY <1>0 DEF Launch, CacheInv
  <2> QED BY <2>1, <2>2, <2>3, <2>4 DEF ProcessInv
<1> QED BY <1>2, <1>3 DEF Launch

LEMMA QuitKeeps ==
    ASSUME ProcessInv, Quit
    PROVE  ProcessInv'
<1>0. Processed /\ CacheInv /\ HoldsIts /\ ShellInv
  BY DEF ProcessInv
<1>1. UNCHANGED <<cache, release, app, keep, starts>> /\ CacheInv'
  BY <1>0 DEF Quit, CacheInv
<1>2. CASE keep /\ shell.holds # None
  <2> DEFINE p == shell.holds
             r == [procs[p] EXCEPT !.by = IF Alive(p) THEN "kept" ELSE @]
  <2>1. p \in Pids /\ shell' = Closed /\ procs' = [procs EXCEPT ![p] = r] /\ UNCHANGED check
    BY <1>0, <1>2 DEF Quit, ShellInv, Shells
  <2>2. Sound(r, check[p]) /\ r.stage = procs[p].stage /\ r.by # "shell"
    <3>1. CASE Alive(p)
      <4>1. r = [procs[p] EXCEPT !.by = "kept"]
        BY <3>1
      <4> HIDE DEF r, p
      <4> QED BY <1>0, <2>1, <3>1, <4>1 DEF Processed, Sound, Processes, Checks, Alive
    <3>2. CASE ~Alive(p)
      <4>1. procs[p] = Gone /\ Sound(procs[p], check[p])
        BY <1>0, <2>1, <3>2 DEF Alive, Processed, Sound
      <4>2. r = procs[p]
        BY <3>2, <4>1 DEF Gone
      <4> HIDE DEF r, p
      <4> QED BY <4>1, <4>2 DEF Gone
    <3> QED BY <3>1, <3>2
  <2> HIDE DEF r, p
  <2>3. check' = [check EXCEPT ![p] = check[p]]
    BY <1>0, <2>1 DEF Processed
  <2>4. r.stage = "up" => Listening \subseteq {p}
    BY <1>0, <2>1, <2>2 DEF Processed, Listening
  <2>5. Processed'
    BY <1>0, <2>1, <2>2, <2>3, <2>4, OneChanges
  <2>6. HoldsIts'
    <3> SUFFICES ASSUME NEW q \in Pids PROVE procs'[q].by # "shell"
      BY DEF HoldsIts
    <3>1. procs'[q] = IF q = p THEN r ELSE procs[q]
      BY <1>0, <2>1 DEF Processed
    <3> QED BY <1>0, <2>2, <3>1 DEF HoldsIts, p
  <2>7. ShellInv'
    BY <2>1, ProcessAssumption DEF ShellInv, Shells, Closed
  <2> QED BY <1>1, <2>5, <2>6, <2>7 DEF ProcessInv
<1>3. CASE shell.holds = None
  <2>1. shell' = Closed /\ UNCHANGED <<procs, check>>
    BY <1>3 DEF Quit
  <2>2. Processed'
    BY <1>0, <2>1 DEF Processed, Listening
  <2>3. HoldsIts'
    BY <1>0, <1>3, <2>1, ProcessAssumption DEF HoldsIts
  <2>4. ShellInv'
    BY <2>1, ProcessAssumption DEF ShellInv, Shells, Closed
  <2> QED BY <1>1, <2>2, <2>3, <2>4 DEF ProcessInv
<1>4. CASE ~keep /\ shell.holds # None
  <2>1. shell.holds \in Pids /\ shell' = [shell EXCEPT !.window = "quitting"] /\ Sigterm(shell.holds)
    BY <1>0, <1>4 DEF Quit, ShellInv, Shells
  <2>2. /\ Processed' /\ procs'[shell.holds].by \in {procs[shell.holds].by, "none"}
        /\ \A q \in Pids \ {shell.holds} : procs'[q] = procs[q]
    BY <1>0, <2>1, Stopping
  <2>3. ShellInv' /\ shell'.window = "quitting" /\ shell'.holds = shell.holds
    BY <1>0, <1>4, <2>1 DEF ShellInv, Shells, Quit
  <2>4. HoldsIts'
    BY <1>0, <2>2, <2>3 DEF HoldsIts
  <2> QED BY <1>1, <2>2, <2>3, <2>4 DEF ProcessInv
<1> QED BY <1>2, <1>3, <1>4 DEF ProcessInv

LEMMA StopKeeps ==
    ASSUME ProcessInv, Stopped \/ Kill
    PROVE  ProcessInv'
<1>0. Processed /\ CacheInv /\ HoldsIts /\ ShellInv
  BY DEF ProcessInv
<1>1. /\ UNCHANGED <<cache, release, app, keep, starts>> /\ CacheInv' /\ shell' = Closed
      /\ shell.holds \in Pids
  BY <1>0 DEF Stopped, Kill, CacheInv, ShellInv, Shells
<1>2. Processed' /\ \A q \in Pids : procs'[q].by # "shell"
  <2>1. CASE Stopped
    BY <1>0, <2>1 DEF Stopped, Processed, Sound, Gone, Alive, Listening, HoldsIts
  <2>2. CASE Kill
    <3>1. /\ Processed' /\ procs'[shell.holds].by = "none"
          /\ \A q \in Pids \ {shell.holds} : procs'[q] = procs[q]
      BY <1>0, <1>1, <2>2, Ending DEF Kill
    <3> QED BY <1>0, <3>1 DEF HoldsIts
  <2> QED BY <2>1, <2>2
<1>3. ShellInv' /\ HoldsIts'
  BY <1>1, <1>2, ProcessAssumption DEF ShellInv, Shells, Closed, HoldsIts
<1> QED BY <1>1, <1>2, <1>3 DEF ProcessInv

-------------------------------------------------------------------------------
LEMMA StepKeeps == ProcessInv /\ [Next]_vars => ProcessInv'
<1> SUFFICES ASSUME ProcessInv, [Next]_vars PROVE ProcessInv'
  OBVIOUS
<1>1. CASE UNCHANGED vars
  BY <1>1 DEF vars, ProcessInv, Processed, Listening, CacheInv, HoldsIts, ShellInv
<1>2. CASE Next
  <2>1. CASE \E p \in Pids : DaemonStep(p)
    BY <2>1, DaemonKeeps
  <2>2. CASE Launch \/ Quit \/ Stopped \/ Kill
    BY <2>2, LaunchKeeps, QuitKeeps, StopKeeps
  <2>3. CASE LaunchWithoutSidecar \/ ServiceReady \/ WaitTimesOut \/ SetKeepAlive \/ Publish \/ UpdateApp
    BY <2>3, WindowKeeps
  <2> QED BY <1>2, <2>1, <2>2, <2>3 DEF Next, DaemonStep
<1> QED BY <1>1, <1>2

LEMMA Invariant == Spec => []ProcessInv
<1>1. Init => ProcessInv
  BY InitHolds
<1>2. ProcessInv /\ [Next]_vars => ProcessInv'
  BY StepKeeps
<1> QED BY <1>1, <1>2, PTL DEF Spec

\* The types, and that at most one daemon has the port.
THEOREM ProcessTypes == Spec => []TypeOK
BY Invariant, InvImplies, PTL

\* However launches, quits, crashes and others' daemons interleave, and
\* whatever stage a quit meets its daemon in, a daemon the shell started is
\* gone or was kept when the shell is gone (handle_app_exit, graceful_stop).
THEOREM ShellLeavesNothing == Spec => []NothingLeftBehind
BY Invariant, InvImplies, PTL

\* No order of answers, restarts and caches shared between versions offers an
\* update that is not newer than what runs (loadCache, checkNow).
THEOREM OffersAreNewer == Spec => []UpdateIsNewer
BY Invariant, InvImplies, PTL

=============================================================================
