---------------------------- MODULE JsonFileStore ----------------------------
(***************************************************************************)
(* state.json and its writer (core/persistence.js): saves are coalesced    *)
(* behind one timer, writes are serialized on a promise chain, and a write *)
(* goes to a temporary file that is renamed over the old one.  A file that  *)
(* was damaged is moved aside by the next load, which salvages a complete  *)
(* leading snapshot where there is one.                                    *)
(*                                                                         *)
(* The n-th call of save() hands over snapshot n; bytes[n] is what it      *)
(* serializes to.                                                          *)
(***************************************************************************)
EXTENDS Naturals, Sequences, FiniteSets, FiniteSetsExt

CONSTANTS
  Contents,     (* what a snapshot can serialize to                          *)
  Unwritten,    (* no bytes: nothing was written since start-up              *)
  MaxSaves,     (* bound: calls of save()                                    *)
  MaxCrashes    (* bound: crashes of the daemon                              *)

ASSUME StoreAssumption ==
  Unwritten \notin Contents /\ MaxSaves \in Nat /\ MaxCrashes \in Nat

VARIABLES
  bytes,        (* the snapshots handed over so far                          *)
  open,         (* saves sharing the next write's promise (_flushPromise)    *)
  timer,        (* whether _timer is set                                     *)
  chain,        (* _writeChain: the batches of saves whose write is queued   *)
  stage,        (* how far the write at its head is                          *)
  lastBytes,    (* _lastSerialized                                           *)
  disk,         (* the bytes of state.json; if torn, of its leading snapshot *)
  damage,       (* what a power loss or a disk fault made of state.json      *)
  aside,        (* what the quarantined files hold                           *)
  boot,         (* how far load() is                                         *)
  doctor,       (* whether comote doctor has found the file damaged          *)
  loaded,       (* what load() returned, Unwritten for the empty state       *)
  current,      (* history: newest snapshot written or acknowledged as such  *)
  modeFailed,   (* history: a chmod failed after its rename                  *)
  resolved,     (* saves whose promise was resolved                          *)
  flush,        (* flush() under way: the batches it still awaits, and the   *)
                (* number of saves made before it was called                 *)
  crashes

file == <<damage, aside, boot, loaded, doctor>>
vars == <<bytes, open, timer, chain, stage, lastBytes, disk, current, modeFailed,
          resolved, flush, crashes, file>>

NoFlush == [on |-> FALSE, ahead |-> 0, saves |-> 0]

Init ==
  /\ bytes = <<>> /\ open = {} /\ timer = FALSE /\ chain = <<>> /\ stage = "idle"
  /\ lastBytes = Unwritten /\ disk = Unwritten /\ current = 0 /\ modeFailed = FALSE
  /\ resolved = {} /\ flush = NoFlush /\ crashes = 0
  /\ damage = "none" /\ aside = {} /\ boot = "reading" /\ loaded = Unwritten
  /\ doctor = FALSE

---------------------------------------------------------------------------
Writer == <<bytes, open, timer, chain, stage, lastBytes, current, modeFailed, resolved,
            flush, crashes>>

(* recoverJsonPrefix(): only a complete snapshot with something behind it   *)
(* can be salvaged.                                                         *)
Recovered == IF damage = "lost" THEN Unwritten ELSE disk

(* load() reads the file: nothing is there, it parses, or it is damaged.    *)
Load ==
  /\ boot = "reading"
  /\ boot' = IF damage = "none" THEN "up" ELSE "quarantine"
  /\ loaded' = Recovered
  /\ UNCHANGED <<Writer, disk, damage, aside, doctor>>

(* Whatever the file is by now gets another name; _quarantine() only logs   *)
(* that its rename failed.                                                  *)
MovedAside ==
  \/ /\ disk # Unwritten
     /\ aside' = aside \cup {disk}
     /\ disk' = Unwritten /\ damage' = "none"
  \/ UNCHANGED <<disk, damage, aside>>

Quarantine ==
  /\ boot = "quarantine"
  /\ boot' = "up"
  /\ MovedAside
  /\ UNCHANGED <<Writer, loaded, doctor>>

(* comote doctor loads the file too, in a process of its own: it drops what *)
(* it salvages, and by the time it renames, the file may be a new one.      *)
DoctorReads ==
  /\ damage # "none" /\ ~doctor
  /\ doctor' = TRUE
  /\ UNCHANGED <<Writer, disk, damage, aside, boot, loaded>>

DoctorQuarantines ==
  /\ doctor
  /\ doctor' = FALSE
  /\ MovedAside
  /\ UNCHANGED <<Writer, boot, loaded>>

(* Power loss or a disk fault, noticed by the next load.                    *)
Damage ==
  /\ boot = "reading" /\ disk # Unwritten /\ damage = "none"
  /\ damage' \in {"torn", "lost"}
  /\ UNCHANGED <<Writer, disk, aside, boot, loaded, doctor>>

---------------------------------------------------------------------------
(* Slip: the timer is left alone while a write is queued.                   *)
MutSaveWhenIdleOnly(b) ==
  /\ boot = "up" /\ Len(bytes) < MaxSaves
  /\ bytes' = Append(bytes, b)
  /\ open' = open \cup {Len(bytes) + 1}
  /\ timer' = (timer \/ chain = <<>>)
  /\ UNCHANGED <<chain, stage, lastBytes, disk, current, modeFailed, resolved, flush, crashes, file>>

(* save(): the newest snapshot replaces the one waiting, and the caller     *)
(* shares the promise of whatever write carries it.                         *)
Save(b) ==
  /\ boot = "up" /\ Len(bytes) < MaxSaves
  /\ bytes' = Append(bytes, b)
  /\ open' = open \cup {Len(bytes) + 1}
  /\ timer' = TRUE
  /\ UNCHANGED <<chain, stage, lastBytes, disk, current, modeFailed, resolved, flush, crashes, file>>

(* _drain(): detach the coalesced saves and queue their write.              *)
Drained == IF open = {} THEN chain ELSE Append(chain, open)

TimerFires ==
  /\ timer
  /\ timer' = FALSE
  /\ chain' = Drained
  /\ open' = {}
  /\ UNCHANGED <<bytes, stage, lastBytes, disk, current, modeFailed, resolved, flush, crashes, file>>

(* Slip: flush() only waits.                                                *)
MutFlushWaitsOnly ==
  /\ boot = "up" /\ ~flush.on
  /\ flush' = [on |-> TRUE, ahead |-> Len(chain), saves |-> Len(bytes)]
  /\ UNCHANGED <<bytes, open, timer, chain, stage, lastBytes, disk, current, modeFailed,
                 resolved, crashes, file>>

(* flush(): drain at once if the timer is set, and await what is queued.    *)
Flush ==
  /\ boot = "up" /\ ~flush.on
  /\ chain' = IF timer THEN Drained ELSE chain
  /\ open' = IF timer THEN {} ELSE open
  /\ timer' = FALSE
  /\ flush' = [on |-> TRUE, ahead |-> Len(chain'), saves |-> Len(bytes)]
  /\ UNCHANGED <<bytes, stage, lastBytes, disk, current, modeFailed, resolved, crashes, file>>

FlushReturns ==
  /\ flush.on /\ flush.ahead = 0
  /\ flush' = NoFlush
  /\ UNCHANGED <<bytes, open, timer, chain, stage, lastBytes, disk, current, modeFailed,
                 resolved, crashes, file>>

---------------------------------------------------------------------------
Snapshot == Max(Head(chain))

(* The head of the chain is done with: its promise settles and the chain,   *)
(* never rejected, goes on with the next write.                             *)
Settled ==
  /\ chain' = Tail(chain)
  /\ stage' = "idle"
  /\ flush' = [flush EXCEPT !.ahead = IF @ > 0 THEN @ - 1 ELSE 0]

Resolves ==
  /\ Settled
  /\ resolved' = resolved \cup Head(chain)
  /\ current' = Snapshot

(* Slip: the bytes are remembered before they are written.                  *)
MutBeginRemembers ==
  /\ chain # <<>> /\ stage = "idle"
  /\ lastBytes' = bytes[Snapshot]
  /\ IF bytes[Snapshot] = lastBytes
     THEN Resolves
     ELSE stage' = "writing" /\ UNCHANGED <<chain, flush, resolved, current>>
  /\ UNCHANGED <<bytes, open, timer, disk, modeFailed, crashes, file>>

(* _write(): the same bytes as the last write need no writing.              *)
BeginWrite ==
  /\ chain # <<>> /\ stage = "idle"
  /\ IF bytes[Snapshot] = lastBytes
     THEN Resolves
     ELSE stage' = "writing" /\ UNCHANGED <<chain, flush, resolved, current>>
  /\ UNCHANGED <<bytes, open, timer, lastBytes, disk, modeFailed, crashes, file>>

(* The temporary file is complete and takes the place of the old one.       *)
Rename ==
  /\ stage = "writing"
  /\ disk' = bytes[Snapshot]
  /\ current' = Snapshot
  /\ stage' = "renamed" /\ damage' = "none"
  /\ UNCHANGED <<bytes, open, timer, chain, lastBytes, modeFailed, resolved, flush, crashes,
                 aside, boot, loaded, doctor>>

Chmod ==
  /\ stage = "renamed"
  /\ lastBytes' = bytes[Snapshot]
  /\ Resolves
  /\ UNCHANGED <<bytes, open, timer, disk, modeFailed, crashes, file>>

(* Slip: a rejected write leaves the chain rejected.                        *)
MutFailureStopsChain ==
  /\ stage = "writing"
  /\ stage' = "stopped"
  /\ UNCHANGED <<bytes, open, timer, chain, lastBytes, disk, current, modeFailed, resolved,
                 flush, crashes, file>>

(* mkdir, writeFile or rename fails: the old file stays, the save rejects.  *)
WriteFails ==
  /\ stage = "writing"
  /\ Settled
  /\ UNCHANGED <<bytes, open, timer, lastBytes, disk, current, modeFailed, resolved, crashes, file>>

(* chmod fails: the save rejects although the file was replaced.            *)
ChmodFails ==
  /\ stage = "renamed"
  /\ Settled
  /\ modeFailed' = TRUE
  /\ UNCHANGED <<bytes, open, timer, lastBytes, disk, current, resolved, crashes, file>>

(* The daemon dies, at any point of a write, and starts again.              *)
Crash ==
  /\ crashes < MaxCrashes
  /\ crashes' = crashes + 1
  /\ open' = {} /\ timer' = FALSE /\ chain' = <<>> /\ stage' = "idle"
  /\ lastBytes' = Unwritten /\ flush' = NoFlush
  /\ boot' = "reading" /\ loaded' = Unwritten
  /\ UNCHANGED <<bytes, disk, damage, aside, doctor, current, modeFailed, resolved>>

---------------------------------------------------------------------------
WriteStep == BeginWrite \/ Rename \/ Chmod \/ WriteFails \/ ChmodFails

Next ==
  \/ \E b \in Contents : Save(b)
  \/ TimerFires \/ Flush \/ FlushReturns
  \/ WriteStep \/ Crash
  \/ Load \/ Quarantine \/ DoctorReads \/ DoctorQuarantines \/ Damage

Spec == Init /\ [][Next]_vars

(* Timers fire and file operations end, well or badly.                      *)
FairSpec == Spec /\ WF_vars(TimerFires) /\ WF_vars(WriteStep)

---------------------------------------------------------------------------
Saves   == 1 .. MaxSaves
Queued  == UNION {chain[i] : i \in DOMAIN chain}
Waiting == open \cup Queued

(* Every variable has its type; a timer is set exactly when saves wait for  *)
(* it, and a write is under way only on a queued batch.                     *)
TypeOK ==
  /\ bytes \in Seq(Contents) /\ Len(bytes) <= MaxSaves
  /\ open \subseteq DOMAIN bytes
  /\ timer = (open # {})
  /\ chain \in Seq(SUBSET Saves)
  /\ \A i \in DOMAIN chain : chain[i] # {} /\ chain[i] \subseteq DOMAIN bytes
  /\ stage \in {"idle", "writing", "renamed"}
  /\ stage # "idle" => chain # <<>>
  /\ {lastBytes, disk} \subseteq Contents \cup {Unwritten}
  /\ current \in 0 .. Len(bytes)
  /\ modeFailed \in BOOLEAN
  /\ resolved \subseteq DOMAIN bytes
  /\ flush \in [on : BOOLEAN, ahead : 0 .. Len(chain), saves : 0 .. Len(bytes)]
  /\ crashes \in 0 .. MaxCrashes
  /\ damage \in {"none", "torn", "lost"} /\ aside \subseteq Contents
  /\ boot \in {"reading", "quarantine", "up"} /\ loaded \in Contents \cup {Unwritten}
  /\ doctor \in BOOLEAN
  /\ damage # "none" => disk # Unwritten

Latest == IF current = 0 THEN Unwritten ELSE bytes[current]
Unused == lastBytes = Unwritten /\ stage # "renamed"

(* A save that was acknowledged is on disk, itself or a newer one, whatever *)
(* failed or crashed before and after and however saves were coalesced or   *)
(* skipped as equal: unless a chmod failed, the file, or the quarantined    *)
(* copy of it once it was damaged, holds the bytes of the newest snapshot   *)
(* acknowledged or renamed into place.  And a daemon that has not written   *)
(* yet has started from that snapshot, unless it was lost or is in          *)
(* quarantine ("must not brick startup", persistence.js:95).                *)
AcknowledgedIsOnDisk ==
  /\ \A n \in resolved : n <= current
  /\ ~modeFailed => Latest \in {disk} \cup aside
  /\ ~modeFailed /\ boot = "up" /\ Unused => loaded = Latest \/ Latest \in aside \/ damage = "lost"

(* What flush() promises a shutdown: when it returns, no save made before   *)
(* it was called is still waiting ("the trailing throttled write is never   *)
(* lost", persistence.js:156).                                              *)
FlushSettlesAll ==
  flush.on /\ flush.ahead = 0 => \A n \in Waiting : n > flush.saves

(* A failed write never stalls later saves (persistence.js:183): every save *)
(* is settled.                                                              *)
EverySaveSettles == \A n \in Saves : (n \in Waiting) ~> (n \notin Waiting)
=============================================================================
