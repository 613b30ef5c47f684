------------------------ MODULE JsonFileStore_proofs ------------------------
(***************************************************************************)
(* What holds of the store for any contents and any number of saves,       *)
(* failures, crashes and damaged files: its types, that an acknowledged    *)
(* save is on disk, and that flush() settles everything before it.         *)
(***************************************************************************)
EXTENDS JsonFileStore, TLAPS

(* Batches are queued in the order their saves came, each with a newest     *)
(* save, and all of them before the batch that is still open.               *)
Sorted ==
  /\ open # {} => Len(bytes) \in open
  /\ \A i \in DOMAIN chain : \E m \in chain[i] : \A n \in chain[i] : n <= m
  /\ \A i, j \in DOMAIN chain : i < j => \A n \in chain[i], m \in chain[j] : n < m
  /\ \A i \in DOMAIN chain : \A n \in chain[i], m \in open : n < m

(* What waits is newer than what is on disk, but for the batch whose file   *)
(* was just renamed.                                                        *)
Ahead ==
  /\ \A m \in open : current < m
  /\ \A i \in DOMAIN chain : i # 1 \/ stage # "renamed" => \A n \in chain[i] : current < n
  /\ stage = "renamed" => current = Snapshot

(* The bytes remembered are those of the newest snapshot.                   *)
Remembered ==
  ~modeFailed /\ stage # "renamed" /\ lastBytes # Unwritten => current # 0 /\ lastBytes = bytes[current]

(* A load, finished or about to quarantine, returned the newest snapshot.   *)
LoadedLatest ==
  ~modeFailed /\ boot # "reading" /\ Unused =>
    loaded = Latest \/ Latest \in aside \/ damage = "lost"

OnDisk ==
  /\ \A n \in resolved : n <= current
  /\ ~modeFailed => Latest \in {disk} \cup aside

(* What flush() found waiting is among the batches it awaits.               *)
Awaited ==
  flush.on => \A n \in Waiting : n <= flush.saves => \E i \in 1 .. flush.ahead : n \in chain[i]

StoreInv == TypeOK /\ Sorted /\ Ahead /\ Remembered /\ LoadedLatest /\ OnDisk /\ Awaited

---------------------------------------------------------------------------
(* The newest save of a batch that has one is its Max.                      *)
LEMMA SnapshotIsNewest ==
  ASSUME TypeOK, Sorted, chain # <<>>
  PROVE  Snapshot \in Head(chain) /\ Snapshot \in DOMAIN bytes /\ \A n \in Head(chain) : n <= Snapshot
<1>1. 1 \in DOMAIN chain /\ Head(chain) = chain[1]
  BY DEF TypeOK
<1>2. PICK m \in chain[1] : \A n \in chain[1] : n <= m
  BY <1>1 DEF Sorted
<1>3. \A n \in chain[1] : n \in Nat
  BY <1>1 DEF TypeOK
<1>4. \E x \in Head(chain) : \A y \in Head(chain) : x >= y
  BY <1>1, <1>2, <1>3
<1>5. Snapshot \in Head(chain) /\ \A y \in Head(chain) : Snapshot >= y
  BY <1>4 DEF Snapshot, Max
<1> QED BY <1>1, <1>3, <1>5 DEF TypeOK

(* The store starts well.                                                   *)
LEMMA StoreInit == Init => StoreInv
<1> SUFFICES ASSUME Init PROVE StoreInv
  OBVIOUS
<1>1. TypeOK
  <2>1. bytes = <<>> /\ Len(bytes) = 0 /\ chain = <<>> /\ Len(chain) = 0 /\ DOMAIN chain = {}
    BY DEF Init
  <2>2. bytes \in Seq(Contents) /\ chain \in Seq(SUBSET Saves)
    BY <2>1
  <2>3. flush \in [on : BOOLEAN, ahead : 0 .. Len(chain), saves : 0 .. Len(bytes)]
    BY <2>1 DEF Init, NoFlush
  <2>4. MaxSaves \in Nat /\ MaxCrashes \in Nat
    BY StoreAssumption
  <2>5. timer = (open # {})
    BY DEF Init
  <2>6. /\ stage \in {"idle", "writing", "renamed"} /\ stage = "idle"
        /\ {lastBytes, disk} \subseteq Contents \cup {Unwritten} /\ current = 0
        /\ open \subseteq DOMAIN bytes /\ resolved \subseteq DOMAIN bytes
        /\ modeFailed \in BOOLEAN /\ doctor \in BOOLEAN /\ crashes = 0
    BY DEF Init
  <2>7. /\ damage \in {"none", "torn", "lost"} /\ aside \subseteq Contents /\ damage = "none"
        /\ boot \in {"reading", "quarantine", "up"} /\ loaded \in Contents \cup {Unwritten}
    BY DEF Init
  <2> QED BY <2>1, <2>2, <2>3, <2>4, <2>5, <2>6, <2>7 DEF TypeOK
<1>2. Sorted /\ Ahead /\ Remembered /\ LoadedLatest /\ OnDisk /\ Awaited
  BY DEF Init, Sorted, Ahead, Remembered, LoadedLatest, OnDisk, Awaited, Latest, Unused, NoFlush
<1> QED BY <1>1, <1>2 DEF StoreInv

(* A step that leaves the queue of writes alone keeps what is said of it.   *)
LEMMA QueueUntouched ==
  ASSUME StoreInv, UNCHANGED Writer
  PROVE  Sorted' /\ Ahead' /\ Remembered' /\ Awaited' /\ (Latest' = Latest) /\ (Unused' = Unused)
<1>1. Snapshot' = Snapshot /\ Latest' = Latest /\ Unused' = Unused /\ Waiting' = Waiting
  BY DEF Writer, Snapshot, Latest, Unused, Waiting, Queued
<1> QED BY <1>1 DEF StoreInv, Writer, Sorted, Ahead, Remembered, Awaited

(* Moving the file aside keeps the newest snapshot on disk.                 *)
LEMMA MovingKeeps ==
  ASSUME StoreInv, UNCHANGED Writer, MovedAside,
         loaded' = loaded, boot # "reading" \/ boot' = boot
  PROVE  OnDisk' /\ LoadedLatest'
<1>1. Latest' = Latest /\ Unused' = Unused
  BY QueueUntouched
<1>2. UNCHANGED <<modeFailed, resolved, current>>
  BY DEF Writer
<1> QED BY <1>1, <1>2 DEF StoreInv, MovedAside, OnDisk, LoadedLatest

(* Loading and quarantining keep the invariant.                             *)
LEMMA FileStep ==
  ASSUME StoreInv,
         Load \/ Quarantine \/ DoctorReads \/ DoctorQuarantines \/ Damage
  PROVE  StoreInv'
<1>1. UNCHANGED Writer
  BY DEF Load, Quarantine, DoctorReads, DoctorQuarantines, Damage
<1>2. TypeOK'
  <2>1. UNCHANGED <<bytes, open, timer, chain, stage, lastBytes, current, modeFailed, resolved, flush, crashes>>
    BY <1>1 DEF Writer
  <2>2. TypeOK
    BY DEF StoreInv
  <2>3. CASE Load
    BY <2>1, <2>2, <2>3 DEF Load, TypeOK, Recovered
  <2>4. CASE Quarantine
    BY <2>1, <2>2, <2>4 DEF Quarantine, MovedAside, TypeOK
  <2>5. CASE DoctorReads
    BY <2>1, <2>2, <2>5 DEF DoctorReads, TypeOK
  <2>6. CASE DoctorQuarantines
    BY <2>1, <2>2, <2>6 DEF DoctorQuarantines, MovedAside, TypeOK
  <2>7. CASE Damage
    BY <2>1, <2>2, <2>7 DEF Damage, TypeOK
  <2> QED BY <2>3, <2>4, <2>5, <2>6, <2>7
<1>3. Latest' = Latest /\ Unused' = Unused /\ Sorted' /\ Ahead' /\ Remembered' /\ Awaited'
  BY <1>1, QueueUntouched
<1>4. UNCHANGED <<modeFailed, resolved, current>>
  BY <1>1 DEF Writer
<1>5. OnDisk' /\ LoadedLatest'
  <2>1. CASE Load
    BY <1>3, <1>4, <2>1 DEF Load, Recovered, StoreInv, OnDisk, LoadedLatest, TypeOK
  <2>2. CASE Quarantine
    BY <1>1, <2>2, MovingKeeps DEF Quarantine
  <2>3. CASE DoctorReads
    BY <1>3, <1>4, <2>3 DEF DoctorReads, StoreInv, OnDisk, LoadedLatest
  <2>4. CASE DoctorQuarantines
    BY <1>1, <2>4, MovingKeeps DEF DoctorQuarantines
  <2>5. CASE Damage
    BY <1>3, <1>4, <2>5 DEF Damage, StoreInv, OnDisk, LoadedLatest
  <2> QED BY <2>1, <2>2, <2>3, <2>4, <2>5
<1> QED BY <1>2, <1>3, <1>5 DEF StoreInv

---------------------------------------------------------------------------
(* save(): a newer snapshot joins the open batch.                           *)
LEMMA SaveStep ==
  ASSUME StoreInv, NEW b \in Contents, Save(b)
  PROVE  StoreInv'
<1> DEFINE N == Len(bytes)
<1>1. /\ bytes' = Append(bytes, b) /\ open' = open \cup {N + 1} /\ timer' = TRUE /\ N < MaxSaves
      /\ UNCHANGED <<chain, stage, lastBytes, disk, current, modeFailed, resolved, flush, crashes>>
      /\ UNCHANGED <<damage, aside, boot, doctor, loaded>>
  BY DEF Save, file
<1>2. TypeOK /\ bytes \in Seq(Contents) /\ N \in Nat /\ MaxSaves \in Nat
  BY StoreAssumption DEF StoreInv, TypeOK
<1>3. /\ bytes' \in Seq(Contents) /\ Len(bytes') = N + 1 /\ DOMAIN bytes' = 1 .. N + 1
      /\ DOMAIN bytes = 1 .. N /\ \A n \in 1 .. N : bytes'[n] = bytes[n]
  BY <1>1, <1>2
<1>4. current \in 0 .. N /\ Latest' = Latest /\ Unused' = Unused /\ Snapshot' = Snapshot
  BY <1>1, <1>2, <1>3 DEF TypeOK, Latest, Unused, Snapshot
<1>5. TypeOK'
  <2>1. flush' \in [on : BOOLEAN, ahead : 0 .. Len(chain'), saves : 0 .. Len(bytes')]
    <3>1. flush \in [on : BOOLEAN, ahead : 0 .. Len(chain), saves : 0 .. N]
      BY <1>2 DEF TypeOK
    <3>2. 0 .. N \subseteq 0 .. N + 1
      BY <1>2
    <3> QED BY <1>1, <1>3, <3>1, <3>2
  <2>2. open' \subseteq DOMAIN bytes'
    BY <1>1, <1>2, <1>3 DEF TypeOK
  <2>4. open' # {}
    BY <1>1
  <2>5. timer' = (open' # {})
    BY <1>1, <2>4
  <2>3. /\ \A i \in DOMAIN chain' : chain'[i] # {} /\ chain'[i] \subseteq DOMAIN bytes'
        /\ resolved' \subseteq DOMAIN bytes' /\ current' \in 0 .. Len(bytes')
    BY <1>1, <1>2, <1>3 DEF TypeOK
  <2> QED BY <1>1, <1>2, <1>3, <2>1, <2>2, <2>3, <2>5 DEF TypeOK
<1>6. Sorted' /\ Ahead'
  BY <1>1, <1>2, <1>3, <1>4 DEF StoreInv, TypeOK, Sorted, Ahead
<1>7. Remembered' /\ LoadedLatest' /\ OnDisk'
  BY <1>1, <1>2, <1>3, <1>4 DEF StoreInv, Remembered, LoadedLatest, OnDisk
<1>8. Awaited'
  <2>1. Waiting' = Waiting \cup {N + 1}
    BY <1>1 DEF Waiting, Queued
  <2>2. flush.saves \in 0 .. N
    BY <1>2 DEF TypeOK
  <2> QED BY <1>1, <1>2, <2>1, <2>2 DEF StoreInv, Awaited
<1> QED BY <1>5, <1>6, <1>7, <1>8 DEF StoreInv

(* _drain(): the open batch becomes the last one queued.                    *)
LEMMA DrainingKeeps ==
  ASSUME StoreInv, chain' = Drained, open' = {}, UNCHANGED <<bytes, stage, current>>
  PROVE  /\ chain' \in Seq(SUBSET Saves) /\ Len(chain) <= Len(chain')
         /\ \A i \in DOMAIN chain' : chain'[i] # {} /\ chain'[i] \subseteq DOMAIN bytes
         /\ \A i \in 1 .. Len(chain) : chain'[i] = chain[i]
         /\ chain # <<>> => chain' # <<>>
         /\ Waiting' = Waiting /\ Sorted' /\ Ahead'
<1>1. /\ TypeOK /\ chain \in Seq(SUBSET Saves) /\ Len(chain) \in Nat /\ DOMAIN chain = 1 .. Len(chain)
      /\ DOMAIN bytes = 1 .. Len(bytes) /\ Len(bytes) \in Nat
      /\ Len(bytes) <= MaxSaves /\ MaxSaves \in Nat
  BY StoreAssumption DEF StoreInv, TypeOK
<1>2. Sorted /\ Ahead /\ Waiting = open \cup UNION {chain[i] : i \in DOMAIN chain}
  BY DEF StoreInv, Waiting, Queued
<1>3. CASE open = {}
  <2>1. chain' = chain
    BY <1>3 DEF Drained
  <2>2. Snapshot' = Snapshot /\ Waiting' = Waiting
    BY <1>3, <2>1 DEF Snapshot, Waiting, Queued
  <2> QED BY <1>1, <1>2, <1>3, <2>1, <2>2 DEF TypeOK, Sorted, Ahead
<1>4. CASE open # {}
  <2> DEFINE L == Len(chain)
  <2>0. open \in SUBSET Saves
    BY <1>1 DEF TypeOK, Saves
  <2>1. chain' = Append(chain, open) /\ open \in SUBSET Saves
    BY <1>4, <2>0 DEF Drained
  <2>2. /\ chain' \in Seq(SUBSET Saves) /\ Len(chain') = L + 1 /\ DOMAIN chain' = 1 .. L + 1
        /\ chain'[L + 1] = open /\ \A i \in 1 .. L : chain'[i] = chain[i]
    BY <1>1, <2>1
  <2>3. \A i \in DOMAIN chain' : (i \in DOMAIN chain /\ chain'[i] = chain[i]) \/ (i = L + 1 /\ chain'[i] = open)
    BY <1>1, <2>2
  <2>4. \A i \in DOMAIN chain' : chain'[i] # {} /\ chain'[i] \subseteq DOMAIN bytes
    BY <1>1, <1>4, <2>3 DEF TypeOK
  <2>5. Waiting' = Waiting
    BY <1>1, <1>2, <2>2, <2>3 DEF Waiting, Queued
  <2>6. Sorted'
    <3>1. \A n \in open : n \in 1 .. Len(bytes)
      BY <1>1 DEF TypeOK
    <3>2. \A i \in DOMAIN chain' : \E m \in chain'[i] : \A n \in chain'[i] : n <= m
      BY <1>2, <1>4, <2>3, <3>1 DEF Sorted
    <3>3. \A i, j \in DOMAIN chain' : i < j => \A n \in chain'[i], m \in chain'[j] : n < m
      BY <1>1, <1>2, <2>2, <2>3 DEF Sorted
    <3> QED BY <3>2, <3>3 DEF Sorted
  <2>7. Ahead'
    <3>1. chain # <<>> => Snapshot' = Snapshot
      BY <1>1, <2>1, <2>2 DEF Snapshot
    <3>2. stage = "renamed" => chain # <<>>
      BY <1>1 DEF TypeOK
    <3>3. \A i \in DOMAIN chain' : i # 1 \/ stage' # "renamed" => \A n \in chain'[i] : current' < n
      BY <1>2, <2>3 DEF Ahead
    <3> QED BY <1>2, <3>1, <3>2, <3>3 DEF Ahead
  <2> QED BY <1>1, <2>2, <2>4, <2>5, <2>6, <2>7
<1> QED BY <1>3, <1>4

(* The head of the chain has settled: what is left is newer.                *)
LEMMA SettlingKeeps ==
  ASSUME StoreInv, chain # <<>>, Settled, UNCHANGED <<bytes, open>>
  PROVE  /\ chain' \in Seq(SUBSET Saves)
         /\ \A i \in DOMAIN chain' : chain'[i] # {} /\ chain'[i] \subseteq DOMAIN bytes
         /\ flush' \in [on : BOOLEAN, ahead : 0 .. Len(chain'), saves : 0 .. Len(bytes)]
         /\ \A i \in DOMAIN chain' : \A n \in chain'[i] : Snapshot < n
         /\ \A m \in open : Snapshot < m
         /\ Sorted' /\ Awaited'
<1> DEFINE L == Len(chain)
<1>1. /\ TypeOK /\ chain \in Seq(SUBSET Saves) /\ L \in Nat /\ L # 0 /\ DOMAIN chain = 1 .. L
      /\ Sorted /\ Ahead /\ Awaited
      /\ flush \in [on : BOOLEAN, ahead : 0 .. L, saves : 0 .. Len(bytes)]
  BY DEF StoreInv, TypeOK
<1>2. /\ chain' = Tail(chain)
      /\ flush' = [flush EXCEPT !.ahead = IF @ > 0 THEN @ - 1 ELSE 0]
  BY DEF Settled
<1>3. /\ chain' \in Seq(SUBSET Saves) /\ Len(chain') = L - 1 /\ DOMAIN chain' = 1 .. L - 1
      /\ \A i \in 1 .. L - 1 : i + 1 \in DOMAIN chain /\ 1 < i + 1 /\ chain'[i] = chain[i + 1]
      /\ \A i, j \in 1 .. L - 1 : i < j => i + 1 < j + 1
      /\ 1 \in DOMAIN chain
  BY <1>1, <1>2
<1>4. \A i \in DOMAIN chain' : chain'[i] # {} /\ chain'[i] \subseteq DOMAIN bytes
  BY <1>1, <1>3 DEF TypeOK
<1>5. /\ flush' \in [on : BOOLEAN, ahead : 0 .. Len(chain'), saves : 0 .. Len(bytes)]
      /\ flush'.on = flush.on /\ flush'.saves = flush.saves
      /\ flush'.ahead = IF flush.ahead > 0 THEN flush.ahead - 1 ELSE 0
  BY <1>1, <1>2, <1>3
<1>6. Snapshot \in chain[1] /\ Head(chain) = chain[1]
  BY <1>1, SnapshotIsNewest
<1>7. /\ \A i \in DOMAIN chain' : \A n \in chain'[i] : Snapshot < n
      /\ \A m \in open : Snapshot < m
  BY <1>1, <1>3, <1>6 DEF Sorted
<1>8. Sorted'
  BY <1>1, <1>3 DEF Sorted
<1>9. Awaited'
  <2>1. SUFFICES ASSUME flush'.on, NEW n \in Waiting', n <= flush'.saves
                 PROVE  \E i \in 1 .. flush'.ahead : n \in chain'[i]
    BY DEF Awaited
  <2>2. n \in open \/ \E j \in DOMAIN chain' : n \in chain'[j]
    BY DEF Waiting, Queued
  <2>3. n \in Waiting
    BY <1>1, <1>3, <2>2 DEF Waiting, Queued
  <2>4. PICK i \in 1 .. flush.ahead : n \in chain[i]
    BY <1>1, <1>5, <2>1, <2>3 DEF Awaited
  <2>5. n \notin chain[1]
    <3>1. ASSUME n \in chain[1] PROVE FALSE
      <4>1. n \in 1 .. Len(bytes) /\ Len(bytes) \in Nat
        BY <1>1, <3>1 DEF TypeOK
      <4>2. CASE n \in open
        BY <1>1, <3>1, <4>1, <4>2 DEF Sorted
      <4>3. CASE \E j \in DOMAIN chain' : n \in chain'[j]
        <5>1. PICK j \in DOMAIN chain' : n \in chain'[j]
          BY <4>3
        <5>2. j + 1 \in DOMAIN chain /\ 1 \in DOMAIN chain /\ 1 < j + 1 /\ n \in chain[j + 1]
          BY <1>3, <5>1
        <5>3. n < n
          BY <1>1, <3>1, <5>2 DEF Sorted
        <5> QED BY <4>1, <5>3
      <4> QED BY <2>2, <4>2, <4>3
    <3> QED BY <3>1
  <2>6. flush.ahead \in 0 .. L
    BY <1>1
  <2>7. i # 1 /\ i - 1 \in 1 .. flush'.ahead /\ i - 1 \in 1 .. L - 1
    BY <1>1, <1>5, <2>4, <2>5, <2>6
  <2> QED BY <1>3, <2>4, <2>7
<1> QED BY <1>3, <1>4, <1>5, <1>7, <1>8, <1>9

---------------------------------------------------------------------------
(* The timer and flush() queue the open batch.                              *)
LEMMA DrainStep ==
  ASSUME StoreInv, TimerFires \/ Flush
  PROVE  StoreInv'
<1>1. /\ TypeOK /\ Len(chain) \in Nat /\ chain \in Seq(SUBSET Saves)
      /\ UNCHANGED <<bytes, stage, lastBytes, disk, current, modeFailed, resolved, crashes>>
      /\ UNCHANGED <<damage, aside, boot, doctor, loaded>> /\ timer' = FALSE
  BY DEF TimerFires, Flush, file, StoreInv, TypeOK
<1>2. chain' = Drained /\ open' = {}
  <2>1. CASE TimerFires
    BY <2>1 DEF TimerFires
  <2>2. CASE Flush /\ timer
    BY <2>2 DEF Flush
  <2>3. CASE Flush /\ ~timer
    <3>1. open = {}
      BY <1>1, <2>3 DEF TypeOK
    <3>2. chain' = chain /\ open' = open
      BY <2>3 DEF Flush
    <3> QED BY <3>1, <3>2 DEF Drained
  <2> QED BY <2>1, <2>2, <2>3
<1>3. /\ chain' \in Seq(SUBSET Saves) /\ Len(chain) <= Len(chain') /\ Len(chain') \in Nat
      /\ DOMAIN chain' = 1 .. Len(chain')
      /\ \A i \in DOMAIN chain' : chain'[i] # {} /\ chain'[i] \subseteq DOMAIN bytes
      /\ \A i \in 1 .. Len(chain) : chain'[i] = chain[i]
      /\ chain # <<>> => chain' # <<>>
      /\ Waiting' = Waiting /\ Sorted' /\ Ahead'
  BY <1>1, <1>2, DrainingKeeps
<1>4. /\ flush' \in [on : BOOLEAN, ahead : 0 .. Len(chain'), saves : 0 .. Len(bytes)]
      /\ Awaited'
  <2>1. CASE TimerFires
    <3>1. flush' = flush /\ flush \in [on : BOOLEAN, ahead : 0 .. Len(chain), saves : 0 .. Len(bytes)]
      BY <1>1, <2>1 DEF TimerFires, TypeOK
    <3>2. 0 .. Len(chain) \subseteq 0 .. Len(chain')
      BY <1>1, <1>3
    <3>3. flush' \in [on : BOOLEAN, ahead : 0 .. Len(chain'), saves : 0 .. Len(bytes)]
      BY <3>1, <3>2
    <3>4. flush.ahead \in 0 .. Len(chain)
      BY <3>1
    <3>5. \A i \in 1 .. flush.ahead : chain'[i] = chain[i]
      BY <1>1, <1>3, <3>4
    <3>6. Awaited'
      BY <1>3, <3>1, <3>5 DEF StoreInv, Awaited
    <3> QED BY <3>3, <3>6
  <2>2. CASE Flush
    <3>1. flush' = [on |-> TRUE, ahead |-> Len(chain'), saves |-> Len(bytes)]
      BY <2>2 DEF Flush
    <3>2. Len(bytes) \in Nat
      BY <1>1 DEF TypeOK
    <3>3. flush' \in [on : BOOLEAN, ahead : 0 .. Len(chain'), saves : 0 .. Len(bytes)]
      BY <1>3, <3>1, <3>2
    <3>4. Waiting' = UNION {chain'[i] : i \in DOMAIN chain'}
      BY <1>2 DEF Waiting, Queued
    <3>5. Awaited'
      BY <1>3, <3>1, <3>4 DEF Awaited
    <3> QED BY <3>3, <3>5
  <2> QED BY <2>1, <2>2
<1>5. TypeOK'
  <2>1. stage' # "idle" => chain' # <<>>
    BY <1>1, <1>3 DEF TypeOK
  <2>2. timer' = (open' # {})
    BY <1>1, <1>2
  <2>3. open' \subseteq DOMAIN bytes'
    BY <1>2
  <2> QED BY <1>1, <1>3, <1>4, <2>1, <2>2, <2>3 DEF TypeOK
<1>6. Latest' = Latest /\ Unused' = Unused
  BY <1>1 DEF Latest, Unused
<1>7. Remembered' /\ LoadedLatest' /\ OnDisk'
  BY <1>1, <1>6 DEF StoreInv, Remembered, LoadedLatest, OnDisk
<1> QED BY <1>3, <1>4, <1>5, <1>7 DEF StoreInv

(* flush() returns.                                                         *)
LEMMA FlushReturnsStep ==
  ASSUME StoreInv, FlushReturns
  PROVE  StoreInv'
<1>1. /\ TypeOK /\ flush' = NoFlush
      /\ UNCHANGED <<bytes, open, timer, chain, stage, lastBytes, disk, current, modeFailed, resolved>>
      /\ UNCHANGED <<crashes, damage, aside, boot, doctor, loaded>>
  BY DEF FlushReturns, file, StoreInv
<1>2. flush' \in [on : BOOLEAN, ahead : 0 .. Len(chain'), saves : 0 .. Len(bytes')]
  BY <1>1 DEF NoFlush, TypeOK
<1>3. Snapshot' = Snapshot /\ Latest' = Latest /\ Unused' = Unused /\ ~flush'.on
  BY <1>1 DEF Snapshot, Latest, Unused, NoFlush
<1> QED BY <1>1, <1>2, <1>3 DEF StoreInv, TypeOK, Sorted, Ahead, Remembered, LoadedLatest, OnDisk, Awaited

(* A write that changes the file, begins, or ends well or badly.            *)
LEMMA BeginStep ==
  ASSUME StoreInv, BeginWrite, bytes[Snapshot] # lastBytes
  PROVE  StoreInv'
<1>1. /\ TypeOK /\ chain # <<>> /\ stage' = "writing" /\ stage = "idle"
      /\ UNCHANGED <<bytes, open, timer, chain, flush, lastBytes, disk, current, modeFailed, resolved>>
      /\ UNCHANGED <<crashes, damage, aside, boot, doctor, loaded>>
  BY DEF BeginWrite, file, StoreInv
<1>2. Snapshot' = Snapshot /\ Latest' = Latest /\ Unused' = Unused /\ Waiting' = Waiting
  BY <1>1 DEF Snapshot, Latest, Unused, Waiting, Queued
<1>3. TypeOK'
  BY <1>1 DEF TypeOK
<1>4. Sorted' /\ Ahead'
  BY <1>1 DEF StoreInv, Sorted, Ahead
<1>5. Remembered' /\ LoadedLatest' /\ OnDisk' /\ Awaited'
  BY <1>1, <1>2 DEF StoreInv, Remembered, LoadedLatest, OnDisk, Awaited
<1> QED BY <1>3, <1>4, <1>5 DEF StoreInv

LEMMA RenameStep ==
  ASSUME StoreInv, Rename
  PROVE  StoreInv'
<1>1. /\ TypeOK /\ Sorted /\ chain # <<>> /\ stage = "writing"
      /\ disk' = bytes[Snapshot] /\ current' = Snapshot /\ stage' = "renamed" /\ damage' = "none"
      /\ UNCHANGED <<bytes, open, timer, chain, flush, lastBytes, modeFailed, resolved>>
      /\ UNCHANGED <<crashes, aside, boot, doctor, loaded>>
  BY DEF Rename, StoreInv, TypeOK
<1>2. /\ Snapshot \in Head(chain) /\ Snapshot \in DOMAIN bytes
      /\ Head(chain) = chain[1] /\ 1 \in DOMAIN chain /\ DOMAIN chain = 1 .. Len(chain)
  BY <1>1, SnapshotIsNewest DEF TypeOK
<1>3. Snapshot \in 1 .. Len(bytes) /\ bytes[Snapshot] \in Contents /\ current \in 0 .. Len(bytes)
      /\ Len(bytes) \in Nat
  BY <1>1, <1>2 DEF TypeOK
<1>4. current < Snapshot
  BY <1>1, <1>2 DEF StoreInv, Ahead
<1>5. TypeOK'
  BY <1>1, <1>3, StoreAssumption DEF TypeOK
<1>6. Sorted'
  BY <1>1 DEF Sorted
<1>7. Ahead'
  <2>1. \A m \in open : Snapshot < m
    BY <1>1, <1>2 DEF Sorted
  <2>2. \A i \in DOMAIN chain : i # 1 => \A n \in chain[i] : Snapshot < n
    <3>1. TAKE i \in DOMAIN chain
    <3>2. i # 1 => 1 < i
      BY <1>2
    <3> QED BY <1>1, <1>2, <3>2 DEF Sorted
  <2>3. Snapshot' = Snapshot
    BY <1>1 DEF Snapshot
  <2> QED BY <1>1, <2>1, <2>2, <2>3 DEF Ahead
<1>8. OnDisk'
  <2>1. \A n \in resolved : n \in Nat /\ n <= current
    BY <1>1 DEF StoreInv, OnDisk, TypeOK
  <2>2. Latest' = disk'
    BY <1>1, <1>3 DEF Latest
  <2>3. \A n \in resolved : n <= Snapshot
    BY <1>3, <1>4, <2>1
  <2> QED BY <1>1, <2>2, <2>3 DEF OnDisk
<1>9. Remembered' /\ LoadedLatest' /\ Awaited'
  <2>1. ~Unused' /\ Waiting' = Waiting
    BY <1>1 DEF Unused, Waiting, Queued
  <2> QED BY <1>1, <2>1 DEF StoreInv, Remembered, LoadedLatest, Awaited
<1> QED BY <1>5, <1>6, <1>7, <1>8, <1>9 DEF StoreInv

(* The save at the head is acknowledged: its file is in place, or it would  *)
(* have been the same.                                                      *)
LEMMA ResolveStep ==
  ASSUME StoreInv, (BeginWrite /\ bytes[Snapshot] = lastBytes) \/ Chmod
  PROVE  StoreInv'
<1>1. /\ TypeOK /\ chain # <<>> /\ Resolves /\ Settled /\ stage' = "idle"
      /\ resolved' = resolved \cup Head(chain) /\ current' = Snapshot
      /\ UNCHANGED <<bytes, open, timer, disk, modeFailed, crashes>>
      /\ UNCHANGED <<damage, aside, boot, doctor, loaded>> /\ lastBytes' = bytes[Snapshot]
  BY DEF BeginWrite, Chmod, Resolves, Settled, file, StoreInv, TypeOK
<1>2. /\ Snapshot \in DOMAIN bytes /\ \A n \in Head(chain) : n <= Snapshot
      /\ Snapshot \in Head(chain) /\ Head(chain) = chain[1] /\ 1 \in DOMAIN chain
  BY <1>1, SnapshotIsNewest DEF StoreInv, TypeOK
<1>3. Snapshot \in 1 .. Len(bytes) /\ bytes[Snapshot] \in Contents /\ Snapshot # 0
      /\ Len(bytes) \in Nat /\ current \in 0 .. Len(bytes) /\ bytes[Snapshot] # Unwritten
  BY <1>1, <1>2, StoreAssumption DEF TypeOK
<1>4. /\ chain' \in Seq(SUBSET Saves)
      /\ \A i \in DOMAIN chain' : chain'[i] # {} /\ chain'[i] \subseteq DOMAIN bytes
      /\ flush' \in [on : BOOLEAN, ahead : 0 .. Len(chain'), saves : 0 .. Len(bytes)]
      /\ \A i \in DOMAIN chain' : \A n \in chain'[i] : Snapshot < n
      /\ \A m \in open : Snapshot < m
      /\ Sorted' /\ Awaited'
  BY <1>1, SettlingKeeps
<1>5. TypeOK'
  <2>1. resolved' \subseteq DOMAIN bytes'
    BY <1>1, <1>2 DEF TypeOK
  <2>2. lastBytes' \in Contents /\ current' \in 0 .. Len(bytes')
    BY <1>1, <1>3
  <2> QED BY <1>1, <1>4, <2>1, <2>2 DEF TypeOK
<1>6. current <= Snapshot /\ (~modeFailed => bytes[Snapshot] = Latest)
  <2>1. CASE Chmod
    <3>1. current = Snapshot
      BY <2>1 DEF Chmod, StoreInv, Ahead
    <3> QED BY <1>3, <3>1 DEF Latest
  <2>2. CASE BeginWrite /\ bytes[Snapshot] = lastBytes
    <3>1. stage = "idle" /\ lastBytes # Unwritten
      BY <1>3, <2>2 DEF BeginWrite
    <3>2. current < Snapshot
      BY <1>2, <3>1 DEF StoreInv, Ahead
    <3>3. ~modeFailed => current # 0 /\ lastBytes = bytes[current]
      BY <3>1 DEF StoreInv, Remembered
    <3> QED BY <1>3, <2>2, <3>2, <3>3 DEF Latest
  <2> QED BY <2>1, <2>2
<1>7. Latest' = bytes[Snapshot]
  BY <1>1, <1>3 DEF Latest
<1>8. OnDisk'
  <2>1. \A n \in resolved : n <= current /\ n \in Nat
    BY <1>1 DEF StoreInv, OnDisk, TypeOK
  <2>2. \A n \in resolved : n <= Snapshot
    BY <1>3, <1>6, <2>1
  <2>3. \A n \in resolved' : n <= current'
    BY <1>1, <1>2, <2>2
  <2>4. ~modeFailed' => Latest' \in {disk'} \cup aside'
    BY <1>1, <1>6, <1>7 DEF StoreInv, OnDisk
  <2> QED BY <2>3, <2>4 DEF OnDisk
<1>9. Ahead' /\ Remembered' /\ LoadedLatest'
  <2>1. ~Unused'
    BY <1>1, <1>3 DEF Unused
  <2> QED BY <1>1, <1>3, <1>4, <2>1 DEF Ahead, Remembered, LoadedLatest
<1> QED BY <1>4, <1>5, <1>8, <1>9 DEF StoreInv

LEMMA FailStep ==
  ASSUME StoreInv, WriteFails \/ ChmodFails
  PROVE  StoreInv'
<1>1. /\ TypeOK /\ chain # <<>> /\ Settled /\ stage' = "idle"
      /\ UNCHANGED <<bytes, open, timer, lastBytes, disk, current, resolved, crashes>>
      /\ UNCHANGED <<damage, aside, boot, doctor, loaded>>
  BY DEF WriteFails, ChmodFails, Settled, file, StoreInv, TypeOK
<1>2. \/ stage = "writing" /\ modeFailed' = modeFailed
      \/ stage = "renamed" /\ modeFailed' = TRUE
  BY DEF WriteFails, ChmodFails
<1>3. /\ Snapshot \in DOMAIN bytes /\ Snapshot \in Head(chain)
      /\ Head(chain) = chain[1] /\ 1 \in DOMAIN chain
  BY <1>1, SnapshotIsNewest DEF StoreInv, TypeOK
<1>4. /\ chain' \in Seq(SUBSET Saves)
      /\ \A i \in DOMAIN chain' : chain'[i] # {} /\ chain'[i] \subseteq DOMAIN bytes
      /\ flush' \in [on : BOOLEAN, ahead : 0 .. Len(chain'), saves : 0 .. Len(bytes)]
      /\ \A i \in DOMAIN chain' : \A n \in chain'[i] : Snapshot < n
      /\ \A m \in open : Snapshot < m
      /\ Sorted' /\ Awaited'
  BY <1>1, SettlingKeeps
<1>5. TypeOK'
  BY <1>1, <1>2, <1>4 DEF TypeOK
<1>6. current <= Snapshot /\ current \in Nat /\ Snapshot \in Nat
  <2>1. current \in Nat /\ Snapshot \in Nat
    BY <1>1, <1>3 DEF TypeOK
  <2>2. stage = "writing" => current < Snapshot
    BY <1>3 DEF StoreInv, Ahead
  <2>3. stage = "renamed" => current = Snapshot
    BY DEF StoreInv, Ahead
  <2> QED BY <1>2, <2>1, <2>2, <2>3
<1>7. Ahead'
  <2>1. \A m \in open : m \in Nat
    BY <1>1 DEF TypeOK
  <2>2. \A i \in DOMAIN chain' : \A n \in chain'[i] : n \in Nat
    BY <1>1, <1>4 DEF TypeOK
  <2>3. \A m \in open : current < m
    BY <1>4, <1>6, <2>1
  <2>4. \A i \in DOMAIN chain' : \A n \in chain'[i] : current < n
    BY <1>4, <1>6, <2>2
  <2> QED BY <1>1, <2>3, <2>4 DEF Ahead
<1>8. Latest' = Latest
  BY <1>1 DEF Latest
<1>9. OnDisk' /\ Remembered' /\ LoadedLatest'
  <2>1. CASE stage = "writing" /\ modeFailed' = modeFailed
    <3>1. Unused' = Unused
      BY <1>1, <2>1 DEF Unused
    <3> QED BY <1>1, <1>8, <2>1, <3>1 DEF StoreInv, OnDisk, Remembered, LoadedLatest
  <2>2. CASE modeFailed' = TRUE
    BY <1>1, <2>2 DEF StoreInv, OnDisk, Remembered, LoadedLatest
  <2> QED BY <1>2, <2>1, <2>2
<1> QED BY <1>4, <1>5, <1>7, <1>9 DEF StoreInv

(* A crash forgets all but the files.                                       *)
LEMMA CrashStep ==
  ASSUME StoreInv, Crash
  PROVE  StoreInv'
<1>1. /\ TypeOK /\ crashes < MaxCrashes /\ crashes' = crashes + 1
      /\ open' = {} /\ timer' = FALSE /\ chain' = <<>> /\ stage' = "idle"
      /\ lastBytes' = Unwritten /\ flush' = NoFlush /\ boot' = "reading" /\ loaded' = Unwritten
      /\ UNCHANGED <<bytes, disk, damage, aside, doctor, current, modeFailed, resolved>>
  BY DEF Crash, StoreInv
<1>2. /\ chain' \in Seq(SUBSET Saves) /\ DOMAIN chain' = {} /\ Len(chain') = 0
      /\ Len(bytes) \in Nat /\ MaxCrashes \in Nat /\ Latest' = Latest
  BY <1>1, StoreAssumption DEF TypeOK, Latest
<1>3. flush' \in [on : BOOLEAN, ahead : 0 .. Len(chain'), saves : 0 .. Len(bytes')]
  BY <1>1, <1>2 DEF NoFlush
<1>4. timer' = (open' # {})
  BY <1>1
<1>5. TypeOK'
  BY <1>1, <1>2, <1>3, <1>4 DEF TypeOK
<1>6. Waiting' = {} /\ ~flush'.on
  BY <1>1, <1>2 DEF Waiting, Queued, NoFlush
<1>7. Sorted' /\ Ahead' /\ Remembered' /\ LoadedLatest' /\ OnDisk' /\ Awaited'
  BY <1>1, <1>2, <1>6 DEF StoreInv, Sorted, Ahead, Remembered, LoadedLatest, OnDisk, Awaited
<1> QED BY <1>5, <1>7 DEF StoreInv

(* Every step keeps the invariant.                                          *)
LEMMA StoreStep == StoreInv /\ [Next]_vars => StoreInv'
<1> SUFFICES ASSUME StoreInv, [Next]_vars PROVE StoreInv'
  OBVIOUS
<1>1. CASE \E b \in Contents : Save(b)
  BY <1>1, SaveStep
<1>2. CASE TimerFires \/ Flush
  BY <1>2, DrainStep
<1>3. CASE FlushReturns
  BY <1>3, FlushReturnsStep
<1>4. CASE WriteStep
  BY <1>4, BeginStep, RenameStep, ResolveStep, FailStep DEF WriteStep
<1>5. CASE Crash
  BY <1>5, CrashStep
<1>6. CASE Load \/ Quarantine \/ DoctorReads \/ DoctorQuarantines \/ Damage
  BY <1>6, FileStep
<1>7. CASE UNCHANGED vars
  <2>1. /\ UNCHANGED Writer /\ UNCHANGED <<disk, damage, aside, boot, doctor, loaded>>
    BY <1>7 DEF vars, file, Writer
  <2>2. Sorted' /\ Ahead' /\ Remembered' /\ Awaited' /\ Latest' = Latest /\ Unused' = Unused
    BY <2>1, QueueUntouched
  <2>3. TypeOK' /\ OnDisk' /\ LoadedLatest'
    BY <2>1, <2>2 DEF Writer, StoreInv, TypeOK, OnDisk, LoadedLatest
  <2> QED BY <2>2, <2>3 DEF StoreInv
<1> QED BY <1>1, <1>2, <1>3, <1>4, <1>5, <1>6, <1>7 DEF Next

LEMMA StoreAlways == Spec => []StoreInv
BY StoreInit, StoreStep, PTL DEF Spec

---------------------------------------------------------------------------
(* The variables of the store keep their types (core/persistence.js:56).    *)
THEOREM StoreTypes == Spec => []TypeOK
<1>1. StoreInv => TypeOK
  BY DEF StoreInv
<1> QED BY <1>1, StoreAlways, PTL

(* Through any failures, crashes and damage an acknowledged save is on disk *)
(* or in quarantine, and a start that does not have it left it there        *)
(* (core/persistence.js:198 and :82).                                       *)
THEOREM AcknowledgedStays == Spec => []AcknowledgedIsOnDisk
<1>1. StoreInv => AcknowledgedIsOnDisk
  BY DEF StoreInv, OnDisk, LoadedLatest, AcknowledgedIsOnDisk
<1> QED BY <1>1, StoreAlways, PTL

(* When flush() returns, nothing saved before it was called still waits     *)
(* (core/persistence.js:156).                                               *)
THEOREM FlushSettles == Spec => []FlushSettlesAll
<1>1. StoreInv => FlushSettlesAll
  <2>1. SUFFICES ASSUME StoreInv, flush.on, flush.ahead = 0, NEW n \in Waiting PROVE n > flush.saves
    BY DEF FlushSettlesAll
  <2>2. n \in Nat /\ flush.saves \in Nat
    BY <2>1 DEF StoreInv, TypeOK, Waiting, Queued
  <2>3. ~(n <= flush.saves)
    BY <2>1 DEF StoreInv, Awaited
  <2> QED BY <2>2, <2>3
<1> QED BY <1>1, StoreAlways, PTL
=============================================================================
