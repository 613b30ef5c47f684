------------------------ MODULE CommandRouter_proofs ------------------------
(***************************************************************************)
(* What holds of CommandRouter for any number of identities, handlers and  *)
(* turns: the hourly quota is exact and an identity's sessions are its     *)
(* own, whatever handlers overlap and whatever awaits fail; and whoever    *)
(* looks at a picker can answer it with a number, unless messages overlap. *)
(***************************************************************************)
EXTENDS CommandRouter, FiniteSetTheorems, WellFoundedInduction, TLAPS

Ops == [at : Stages, id : Ids \cup {None}, proj : Projects \cup {None}, thr : Threads \cup {None}]

\* A handler at work has an identity, one past the list of projects has a
\* project, and one about to choose a thread has that thread.
Sound(r) ==
    /\ r \in Ops
    /\ r.at # "idle" => r.id \in Ids
    /\ r.at \notin {"idle", "projects"} => r.proj \in Projects
    /\ r.at \in {"resume", "first"} => r.thr \in Threads

\* What a handler owes to the quota of an identity.
Owes(r, id) == IF r.id = id /\ r.at \in Paid THEN 1 ELSE 0

\* The books of the quota.
Ledger ==
    /\ op \in [Handlers -> Ops] /\ \A h \in Handlers : Sound(op[h])
    /\ spent \in [Ids -> 0..MaxTurns] /\ started \in [Ids -> Nat]
    /\ QuotaExact

\* Where an identity is and what its texts go to.
Desk ==
    /\ cur \in [Ids -> Projects \cup {None}]
    /\ theirs \in [Projects -> SUBSET Threads] /\ stored \in [Projects -> SUBSET Threads]
    /\ active \in [Ids -> [Projects -> Threads \cup {None}]]
    /\ picked \in [Ids -> SUBSET Threads]
    /\ OwnSessionsOnly

RouterInv == Ledger /\ Desk /\ auth \subseteq Ids

-------------------------------------------------------------------------------
(***************************************************************************)
(* The quota.                                                              *)
(***************************************************************************)
\* The handlers of an identity that owe a turn, after one handler moved on.
LEMMA PaidAfter ==
    ASSUME Ledger, NEW h \in Handlers, NEW n, op' = [op EXCEPT ![h] = n], NEW id \in Ids
    PROVE  /\ Cardinality(InPaid(id)) \in Nat
           /\ Cardinality(InPaid(id)') \in Nat
           /\ Cardinality(InPaid(id)') + Owes(op[h], id) = Cardinality(InPaid(id)) + Owes(n, id)
<1> DEFINE rest == {g \in Handlers \ {h} : op[g].id = id /\ op[g].at \in Paid}
<1>1. IsFiniteSet(rest) /\ Cardinality(rest) \in Nat /\ h \notin rest
  BY HandlersAssumption, FS_Subset, FS_CardinalityType
<1>2. InPaid(id) = IF Owes(op[h], id) = 1 THEN rest \cup {h} ELSE rest
  BY DEF InPaid, Live, Owes
<1>3. InPaid(id)' = IF Owes(n, id) = 1 THEN rest \cup {h} ELSE rest
  <2>1. \A g \in Handlers : op'[g] = IF g = h THEN n ELSE op[g]
    BY DEF Ledger
  <2> QED BY <2>1 DEF InPaid, Live, Owes
<1>4. Cardinality(rest \cup {h}) = Cardinality(rest) + 1
  BY <1>1, FS_AddElement
<1> HIDE DEF rest
<1>5. Owes(op[h], id) \in {0, 1} /\ Owes(n, id) \in {0, 1}
  BY DEF Owes
<1> QED BY <1>1, <1>2, <1>3, <1>4, <1>5

\* A handler moves on and the quota follows it.
LEMMA Moved ==
    ASSUME Ledger, NEW h \in Handlers, NEW n, Sound(n), op' = [op EXCEPT ![h] = n],
           spent' \in [Ids -> 0..MaxTurns], started' \in [Ids -> Nat],
           \A id \in Ids : spent'[id] + started[id] + Owes(op[h], id)
                             = spent[id] + started'[id] + Owes(n, id)
    PROVE  Ledger'
<1>1. op' \in [Handlers -> Ops] /\ \A g \in Handlers : Sound(op'[g])
  BY DEF Ledger, Sound
<1>2. ASSUME NEW id \in Ids
      PROVE  spent'[id] = started'[id] + Cardinality(InPaid(id)')
  <2>1. /\ Cardinality(InPaid(id)) \in Nat /\ Cardinality(InPaid(id)') \in Nat
        /\ Cardinality(InPaid(id)') + Owes(op[h], id) = Cardinality(InPaid(id)) + Owes(n, id)
    BY PaidAfter
  <2>2. spent[id] = started[id] + Cardinality(InPaid(id))
    BY DEF Ledger, QuotaExact
  <2>3. spent[id] \in Nat /\ started[id] \in Nat /\ spent'[id] \in Nat /\ started'[id] \in Nat
    BY QuotaAssumption DEF Ledger
  <2>4. Owes(op[h], id) \in {0, 1} /\ Owes(n, id) \in {0, 1}
    BY DEF Owes
  <2>5. spent'[id] + started[id] + Owes(op[h], id) = spent[id] + started'[id] + Owes(n, id)
    OBVIOUS
  <2> QED BY <2>1, <2>2, <2>3, <2>4, <2>5
<1> QED BY <1>1, <1>2 DEF Ledger, QuotaExact, Sound

\* A step outside the turns, and one from await to await within a turn.
LEMMA Unpaid ==
    ASSUME Ledger, NEW h \in Handlers, NEW n, Sound(n), op' = [op EXCEPT ![h] = n],
           UNCHANGED quota,
           \/ op[h].at \notin Paid /\ n.at \notin Paid
           \/ op[h].at \in Paid /\ n.at \in Paid /\ n.id = op[h].id
    PROVE  Ledger'
<1>1. \A id \in Ids : Owes(op[h], id) = Owes(n, id)
  BY DEF Owes
<1>2. spent' = spent /\ started' = started
  BY DEF quota
<1>3. \A id \in Ids : spent[id] \in Nat /\ started[id] \in Nat /\ Owes(n, id) \in {0, 1}
  BY QuotaAssumption DEF Ledger, Owes
<1>4. spent' \in [Ids -> 0..MaxTurns] /\ started' \in [Ids -> Nat]
  BY <1>2 DEF Ledger
<1>5. \A id \in Ids : spent'[id] + started[id] + Owes(op[h], id)
                        = spent[id] + started'[id] + Owes(n, id)
  BY <1>1, <1>2, <1>3
<1> QED BY <1>4, <1>5, Moved

\* enforceTurnRate reserves a turn for a handler that was idle.
LEMMA Reserved ==
    ASSUME Ledger, NEW h \in Handlers, NEW n, Sound(n), op' = [op EXCEPT ![h] = n],
           op[h] = Idle, n.at \in Paid, EnforceTurnRate(n.id), started' = started
    PROVE  Ledger'
<1>1. n.id \in Ids
  BY DEF Sound, Paid
<1>2. spent[n.id] < MaxTurns /\ spent' = [spent EXCEPT ![n.id] = spent[n.id] + 1]
  BY DEF EnforceTurnRate
<1>3. \A id \in Ids : spent[id] \in 0..MaxTurns /\ started[id] \in Nat
  BY DEF Ledger
<1>4. spent' \in [Ids -> 0..MaxTurns] /\ started' \in [Ids -> Nat]
  BY <1>1, <1>2, <1>3, QuotaAssumption DEF Ledger
<1>5. \A id \in Ids : Owes(op[h], id) = 0 /\ Owes(n, id) = IF id = n.id THEN 1 ELSE 0
  BY DEF Owes, Idle, Paid
<1>6. \A id \in Ids : spent'[id] = IF id = n.id THEN spent[id] + 1 ELSE spent[id]
  BY <1>1, <1>2 DEF Ledger
<1>7. \A id \in Ids : spent'[id] + started[id] + Owes(op[h], id)
                        = spent[id] + started'[id] + Owes(n, id)
  BY <1>3, <1>5, <1>6, QuotaAssumption
<1> QED BY <1>4, <1>7, Moved

\* A turn ends its handler: it was started, or its reservation is given back.
LEMMA Settled ==
    ASSUME Ledger, NEW h \in Handlers, op' = [op EXCEPT ![h] = Idle], op[h].at \in Paid,
           \/ started' = [started EXCEPT ![op[h].id] = @ + 1] /\ spent' = spent
           \/ spent' = [spent EXCEPT ![op[h].id] = @ - 1] /\ started' = started
    PROVE  Ledger'
<1> DEFINE me == op[h].id
<1>1. me \in Ids /\ Sound(Idle)
  BY DEF Ledger, Sound, Idle, Ops, Stages, Paid
<1>2. \A id \in Ids : spent[id] \in 0..MaxTurns /\ started[id] \in Nat
  BY DEF Ledger
<1>3. \A id \in Ids : Owes(op[h], id) = (IF id = me THEN 1 ELSE 0) /\ Owes(Idle, id) = 0
  BY DEF Owes, Idle, Paid
<1>4. spent[me] >= 1
  <2>1. h \in InPaid(me)
    BY DEF InPaid, Live
  <2>2. IsFiniteSet(InPaid(me))
    BY HandlersAssumption, FS_Subset DEF InPaid, Live
  <2>3. Cardinality(InPaid(me)) \in Nat /\ Cardinality(InPaid(me)) # 0
    BY <2>1, <2>2, FS_CardinalityType, FS_EmptySet
  <2>4. spent[me] = started[me] + Cardinality(InPaid(me))
    BY <1>1 DEF Ledger, QuotaExact
  <2> QED BY <1>1, <1>2, <2>3, <2>4, QuotaAssumption
<1> HIDE DEF me
<1>5. CASE started' = [started EXCEPT ![op[h].id] = @ + 1] /\ spent' = spent
  <2>1. \A id \in Ids : started'[id] = IF id = me THEN started[id] + 1 ELSE started[id]
    BY <1>5 DEF Ledger, me
  <2>2. spent' \in [Ids -> 0..MaxTurns] /\ started' \in [Ids -> Nat]
    BY <1>1, <1>2, <1>5 DEF Ledger, me
  <2>3. \A id \in Ids : spent'[id] + started[id] + Owes(op[h], id)
                          = spent[id] + started'[id] + Owes(Idle, id)
    BY <1>2, <1>3, <1>5, <2>1, QuotaAssumption
  <2> QED BY <1>1, <2>2, <2>3, Moved
<1>6. CASE spent' = [spent EXCEPT ![op[h].id] = @ - 1] /\ started' = started
  <2>1. \A id \in Ids : spent'[id] = IF id = me THEN spent[id] - 1 ELSE spent[id]
    BY <1>6 DEF Ledger, me
  <2>2. spent' \in [Ids -> 0..MaxTurns] /\ started' \in [Ids -> Nat]
    BY <1>1, <1>2, <1>4, <1>6, QuotaAssumption DEF Ledger, me
  <2>3. \A id \in Ids : spent'[id] + started[id] + Owes(op[h], id)
                          = spent[id] + started'[id] + Owes(Idle, id)
    BY <1>2, <1>3, <1>6, <2>1, QuotaAssumption
  <2> QED BY <1>1, <2>2, <2>3, Moved
<1> QED BY <1>5, <1>6

-------------------------------------------------------------------------------
(***************************************************************************)
(* How a handler moves.                                                    *)
(***************************************************************************)
\* Awaiting, going on and replying replace the record of the handler.
LEMMA Awaits ==
    ASSUME NEW h \in Handlers, NEW id \in Ids, NEW at \in Stages, NEW p, NEW t,
           p \in Projects \/ (p = None /\ at = "projects"), t \in Threads \cup {None},
           at \in {"resume", "first"} => t \in Threads,
           Await(h, id, at, p, t)
    PROVE  \E n : op' = [op EXCEPT ![h] = n] /\ Sound(n) /\ n.at = at /\ n.id = id
<1> DEFINE n == [at |-> at, id |-> id, proj |-> p, thr |-> t]
<1>1. Sound(n)
  BY DEF Sound, Ops
<1>2. op' = [op EXCEPT ![h] = n]
  BY DEF Await
<1>3. n.at = at /\ n.id = id
  OBVIOUS
<1> HIDE DEF n
<1> QED BY <1>1, <1>2, <1>3

LEMMA Proceeds ==
    ASSUME Ledger, NEW h \in Handlers, op[h].at \notin {"idle", "projects"},
           NEW at \in Stages, NEW t \in Threads \cup {None},
           at \in {"resume", "first"} => t \in Threads,
           Proceed(h, at, t)
    PROVE  \E n : op' = [op EXCEPT ![h] = n] /\ Sound(n) /\ n.at = at /\ n.id = op[h].id
<1> DEFINE n == [[op[h] EXCEPT !.at = at] EXCEPT !.thr = t]
<1>0. op \in [Handlers -> Ops] /\ Sound(op[h]) /\ op[h] \in Ops
  BY DEF Ledger
<1>1. n \in Ops /\ n.at = at /\ n.id = op[h].id /\ n.proj = op[h].proj /\ n.thr = t
  BY <1>0 DEF Ops
<1>2. op' = [op EXCEPT ![h] = n]
  BY <1>0 DEF Proceed
<1> HIDE DEF n
<1>3. Sound(n)
  BY <1>0, <1>1 DEF Sound
<1> QED BY <1>1, <1>2, <1>3

LEMMA Replies ==
    ASSUME NEW h \in Handlers, NEW id, NEW b, Reply(h, id, b)
    PROVE  op' = [op EXCEPT ![h] = Idle] /\ Sound(Idle) /\ Idle.at = "idle"
BY DEF Reply, Sound, Idle, Ops, Stages

\* A handler outside a turn awaits or replies.
Outside(h, id) ==
    \/ \E b \in Pickers : Reply(h, id, b)
    \/ \E at \in Stages \ Paid : \E p \in Projects \cup {None} : \E t \in Threads \cup {None} :
          /\ Await(h, id, at, p, t)
          /\ p = None => at = "projects"
          /\ at \notin {"resume", "first"}

LEMMA WaitsOutside ==
    ASSUME NEW h \in Handlers, NEW id \in Ids, NEW at \in {"threads", "use", "cancel"},
           NEW p \in Projects, NEW t \in Threads \cup {None}, Await(h, id, at, p, t)
    PROVE  Outside(h, id)
<1>1. p # None /\ at \in Stages \ Paid /\ at \notin {"resume", "first"}
  BY NoneAssumption DEF Stages, Paid
<1> QED BY <1>1 DEF Outside

LEMMA OutsideKeeps ==
    ASSUME Ledger, NEW h \in Handlers, NEW id \in Ids, op[h].at \notin Paid,
           Outside(h, id), UNCHANGED quota
    PROVE  Ledger'
<1>1. PICK n : op' = [op EXCEPT ![h] = n] /\ Sound(n) /\ n.at \notin Paid
  <2>1. ASSUME NEW b \in Pickers, Reply(h, id, b)
        PROVE  op' = [op EXCEPT ![h] = Idle] /\ Sound(Idle) /\ Idle.at \notin Paid
    BY <2>1, Replies DEF Paid
  <2>2. ASSUME NEW at \in Stages \ Paid, NEW p \in Projects \cup {None},
               NEW t \in Threads \cup {None},
               Await(h, id, at, p, t), p = None => at = "projects", at \notin {"resume", "first"}
        PROVE  \E n : op' = [op EXCEPT ![h] = n] /\ Sound(n) /\ n.at \notin Paid
    BY <2>2, Awaits
  <2> QED BY <2>1, <2>2 DEF Outside
<1> QED BY <1>1, Unpaid

-------------------------------------------------------------------------------
(***************************************************************************)
(* The sessions.                                                           *)
(***************************************************************************)
\* setActive adds what it points to to the choices of the same identity.
LEMMA Pointing ==
    ASSUME Desk, NEW id \in Ids, NEW p \in Projects, NEW t \in Threads, SetActive(id, p, t),
           UNCHANGED <<cur, theirs>>
    PROVE  Desk'
<1>1. /\ stored' = [stored EXCEPT ![p] = stored[p] \cup {t}]
      /\ picked' = [picked EXCEPT ![id] = picked[id] \cup {t}]
      /\ active' = [active EXCEPT ![id] = [active[id] EXCEPT ![p] = t]]
  BY DEF SetActive
<1>2. /\ stored' \in [Projects -> SUBSET Threads] /\ picked' \in [Ids -> SUBSET Threads]
      /\ active' \in [Ids -> [Projects -> Threads \cup {None}]]
  BY <1>1 DEF Desk
<1>3. ASSUME NEW i \in Ids, NEW q \in Projects
      PROVE  active'[i][q] \in picked'[i] \cup {None}
  <2>1. active[i][q] \in picked[i] \cup {None}
    BY DEF Desk, OwnSessionsOnly
  <2>2. CASE i = id /\ q = p
    BY <1>1, <2>2 DEF Desk
  <2>3. CASE i = id /\ q # p
    BY <1>1, <2>1, <2>3 DEF Desk
  <2>4. CASE i # id
    BY <1>1, <2>1, <2>4 DEF Desk
  <2> QED BY <2>2, <2>3, <2>4
<1> QED BY <1>2, <1>3 DEF Desk, OwnSessionsOnly

\* A step that opens at most a project leaves the sessions alone.
LEMMA SameSessions ==
    ASSUME Desk, UNCHANGED <<theirs, store>>, cur' \in [Ids -> Projects \cup {None}]
    PROVE  Desk'
BY DEF Desk, store, OwnSessionsOnly

-------------------------------------------------------------------------------
(***************************************************************************)
(* The steps.                                                              *)
(***************************************************************************)
\* Asking for a session list arms the picker, then waits or replies.
LEMMA ShowsOutside ==
    ASSUME NEW h \in Handlers, NEW id \in Ids, NEW p \in Projects, ShowSessions(h, id, p)
    PROVE  Outside(h, id)
<1>1. CASE desk
  BY <1>1, WaitsOutside DEF ShowSessions
<1>2. CASE ~desk
  BY <1>2 DEF ShowSessions, Outside, Pickers
<1> QED BY <1>1, <1>2

\* Messages that start no turn.
MessageOutside(h, id) ==
    \/ AskProjects(h, id) \/ AskSessions(h, id) \/ AskFirstMessage(h, id) \/ Choose(h, id)
    \/ MissPicker(h, id) \/ TextWithoutSession(h, id) \/ Cancel(h, id) \/ AnswerOnly(h, id)

LEMMA UsingStored ==
    ASSUME Desk, NEW h \in Handlers, NEW id \in Ids, NEW p \in Projects, UseStored(h, id, p),
           UNCHANGED <<cur, theirs>>
    PROVE  Outside(h, id) /\ Desk'
<1>1. CASE \E t \in stored[p] : SetActive(id, p, t) /\ SetPending(id, "none") /\ Reply(h, id, "none")
  <2>1. PICK t \in stored[p] : SetActive(id, p, t) /\ Reply(h, id, "none")
    BY <1>1
  <2>2. t \in Threads
    BY DEF Desk
  <2> QED BY <2>1, <2>2, Pointing DEF Outside, Pickers
<1>2. CASE UNCHANGED <<store, pending>> /\ Reply(h, id, "none")
  <2>1. cur' \in [Ids -> Projects \cup {None}]
    BY DEF Desk
  <2> QED BY <1>2, <2>1, SameSessions DEF Outside, Pickers
<1> QED BY <1>1, <1>2 DEF UseStored

LEMMA UseOutside ==
    ASSUME Desk, NEW h \in Handlers, NEW id \in Ids, Use(h, id)
    PROVE  Outside(h, id) /\ Desk'
<1>1. cur[id] \in Projects /\ UNCHANGED <<cur, theirs>>
  BY DEF Use, Desk, lists
<1>2. CASE desk
  <2>1. Await(h, id, "use", cur[id], None) /\ UNCHANGED store
    BY <1>2 DEF Use
  <2>2. cur' \in [Ids -> Projects \cup {None}]
    BY <1>1 DEF Desk
  <2> QED BY <1>1, <2>1, <2>2, SameSessions, WaitsOutside
<1>3. CASE ~desk
  <2>1. UseStored(h, id, cur[id])
    BY <1>3 DEF Use
  <2> QED BY <1>1, <2>1, UsingStored
<1> QED BY <1>2, <1>3

LEMMA MessageKeeps ==
    ASSUME RouterInv, NEW h \in Handlers, NEW id \in Ids, MessageOutside(h, id)
    PROVE  RouterInv'
<1> USE DEF RouterInv
<1>1. op[h].at \notin Paid /\ UNCHANGED <<auth, quota, theirs>>
  <2>1. Ask(h, id) /\ UNCHANGED <<quota, theirs>>
    <3>1. CASE AskProjects(h, id)
      BY <3>1 DEF AskProjects
    <3>2. CASE Use(h, id)
      BY <3>2 DEF Use
    <3>3. CASE \E p \in Projects : Open(h, id, p)
      BY <3>3 DEF Open
    <3>4. CASE Cancel(h, id)
      BY <3>4 DEF Cancel
    <3> QED BY <3>1, <3>2, <3>3, <3>4 DEF MessageOutside, Choose, AskSessions, AskFirstMessage,
               MissPicker, TextWithoutSession, AnswerOnly
  <2> QED BY <2>1 DEF Ask, Idle, Paid
<1>2. Outside(h, id) /\ Desk'
  <2> DEFINE Open1 == UNCHANGED store /\ cur' \in [Ids -> Projects \cup {None}]
  <2>1. CASE AskProjects(h, id)
    <3>1. Outside(h, id)
      <4>1. CASE desk
        BY <2>1, <4>1 DEF AskProjects, Outside, Stages, Paid
      <4>2. CASE ~desk
        BY <2>1, <4>2 DEF AskProjects, Outside, Pickers
      <4> QED BY <4>1, <4>2
    <3>2. Open1
      BY <2>1 DEF AskProjects, Desk
    <3> QED BY <1>1, <3>1, <3>2, SameSessions
  <2>2. CASE AskSessions(h, id)
    <3>1. cur[id] \in Projects /\ ShowSessions(h, id, cur[id]) /\ Open1
      BY <2>2 DEF AskSessions, Desk
    <3> QED BY <1>1, <3>1, ShowsOutside, SameSessions
  <2>3. CASE AskFirstMessage(h, id)
    BY <1>1, <2>3, SameSessions DEF AskFirstMessage, Outside, Desk, Pickers
  <2>4. CASE Use(h, id)
    BY <2>4, UseOutside
  <2>5. ASSUME NEW p \in Projects, Open(h, id, p) PROVE Outside(h, id) /\ Desk'
    <3>1. ShowSessions(h, id, p) /\ Open1
      BY <2>5 DEF Open, Desk
    <3> QED BY <1>1, <3>1, ShowsOutside, SameSessions
  <2>6. CASE MissPicker(h, id)
    BY <1>1, <2>6, SameSessions DEF MissPicker, Outside, Desk, Pickers
  <2>7. CASE TextWithoutSession(h, id)
    <3>1. cur[id] \in Projects /\ ShowSessions(h, id, cur[id]) /\ Open1
      BY <2>7 DEF TextWithoutSession, Desk
    <3> QED BY <1>1, <3>1, ShowsOutside, SameSessions
  <2>8. CASE Cancel(h, id)
    <3>1. Open1
      BY <2>8 DEF Cancel, Desk
    <3>2. Outside(h, id)
      <4>1. CASE pending[id] \in Picking
        BY <2>8, <4>1 DEF Cancel, Outside, Pickers
      <4>2. CASE pending[id] \notin Picking
        <5>1. cur[id] \in Projects /\ active[id][cur[id]] \in Threads
              /\ Await(h, id, "cancel", cur[id], active[id][cur[id]])
          BY <2>8, <4>2 DEF Cancel, Desk
        <5> QED BY <5>1, WaitsOutside
      <4> QED BY <4>1, <4>2
    <3> QED BY <1>1, <3>1, <3>2, SameSessions
  <2>9. CASE AnswerOnly(h, id)
    BY <1>1, <2>9, SameSessions DEF AnswerOnly, Outside, Desk, Pickers
  <2> QED BY <2>1, <2>2, <2>3, <2>4, <2>5, <2>6, <2>7, <2>8, <2>9 DEF MessageOutside, Choose
<1> QED BY <1>1, <1>2, OutsideKeeps

\* An answer that ends a handler outside its turn, or moves it on to choose
\* the session it found.
Answered(h) ==
    \/ ThreadsListed(h) \/ CancelTurn(h) \/ Cancelled(h) \/ UseListed(h) \/ UseResumed(h)
    \/ \E l \in Answers : ProjectsListed(h, l)

LEMMA AnswerKeeps ==
    ASSUME RouterInv, NEW h \in Handlers, Answered(h)
    PROVE  RouterInv'
<1> USE DEF RouterInv
<1> DEFINE id == op[h].id
<1>1. /\ op[h].at \in {"projects", "threads", "cancel", "interrupt", "use", "resume"}
      /\ UNCHANGED <<auth, quota, theirs, cur>>
  BY DEF Answered, ThreadsListed, CancelTurn, Cancelled, UseListed, UseResumed, ProjectsListed, people, menu
<1>2. /\ id \in Ids /\ op[h].at \notin Paid
      /\ op[h].at \in {"use", "resume"} => op[h].proj \in Projects
      /\ op[h].at = "resume" => op[h].thr \in Threads
  BY <1>1 DEF Ledger, Sound, Paid
<1>3. cur' \in [Ids -> Projects \cup {None}]
  BY <1>1 DEF Desk
<1> HIDE DEF id
<1>4. CASE ThreadsListed(h) \/ Cancelled(h) \/ \E l \in Answers : ProjectsListed(h, l)
  <2>1. Outside(h, id) /\ UNCHANGED store
    BY <1>4 DEF ThreadsListed, Cancelled, ProjectsListed, Outside, id, Pickers
  <2> QED BY <1>1, <1>2, <1>3, <2>1, OutsideKeeps, SameSessions
<1>5. CASE UseResumed(h)
  <2>1. SetActive(id, op[h].proj, op[h].thr) /\ Outside(h, id)
    BY <1>5 DEF UseResumed, Outside, id, Pickers
  <2>2. op[h].proj \in Projects /\ op[h].thr \in Threads
    BY <1>2, <1>5 DEF UseResumed
  <2> QED BY <1>1, <1>2, <2>1, <2>2, Pointing, OutsideKeeps
<1>6. CASE UseListed(h)
  <2>1. op[h].at = "use" /\ op[h].proj \in Projects
    BY <1>2, <1>6 DEF UseListed
  <2>2. CASE UseStored(h, id, op[h].proj)
    BY <1>1, <1>2, <2>1, <2>2, UsingStored, OutsideKeeps
  <2>3. ASSUME NEW t \in theirs[op[h].proj], Proceed(h, "resume", t), UNCHANGED store
        PROVE  Ledger' /\ Desk'
    <3>1. t \in Threads /\ "resume" \in Stages
      BY <2>1 DEF Desk, Stages
    <3>2. \E n : op' = [op EXCEPT ![h] = n] /\ Sound(n) /\ n.at = "resume" /\ n.id = op[h].id
      BY <2>1, <2>3, <3>1, Proceeds
    <3>3. PICK n : op' = [op EXCEPT ![h] = n] /\ Sound(n) /\ n.at \notin Paid
      BY <3>2 DEF Paid
    <3> QED BY <1>1, <1>2, <1>3, <2>3, <3>3, Unpaid, SameSessions
  <2> QED BY <1>1, <1>6, <2>2, <2>3 DEF UseListed, id
<1>7. CASE CancelTurn(h)
  <2>1. Proceed(h, "interrupt", op[h].thr) /\ op[h].thr \in Threads \cup {None} /\ UNCHANGED store
    BY <1>7 DEF CancelTurn, Ledger, Sound, Ops
  <2>2. "interrupt" \in Stages /\ op[h].at \notin {"idle", "projects"}
    BY <1>7 DEF CancelTurn, Stages
  <2>3. \E n : op' = [op EXCEPT ![h] = n] /\ Sound(n) /\ n.at = "interrupt" /\ n.id = op[h].id
    BY <2>1, <2>2, Proceeds
  <2>4. PICK n : op' = [op EXCEPT ![h] = n] /\ Sound(n) /\ n.at \notin Paid
    BY <2>3 DEF Paid
  <2> QED BY <1>1, <1>2, <1>3, <2>1, <2>4, Unpaid, SameSessions
<1> QED BY <1>4, <1>5, <1>6, <1>7 DEF Answered

\* A message that starts a turn pays for it first.
LEMMA PayingKeeps ==
    ASSUME RouterInv, NEW h \in Handlers, NEW id \in Ids, NewSession(h, id) \/ Send(h, id)
    PROVE  RouterInv'
<1> USE DEF RouterInv
<1>1. /\ op[h] = Idle /\ EnforceTurnRate(id) /\ started' = started
      /\ UNCHANGED <<auth, theirs, store, cur>> /\ cur[id] \in Projects
  BY DEF NewSession, Send, Ask, menu, Desk
<1>2. PICK n : op' = [op EXCEPT ![h] = n] /\ Sound(n) /\ n.at \in Paid /\ n.id = id
  <2>1. CASE NewSession(h, id)
    <3>1. PICK at \in {"create", "cli"} : Await(h, id, at, cur[id], None)
      BY <2>1 DEF NewSession
    <3>2. at \in Stages /\ at \in Paid /\ at \notin {"resume", "first"}
      BY DEF Stages, Paid
    <3> QED BY <1>1, <3>1, <3>2, Awaits
  <2>2. CASE Send(h, id)
    <3>1. PICK t \in stored[cur[id]] : Await(h, id, "reopen", cur[id], t)
      BY <2>2 DEF Send
    <3>2. t \in Threads /\ "reopen" \in Stages /\ "reopen" \in Paid
      BY <1>1 DEF Desk, Stages, Paid
    <3> QED BY <1>1, <3>1, <3>2, Awaits
  <2> QED BY <2>1, <2>2
<1>3. Ledger'
  BY <1>1, <1>2, Reserved
<1>4. cur' \in [Ids -> Projects \cup {None}]
  BY <1>1 DEF Desk
<1> QED BY <1>1, <1>3, <1>4, SameSessions

\* The awaits of a turn.
TurnStep(h) ==
    \/ FirstTurnStarted(h) \/ Reopened(h) \/ ThreadNotFound(h) \/ TurnStarted(h)
    \/ \E t \in Threads : ThreadStarted(h, t) \/ CliRan(h, t)

LEMMA TurnKeeps ==
    ASSUME RouterInv, NEW h \in Handlers, TurnStep(h)
    PROVE  RouterInv'
<1> USE DEF RouterInv
<1> DEFINE o == op[h]
<1>1. o.at \in Paid /\ UNCHANGED <<auth, cur>>
  BY DEF TurnStep, FirstTurnStarted, Reopened, ThreadNotFound, TurnStarted, ThreadStarted, CliRan,
         Paid, people, menu
<1>2. /\ Sound(o) /\ o.id \in Ids /\ o.proj \in Projects /\ o.thr \in Threads \cup {None}
      /\ o.at = "first" => o.thr \in Threads
  BY <1>1 DEF Ledger, Sound, Ops, Paid
<1>3. cur' \in [Ids -> Projects \cup {None}]
  BY <1>1 DEF Desk
<1> HIDE DEF o
<1>4. CASE Reopened(h) \/ ThreadNotFound(h)
  <2>1. PICK at \in {"turn", "again"} : Proceed(h, at, o.thr)
    BY <1>4 DEF Reopened, ThreadNotFound, o
  <2>2. UNCHANGED <<quota, theirs, store>>
    BY <1>4 DEF Reopened, ThreadNotFound
  <2>3. at \in Stages /\ at \in Paid /\ at \notin {"resume", "first"}
    BY DEF Stages, Paid
  <2>4. op[h].at \notin {"idle", "projects"}
    BY <1>1 DEF Paid, o
  <2>5. PICK n : op' = [op EXCEPT ![h] = n] /\ Sound(n) /\ n.at = at /\ n.id = op[h].id
    BY <1>2, <2>1, <2>3, <2>4, Proceeds
  <2>6. Ledger'
    BY <1>1, <2>2, <2>3, <2>5, Unpaid DEF o
  <2> QED BY <1>1, <1>3, <2>2, <2>6, SameSessions
<1>5. ASSUME NEW t \in Threads, ThreadStarted(h, t) PROVE RouterInv'
  <2>1. /\ Proceed(h, "first", t) /\ UNCHANGED <<quota, store>>
        /\ theirs' = [theirs EXCEPT ![o.proj] = @ \cup {t}]
    BY <1>5 DEF ThreadStarted, o
  <2>2. "first" \in Stages /\ "first" \in Paid /\ op[h].at \notin {"idle", "projects"}
    BY <1>1 DEF Stages, Paid, o
  <2>3. PICK n : op' = [op EXCEPT ![h] = n] /\ Sound(n) /\ n.at = "first" /\ n.id = op[h].id
    BY <2>1, <2>2, Proceeds
  <2>4. Ledger'
    BY <1>1, <2>1, <2>2, <2>3, Unpaid DEF o
  <2>5. Desk'
    BY <1>3, <2>1 DEF Desk, store, OwnSessionsOnly
  <2> QED BY <1>1, <2>4, <2>5
<1>6. ASSUME NEW t \in Threads, SetActive(o.id, o.proj, t), Started(h, o.id), UNCHANGED theirs
      PROVE  RouterInv'
  <2>1. op' = [op EXCEPT ![h] = Idle] /\ started' = [started EXCEPT ![op[h].id] = @ + 1] /\ spent' = spent
    BY <1>6 DEF Started, Reply, o
  <2>2. Ledger'
    BY <1>1, <2>1, Settled DEF o
  <2> QED BY <1>1, <1>2, <1>6, <2>2, Pointing
<1>7. CASE FirstTurnStarted(h)
  <2>1. SetActive(o.id, o.proj, o.thr) /\ Started(h, o.id) /\ UNCHANGED theirs /\ o.at = "first"
    BY <1>7 DEF FirstTurnStarted, o
  <2> QED BY <1>2, <1>6, <2>1
<1>8. ASSUME NEW t \in Threads, CliRan(h, t) PROVE RouterInv'
  <2>1. SetActive(o.id, o.proj, t) /\ Started(h, o.id) /\ UNCHANGED theirs
    BY <1>8 DEF CliRan, o
  <2> QED BY <1>6, <2>1
<1>9. CASE TurnStarted(h)
  <2>1. /\ op' = [op EXCEPT ![h] = Idle] /\ started' = [started EXCEPT ![op[h].id] = @ + 1]
        /\ spent' = spent /\ UNCHANGED <<theirs, store>>
    BY <1>9 DEF TurnStarted, Started, Reply
  <2>2. Ledger'
    BY <1>1, <2>1, Settled DEF o
  <2> QED BY <1>1, <1>3, <2>1, <2>2, SameSessions
<1> QED BY <1>4, <1>5, <1>7, <1>8, <1>9 DEF TurnStep

\* An await that fails gives back what its turn has reserved.
LEMMA FailKeeps ==
    ASSUME RouterInv, NEW h \in Handlers, Fails(h)
    PROVE  RouterInv'
<1> USE DEF RouterInv
<1>1. /\ op' = [op EXCEPT ![h] = Idle] /\ started' = started /\ op[h].id \in Ids
      /\ UNCHANGED <<auth, theirs, store, cur>>
  BY DEF Fails, Reply, menu, Ledger, Sound
<1>2. Sound(Idle) /\ Idle.at \notin Paid
  BY DEF Sound, Idle, Ops, Stages, Paid
<1>3. cur' \in [Ids -> Projects \cup {None}]
  BY <1>1 DEF Desk
<1>4. Ledger'
  <2>1. ASSUME op[h].at \in Paid PROVE Ledger'
    BY <1>1, <2>1, Settled DEF Fails, RefundTurnStart
  <2>2. ASSUME op[h].at \notin Paid PROVE Ledger'
    BY <1>1, <1>2, <2>2, Unpaid DEF Fails, quota
  <2> QED BY <2>1, <2>2
<1> QED BY <1>1, <1>3, <1>4, SameSessions

\* With no handler at work nothing is owed.
LEMMA NothingOwed ==
    ASSUME \A h \in Handlers : op[h] = Idle, \A id \in Ids : spent[id] = 0 /\ started[id] = 0
    PROVE  QuotaExact
<1>1. \A id \in Ids : InPaid(id) = {}
  BY DEF InPaid, Live, Idle, Paid
<1> QED BY <1>1, FS_EmptySet DEF QuotaExact

LEMMA InitHolds == Init => RouterInv
<1> SUFFICES ASSUME Init PROVE RouterInv
  OBVIOUS
<1>1. op \in [Handlers -> Ops] /\ \A h \in Handlers : op[h] = Idle /\ Sound(op[h])
  BY DEF Init, Idle, Sound, Ops, Stages
<1>2. Ledger
  BY <1>1, NothingOwed, QuotaAssumption DEF Init, Ledger
<1>3. Desk
  BY DEF Init, Desk, OwnSessionsOnly
<1> QED BY <1>2, <1>3 DEF Init, RouterInv

\* What happens around the router.
Around ==
    \/ Toggle \/ Restart \/ \E l \in Lists : Discover(l)
    \/ \E id \in Ids : Stranger(id) \/ Confirm(id) \/ RemoveIdentity(id)

LEMMA AroundKeeps == ASSUME RouterInv, Around PROVE RouterInv'
<1> USE DEF RouterInv
<1>1. /\ auth' \subseteq Ids /\ UNCHANGED <<theirs, store, cur>>
  <2>1. CASE Toggle \/ Restart \/ \E l \in Lists : Discover(l)
    BY <2>1 DEF Toggle, Restart, Discover, people, menu
  <2>2. ASSUME NEW id \in Ids, Stranger(id) \/ Confirm(id) \/ RemoveIdentity(id)
        PROVE  auth' \subseteq Ids /\ UNCHANGED <<theirs, store, cur>>
    BY <2>2 DEF Stranger, Confirm, RemoveIdentity, menu
  <2> QED BY <2>1, <2>2 DEF Around
<1>2. ASSUME Restart PROVE Ledger'
  <2>1. /\ op' = [h \in Handlers |-> Idle]
        /\ spent' = [i \in Ids |-> 0] /\ started' = [i \in Ids |-> 0]
    BY <1>2 DEF Restart
  <2>2. op' \in [Handlers -> Ops] /\ \A h \in Handlers : op'[h] = Idle /\ Sound(op'[h])
    BY <2>1 DEF Idle, Sound, Ops, Stages
  <2>3. \A id \in Ids : InPaid(id)' = {}
    BY <2>1 DEF InPaid, Live, Idle, Paid
  <2>4. QuotaExact'
    BY <2>1, <2>3, FS_EmptySet DEF QuotaExact
  <2> QED BY <2>1, <2>2, <2>4, QuotaAssumption DEF Ledger, Sound
<1>3. ASSUME ~Restart PROVE Ledger'
  <2>1. UNCHANGED <<quota, op>>
    BY <1>3 DEF Around, Toggle, Discover, Stranger, Confirm, RemoveIdentity
  <2> QED BY <2>1 DEF Ledger, quota, QuotaExact, InPaid, Live, Sound
<1>4. cur' \in [Ids -> Projects \cup {None}]
  BY <1>1 DEF Desk
<1> QED BY <1>1, <1>2, <1>3, <1>4, SameSessions

LEMMA StepKeeps == RouterInv /\ [Next]_vars => RouterInv'
<1> SUFFICES ASSUME RouterInv, [Next]_vars PROVE RouterInv'
  OBVIOUS
<1>1. CASE Around
  BY <1>1, AroundKeeps
<1>2. ASSUME NEW h \in Handlers, NEW id \in Ids,
             MessageOutside(h, id) \/ NewSession(h, id) \/ Send(h, id)
      PROVE  RouterInv'
  BY <1>2, MessageKeeps, PayingKeeps
<1>3. ASSUME NEW h \in Handlers, Answered(h) \/ TurnStep(h) \/ Fails(h) PROVE RouterInv'
  BY <1>3, AnswerKeeps, TurnKeeps, FailKeeps
<1>4. CASE UNCHANGED vars
  BY <1>4 DEF vars, people, lists, menu, store, quota, RouterInv, Ledger, Desk, Sound,
              QuotaExact, InPaid, Live, OwnSessionsOnly
<1> QED BY <1>1, <1>2, <1>3, <1>4 DEF Next, Around, MessageOutside, Answered, TurnStep

-------------------------------------------------------------------------------
LEMMA Invariant == Spec => []RouterInv
BY InitHolds, StepKeeps, PTL DEF Spec

\* However handlers of an identity overlap and whichever of their awaits fail,
\* it has spent one turn for each turn it was told was started and for each one
\* on its way (enforceTurnRate, refundTurnStart).
THEOREM QuotaStaysExact == Spec => []QuotaExact
<1>1. RouterInv => QuotaExact
  BY DEF RouterInv, Ledger
<1> QED BY <1>1, Invariant, PTL

\* What an identity's texts go to is a session it chose or created, whoever
\* else chooses or creates sessions in the same project meanwhile.
THEOREM SessionsAreOwn == Spec => []OwnSessionsOnly
<1>1. RouterInv => OwnSessionsOnly
  BY DEF RouterInv, Desk
<1> QED BY <1>1, Invariant, PTL

-------------------------------------------------------------------------------
(***************************************************************************)
(* Lists without repetitions.                                              *)
(***************************************************************************)
\* A set of positions is finite.
LEMMA Positions ==
    ASSUME NEW len \in Nat, NEW keep, keep \subseteq 1..len
    PROVE  IsFiniteSet(keep) /\ Cardinality(keep) \in Nat
<1>1. IsFiniteSet(1..len)
  BY FS_Interval
<1> QED BY <1>1, FS_Subset, FS_CardinalityType

\* The nth element of a set of positions is the least position up to which
\* the set has n elements.
LEMMA NthExists ==
    ASSUME NEW len \in Nat, NEW keep, keep \subseteq 1..len, NEW n \in 1..Cardinality(keep)
    PROVE  \E i \in keep : Cardinality(keep \cap 1..i) = n
<1> DEFINE Upto(i) == keep \cap 1..i
           Reach == {i \in Nat : n <= Cardinality(Upto(i))}
<1>1. \A i \in Nat : IsFiniteSet(Upto(i)) /\ Cardinality(Upto(i)) \in Nat
  BY Positions
<1>2. Cardinality(keep) \in Nat /\ n \in Nat \ {0} /\ n <= Cardinality(keep)
  <2>1. Cardinality(keep) \in Nat
    BY Positions
  <2> QED BY <2>1
<1>3. Upto(0) = {} /\ Upto(len) = keep
  <2>1. 1..0 = {}
    OBVIOUS
  <2>2. keep \cap {} = {} /\ keep \cap 1..len = keep
    OBVIOUS
  <2> QED BY <2>1, <2>2
<1>4. \A i \in Nat \ {0} :
          IF i \in keep THEN Upto(i) = Upto(i - 1) \cup {i} /\ i \notin Upto(i - 1)
                        ELSE Upto(i) = Upto(i - 1)
  OBVIOUS
<1> HIDE DEF Upto
<1>5. len \in Reach /\ 0 \notin Reach
  BY <1>2, <1>3, FS_EmptySet
<1>6. PICK i \in Reach : \A j \in Reach : ~ (<<j, i>> \in OpToRel(<, Nat))
  <2>1. Reach \subseteq Nat /\ Reach # {}
    BY <1>5
  <2> QED BY <2>1, WFMin, NatLessThanWellFounded
<1>7. i \in Nat \ {0} /\ n <= Cardinality(Upto(i))
  BY <1>5
<1>8. i - 1 \in Nat /\ Cardinality(Upto(i - 1)) < n
  <2>1. i - 1 \in Nat /\ i - 1 < i
    BY <1>7
  <2>2. i - 1 \notin Reach
    BY <1>6, <1>7, <2>1 DEF OpToRel
  <2> QED BY <1>1, <1>2, <2>1, <2>2
<1>9. i \in keep
  BY <1>1, <1>2, <1>4, <1>7, <1>8
<1>10. Cardinality(Upto(i)) = Cardinality(Upto(i - 1)) + 1
  BY <1>1, <1>4, <1>7, <1>8, <1>9, FS_AddElement
<1>11. Cardinality(Upto(i)) = n
  BY <1>1, <1>2, <1>7, <1>8, <1>10
<1> QED BY <1>9, <1>11 DEF Upto

\* Collapsing a list of projects leaves a list of projects.
LEMMA CollapsedIsList ==
    ASSUME NEW l \in Seq(Projects)
    PROVE  Collapsed(l) \in Seq(Projects)
<1> DEFINE keep == {i \in DOMAIN l : \A j \in 1 .. i - 1 : l[j] # l[i]}
           nth(n) == CHOOSE i \in keep : Cardinality(keep \cap 1..i) = n
<1>1. Len(l) \in Nat /\ keep \subseteq 1..Len(l)
  OBVIOUS
<1>2. \A i \in keep : l[i] \in Projects
  OBVIOUS
<1>3. Collapsed(l) = [n \in 1..Cardinality(keep) |-> l[nth(n)]]
  BY DEF Collapsed, FirstOfEach
<1> HIDE DEF keep
<1>4. Cardinality(keep) \in Nat
  BY <1>1, Positions
<1>5. \A n \in 1..Cardinality(keep) : nth(n) \in keep
  BY <1>1, NthExists
<1> HIDE DEF nth
<1>6. \A n \in 1..Cardinality(keep) : l[nth(n)] \in Projects
  BY <1>2, <1>5
<1>7. PICK c \in Nat : c = Cardinality(keep)
  BY <1>4
<1>8. Collapsed(l) \in [1..c -> Projects]
  BY <1>3, <1>6, <1>7
<1> QED BY <1>8

-------------------------------------------------------------------------------
(***************************************************************************)
(* What an identity is shown, and what its next number means.              *)
(***************************************************************************)
\* The lists of projects.
Catalog ==
    /\ noticed \subseteq Ids /\ desk \in BOOLEAN
    /\ listing \in Listings /\ numberOf \in [Projects -> Nat]
    /\ shown \in [Ids -> Seq([path : Projects, num : Nat])]

\* Unless an identity's messages overlap it has one handler at most, and the
\* picker is armed while that handler waits for the threads to put into it and
\* as long as the identity looks at it.
Armed ==
    \A id \in Ids : ~mixed[id] =>
        /\ \A g, h \in Live(id) : g = h
        /\ \A h \in Live(id) : op[h].at = "threads" => pending[id] = "session"
        /\ face[id] # "none" /\ Live(id) = {} /\ id \notin forgot => pending[id] = face[id]

Talk ==
    /\ pending \in [Ids -> Prompts] /\ owner \in [Threads -> Ids \cup {None}]
    /\ face \in [Ids -> Pickers] /\ mixed \in [Ids -> BOOLEAN]
    /\ Armed

\* A step of handler h, on behalf of id, that leaves the record n: it arms the
\* picker before it waits for the threads and before it shows it.
Talks(h, id, n) ==
    /\ op' = [op EXCEPT ![h] = n] /\ n.id \in {id, None}
    /\ pending' \in [Ids -> Prompts] /\ face' \in [Ids -> Pickers]
    /\ \A i \in Ids \ {id} :
          pending'[i] = pending[i] /\ face'[i] = face[i] /\ (i \in forgot' <=> i \in forgot)
    /\ ~mixed'[id] =>
        /\ n.id = id /\ n.at = "threads" => pending'[id] = "session"
        /\ n.id = None /\ face'[id] # "none" => pending'[id] = face'[id]
Talking(h, id) == \E n : Talks(h, id, n)

\* The handler takes up a message of id, or works on one already.
Speaks(h, id) ==
    \/ op[h] = Idle /\ mixed' = [mixed EXCEPT ![id] = Live(id) # {}]
    \/ op[h].id = id /\ mixed' = mixed

LEMMA TalkingKeeps ==
    ASSUME Ledger, Talk, NEW h \in Handlers, NEW id \in Ids, Talking(h, id), Speaks(h, id),
           owner' \in [Threads -> Ids \cup {None}]
    PROVE  Talk'
<1> PICK n : Talks(h, id, n)
  BY DEF Talking
<1>1. \A g \in Handlers : op'[g] = IF g = h THEN n ELSE op[g]
  BY DEF Talks, Ledger
<1>2. op[h].id \in {id, None} /\ None \notin Ids
  BY NoneAssumption DEF Speaks, Idle
<1>3. mixed' \in [Ids -> BOOLEAN] /\ \A i \in Ids \ {id} : mixed'[i] = mixed[i]
  BY DEF Speaks, Talk
<1>4. ASSUME NEW i \in Ids \ {id}, ~mixed'[i]
      PROVE  /\ \A f, g \in Live(i)' : f = g
             /\ \A g \in Live(i)' : op'[g].at = "threads" => pending'[i] = "session"
             /\ face'[i] # "none" /\ Live(i)' = {} /\ i \notin forgot' => pending'[i] = face'[i]
  <2>1. Live(i)' = Live(i) /\ \A g \in Live(i) : op'[g] = op[g]
    BY <1>1, <1>2 DEF Live, Talks
  <2>2. pending'[i] = pending[i] /\ face'[i] = face[i] /\ ~mixed[i] /\ (i \in forgot' <=> i \in forgot)
    BY <1>3, <1>4 DEF Talks
  <2> QED BY <2>1, <2>2 DEF Talk, Armed
<1>5. ASSUME ~mixed'[id]
      PROVE  /\ \A f, g \in Live(id)' : f = g
             /\ \A g \in Live(id)' : op'[g].at = "threads" => pending'[id] = "session"
             /\ face'[id] # "none" /\ Live(id)' = {} /\ id \notin forgot' => pending'[id] = face'[id]
  <2>1. Live(id) \subseteq {h}
    <3>1. CASE op[h] = Idle /\ mixed' = [mixed EXCEPT ![id] = Live(id) # {}]
      BY <1>5, <3>1 DEF Talk
    <3>2. CASE op[h].id = id /\ mixed' = mixed
      BY <1>5, <3>2 DEF Talk, Armed, Live
    <3> QED BY <3>1, <3>2 DEF Speaks
  <2>2. Live(id)' = IF n.id = id THEN {h} ELSE {}
    BY <1>1, <2>1 DEF Live
  <2>3. \A g \in Live(id)' : g = h /\ n.id = id /\ op'[g] = n
    BY <1>1, <2>2
  <2>4. Live(id)' = {} => n.id = None
    BY <2>2 DEF Talks
  <2> QED BY <1>5, <2>3, <2>4 DEF Talks
<1>6. Armed'
  BY <1>4, <1>5 DEF Armed
<1> QED BY <1>3, <1>6 DEF Talk, Talks

\* The prompt of an identity is set or left alone.
Prompting(id) == UNCHANGED pending \/ \E q \in Prompts : SetPending(id, q)

LEMMA PromptTypes ==
    ASSUME Talk, NEW id \in Ids, Prompting(id)
    PROVE  /\ pending' \in [Ids -> Prompts]
           /\ \A i \in Ids \ {id} : pending'[i] = pending[i]
BY DEF Talk, Prompting, SetPending

LEMMA Replying ==
    ASSUME Talk, NEW h \in Handlers, NEW id \in Ids, Prompting(id), NEW b \in Pickers,
           Reply(h, id, b), b # "none" /\ ~mixed'[id] => pending'[id] = b
    PROVE  Talking(h, id)
<1>1. /\ op' = [op EXCEPT ![h] = Idle] /\ face' = [face EXCEPT ![id] = b]
      /\ forgot' = forgot \ {id}
  BY DEF Reply
<1>2. /\ face' \in [Ids -> Pickers] /\ face'[id] = b
      /\ \A i \in Ids \ {id} : face'[i] = face[i] /\ (i \in forgot' <=> i \in forgot)
  BY <1>1 DEF Talk
<1>3. Idle.id = None /\ Idle.at # "threads"
  BY DEF Idle
<1>4. Talks(h, id, Idle)
  BY <1>1, <1>2, <1>3, PromptTypes DEF Talks
<1> QED BY <1>4 DEF Talking

LEMMA Awaiting ==
    ASSUME Talk, NEW h \in Handlers, NEW id \in Ids, Prompting(id), NEW at, NEW p, NEW t,
           Await(h, id, at, p, t), at = "threads" => pending'[id] = "session"
    PROVE  Talking(h, id)
<1> DEFINE n == [at |-> at, id |-> id, proj |-> p, thr |-> t]
<1>1. op' = [op EXCEPT ![h] = n] /\ face' = face /\ forgot' = forgot
  BY DEF Await, screen
<1>2. face' \in [Ids -> Pickers]
  BY <1>1 DEF Talk
<1>3. n.id = id /\ n.at = at
  OBVIOUS
<1> HIDE DEF n
<1>4. Talks(h, id, n)
  BY <1>1, <1>2, <1>3, PromptTypes, NoneAssumption DEF Talks
<1> QED BY <1>4 DEF Talking

LEMMA Proceeding ==
    ASSUME Ledger, Talk, NEW h \in Handlers, op[h].id \in Ids, NEW at, NEW t, at # "threads",
           Proceed(h, at, t), UNCHANGED <<pending, screen>>
    PROVE  Talking(h, op[h].id)
<1> DEFINE n == [[op[h] EXCEPT !.at = at] EXCEPT !.thr = t]
<1>0. op \in [Handlers -> Ops] /\ op[h] \in Ops
  BY DEF Ledger
<1>1. op' = [op EXCEPT ![h] = n]
  BY <1>0 DEF Proceed
<1>2. n.id = op[h].id /\ n.at = at
  BY <1>0 DEF Ops
<1>3. op[h].id # None
  BY NoneAssumption
<1> HIDE DEF n
<1>4. Talks(h, op[h].id, n)
  BY <1>1, <1>2, <1>3 DEF Talks, Talk, screen
<1> QED BY <1>4 DEF Talking

\* What a step leaves of the talk with everyone else's identity.
Quiet == UNCHANGED <<pending, owner, screen, mixed, op>>

LEMMA QuietKeeps == ASSUME Talk, Quiet PROVE Talk'
BY DEF Talk, Quiet, Armed, Live, screen

LEMMA GivesUp ==
    ASSUME NEW id \in Ids, UNCHANGED pending \/ GiveUpPicker(id)
    PROVE  Prompting(id)
BY DEF GiveUpPicker, Prompting, Prompts

LEMMA Sets ==
    ASSUME NEW id \in Ids, NEW q \in Prompts, SetPending(id, q)
    PROVE  Prompting(id)
BY DEF Prompting

LEMMA Arms ==
    ASSUME Talk, NEW id \in Ids, NEW q \in {"project", "session"}, SetPending(id, q)
    PROVE  Prompting(id) /\ pending'[id] = q
BY DEF Talk, SetPending, Prompting, Prompts

LEMMA ShowsTalking ==
    ASSUME Talk, NEW h \in Handlers, NEW id \in Ids, NEW p, ShowSessions(h, id, p)
    PROVE  Talking(h, id)
<1>1. Prompting(id) /\ pending'[id] = "session"
  BY Arms DEF ShowSessions
<1>2. CASE desk
  BY <1>1, <1>2, Awaiting DEF ShowSessions
<1>3. CASE ~desk
  BY <1>1, <1>3, Replying DEF ShowSessions, Pickers
<1> QED BY <1>2, <1>3

LEMMA StoredTalking ==
    ASSUME Talk, NEW h \in Handlers, NEW id \in Ids, NEW p, UseStored(h, id, p)
    PROVE  Talking(h, id)
<1>1. Reply(h, id, "none") /\ Prompting(id)
  <2>1. SetPending(id, "none") => Prompting(id)
    BY Sets DEF Prompts
  <2> QED BY <2>1 DEF UseStored, Prompting
<1> QED BY <1>1, Replying DEF Pickers

\* A message taken up.
Message(h, id) == MessageOutside(h, id) \/ NewSession(h, id) \/ Send(h, id)

LEMMA MessageTalks ==
    ASSUME Ledger, Talk, NEW h \in Handlers, NEW id \in Ids, Message(h, id)
    PROVE  Talk'
<1>1. Ask(h, id) /\ owner' \in [Threads -> Ids \cup {None}]
  <2>1. CASE AskProjects(h, id)
    BY <2>1 DEF AskProjects, Talk
  <2>2. CASE Use(h, id)
    BY <2>2 DEF Use, Talk
  <2>3. CASE \E p \in Projects : Open(h, id, p)
    BY <2>3 DEF Open, Talk
  <2>4. CASE Cancel(h, id)
    BY <2>4 DEF Cancel, Talk
  <2>5. CASE Send(h, id)
    <3>1. PICK t : owner' = [owner EXCEPT ![t] = id]
      BY <2>5 DEF Send, Bind
    <3> QED BY <2>5, <3>1 DEF Send, Talk
  <2>6. CASE NewSession(h, id)
    BY <2>6 DEF NewSession, Talk
  <2>7. CASE AskSessions(h, id) \/ AskFirstMessage(h, id)
    BY <2>7 DEF AskSessions, AskFirstMessage, Talk
  <2>8. CASE MissPicker(h, id) \/ TextWithoutSession(h, id) \/ AnswerOnly(h, id)
    BY <2>8 DEF MissPicker, TextWithoutSession, AnswerOnly, Talk
  <2> QED BY <2>1, <2>2, <2>3, <2>4, <2>5, <2>6, <2>7, <2>8 DEF Message, MessageOutside, Choose
<1>2. Speaks(h, id)
  BY <1>1 DEF Ask, Speaks
<1>3. Talking(h, id)
  <2>1. CASE AskProjects(h, id)
    <3>1. CASE desk
      <4>1. Await(h, id, "projects", None, None) /\ (UNCHANGED pending \/ GiveUpPicker(id))
        BY <2>1, <3>1 DEF AskProjects
      <4>2. Prompting(id)
        BY <4>1, GivesUp
      <4> QED BY <4>1, <4>2, Awaiting
    <3>2. CASE ~desk
      <4>1. PICK l : /\ Reply(h, id, IF l = <<>> THEN "none" ELSE "project")
                     /\ IF l = <<>> THEN UNCHANGED pending \/ GiveUpPicker(id)
                                    ELSE SetPending(id, "project")
        <5>1. PICK l \in IF listing = <<>> THEN Answers ELSE {listing} :
                     /\ Reply(h, id, IF l = <<>> THEN "none" ELSE "project")
                     /\ IF l = <<>> THEN UNCHANGED shown /\ (UNCHANGED pending \/ GiveUpPicker(id))
                        ELSE /\ shown' = [shown EXCEPT ![id] = Printed(l, TRUE)]
                             /\ SetPending(id, "project")
          BY <2>1, <3>2, Zenon DEF AskProjects
        <5> QED BY <5>1, Zenon
      <4>2. CASE l = <<>>
        <5>1. Reply(h, id, "none") /\ Prompting(id)
          BY <4>1, <4>2, GivesUp
        <5> QED BY <5>1, Replying DEF Pickers
      <4>3. CASE l # <<>>
        <5>1. Reply(h, id, "project") /\ Prompting(id) /\ pending'[id] = "project"
          BY <4>1, <4>3, Arms
        <5> QED BY <5>1, Replying DEF Pickers
      <4> QED BY <4>2, <4>3
    <3> QED BY <3>1, <3>2
  <2>2. CASE Use(h, id)
    <3>1. CASE desk
      <4>1. Await(h, id, "use", cur[id], None) /\ Prompting(id)
        BY <2>2, <3>1 DEF Use, Prompting
      <4> QED BY <4>1, Awaiting
    <3>2. CASE ~desk
      BY <2>2, <3>2, StoredTalking DEF Use
    <3> QED BY <3>1, <3>2
  <2>3. CASE \E p \in Projects : Open(h, id, p)
    BY <2>3, ShowsTalking DEF Open
  <2>4. CASE Cancel(h, id)
    <3>1. CASE pending[id] \in Picking
      <4>1. SetPending(id, "none") /\ Reply(h, id, "none")
        BY <2>4, <3>1 DEF Cancel
      <4> QED BY <4>1, Sets, Replying DEF Prompts, Pickers
    <3>2. CASE pending[id] \notin Picking
      <4>1. Await(h, id, "cancel", cur[id], active[id][cur[id]]) /\ Prompting(id)
        BY <2>4, <3>2 DEF Cancel, Prompting
      <4> QED BY <4>1, Awaiting
    <3> QED BY <3>1, <3>2
  <2>5. CASE Send(h, id)
    <3>1. PICK t : Await(h, id, "reopen", cur[id], t) /\ GiveUpPicker(id)
      BY <2>5 DEF Send
    <3>2. Prompting(id)
      BY <3>1, GivesUp
    <3> QED BY <3>1, <3>2, Awaiting
  <2>6. CASE NewSession(h, id)
    <3>1. PICK at \in {"create", "cli"} : Await(h, id, at, cur[id], None)
      BY <2>6 DEF NewSession
    <3>2. Prompting(id)
      BY <2>6 DEF NewSession, menu, Prompting
    <3> QED BY <3>1, <3>2, Awaiting
  <2>7. CASE AskSessions(h, id) \/ TextWithoutSession(h, id)
    <3>1. ShowSessions(h, id, cur[id])
      BY <2>7 DEF AskSessions, TextWithoutSession
    <3> QED BY <3>1, ShowsTalking
  <2>8. CASE AskFirstMessage(h, id)
    <3>1. SetPending(id, "first") /\ Reply(h, id, "none")
      BY <2>8 DEF AskFirstMessage
    <3> QED BY <3>1, Sets, Replying DEF Prompts, Pickers
  <2>9. CASE MissPicker(h, id)
    <3>1. PICK q \in {"projectAgain", "sessionAgain"} : SetPending(id, q) /\ Reply(h, id, "none")
      BY <2>9 DEF MissPicker
    <3> QED BY <3>1, Sets, Replying DEF Prompts, Pickers
  <2>10. CASE AnswerOnly(h, id)
    <3>1. Reply(h, id, "none") /\ Prompting(id)
      BY <2>10, GivesUp DEF AnswerOnly
    <3> QED BY <3>1, Replying DEF Pickers
  <2> QED BY <2>1, <2>2, <2>3, <2>4, <2>5, <2>6, <2>7, <2>8, <2>9, <2>10
          DEF Message, MessageOutside, Choose
<1> QED BY <1>1, <1>2, <1>3, TalkingKeeps

\* A handler that goes on after an await.
Resumes(h) == Answered(h) \/ TurnStep(h) \/ Fails(h)

\* A handler that replies without a picker, or with one that is armed.
LEMMA Speaking ==
    ASSUME Ledger, Talk, NEW h \in Handlers, op[h].at # "idle", mixed' = mixed,
           owner' \in [Threads -> Ids \cup {None}], Talking(h, op[h].id)
    PROVE  Talk'
<1>1. op[h].id \in Ids
  BY DEF Ledger, Sound
<1>2. Speaks(h, op[h].id)
  BY DEF Speaks
<1> QED BY <1>1, <1>2, TalkingKeeps

LEMMA ResumeTalks ==
    ASSUME Ledger, Talk, NEW h \in Handlers, Resumes(h)
    PROVE  Talk'
<1> DEFINE id == op[h].id
<1>1. op[h].at # "idle" /\ mixed' = mixed
  BY DEF Resumes, Answered, TurnStep, Fails, ThreadsListed, CancelTurn, Cancelled, UseListed,
         UseResumed, ProjectsListed, FirstTurnStarted, Reopened, ThreadNotFound, TurnStarted,
         ThreadStarted, CliRan
<1>2. id \in Ids
  BY <1>1 DEF Ledger, Sound
<1>3. owner' \in [Threads -> Ids \cup {None}]
  <2>1. CASE UNCHANGED owner
    BY <2>1 DEF Talk
  <2>2. ASSUME NEW t, Bind(id, t) PROVE owner' \in [Threads -> Ids \cup {None}]
    BY <1>2, <2>2 DEF Bind, Talk
  <2> HIDE DEF id
  <2>3. UseResumed(h) => Bind(id, op[h].thr)
    BY DEF UseResumed, id
  <2>4. \A t \in Threads : ThreadStarted(h, t) => Bind(id, t)
    BY DEF ThreadStarted, id
  <2>5. \A t \in Threads : CliRan(h, t) => UNCHANGED owner
    BY DEF CliRan
  <2> QED BY <2>1, <2>2, <2>3, <2>4, <2>5
          DEF Resumes, Answered, TurnStep, Fails, ThreadsListed, CancelTurn, Cancelled, UseListed,
              ProjectsListed, FirstTurnStarted, Reopened, ThreadNotFound, TurnStarted
<1> HIDE DEF id
<1>4. ASSUME Reply(h, id, "none"), Prompting(id) PROVE Talking(h, id)
  BY <1>2, <1>4, Replying DEF Pickers
<1>5. Talking(h, id)
  <2>1. CASE \E l \in Answers : ProjectsListed(h, l)
    <3>1. PICK l : SetPending(id, IF l = <<>> THEN "none" ELSE "project") /\ Reply(h, id, IF l = <<>> THEN "none" ELSE "project")
      BY <2>1 DEF ProjectsListed, id
    <3>2. CASE l = <<>>
      <4>1. SetPending(id, "none") /\ Reply(h, id, "none")
        BY <3>1, <3>2
      <4> QED BY <1>2, <1>4, <4>1, Sets DEF Prompts
    <3>3. CASE l # <<>>
      <4>1. Reply(h, id, "project") /\ Prompting(id) /\ pending'[id] = "project"
        BY <1>2, <3>1, <3>3, Arms
      <4> QED BY <1>2, <4>1, Replying DEF Pickers
    <3> QED BY <3>2, <3>3
  <2>2. CASE ThreadsListed(h)
    <3>1. /\ op[h].at = "threads" /\ op[h].id = id /\ Reply(h, id, "session")
          /\ UNCHANGED pending /\ Prompting(id)
      BY <2>2 DEF ThreadsListed, menu, Prompting, id
    <3>2. ~mixed[id] => pending[id] = "session"
      BY <1>2, <3>1 DEF Talk, Armed, Live
    <3> QED BY <1>1, <1>2, <3>1, <3>2, Replying DEF Pickers
  <2>3. CASE UseListed(h)
    <3>1. CASE UseStored(h, id, op[h].proj)
      BY <1>2, <3>1, StoredTalking
    <3>2. ASSUME NEW t, Proceed(h, "resume", t), UNCHANGED <<pending, screen>> PROVE Talking(h, id)
      BY <1>2, <3>2, Proceeding DEF id
    <3> QED BY <2>3, <3>1, <3>2 DEF UseListed, id
  <2>4. CASE UseResumed(h) \/ FirstTurnStarted(h) \/ \E t \in Threads : CliRan(h, t)
    <3>1. SetPending(id, "none") /\ Reply(h, id, "none")
      BY <2>4 DEF UseResumed, FirstTurnStarted, CliRan, Started, id
    <3> QED BY <1>2, <1>4, <3>1, Sets DEF Prompts
  <2>5. CASE Cancelled(h) \/ TurnStarted(h) \/ Fails(h)
    <3>1. UNCHANGED pending /\ Reply(h, id, "none")
      BY <2>5 DEF Cancelled, TurnStarted, Fails, Started, menu, id
    <3> QED BY <1>4, <3>1 DEF Prompting
  <2>6. CASE Reopened(h) \/ ThreadNotFound(h) \/ CancelTurn(h) \/ \E t \in Threads : ThreadStarted(h, t)
    <3>1. PICK at, t : at \in {"turn", "again", "interrupt", "first"} /\ Proceed(h, at, t)
      BY <2>6 DEF Reopened, ThreadNotFound, CancelTurn, ThreadStarted
    <3>2. UNCHANGED <<pending, screen>>
      BY <2>6 DEF Reopened, ThreadNotFound, CancelTurn, ThreadStarted, menu
    <3> QED BY <1>2, <3>1, <3>2, Proceeding DEF id
  <2> QED BY <2>1, <2>2, <2>3, <2>4, <2>5, <2>6 DEF Resumes, Answered, TurnStep
<1> QED BY <1>1, <1>3, <1>5, Speaking DEF id

LEMMA AroundTalks == ASSUME Talk, Around PROVE Talk'
<1>1. CASE Restart
  <2>1. /\ pending' = [i \in Ids |-> "none"] /\ op' = [h \in Handlers |-> Idle]
        /\ forgot' = {i \in Ids : face[i] # "none"} /\ face' = face /\ owner' = owner /\ mixed' = mixed
    BY <1>1 DEF Restart
  <2>2. \A id \in Ids : Live(id)' = {}
    BY <2>1, NoneAssumption DEF Live, Idle
  <2>3. \A id \in Ids : face'[id] # "none" => id \in forgot'
    BY <2>1
  <2>4. Armed'
    BY <2>2, <2>3 DEF Armed
  <2> QED BY <2>1, <2>4 DEF Talk, Prompts
<1>2. CASE Toggle \/ \E l \in Lists : Discover(l)
  <2>1. Quiet
    BY <1>2 DEF Toggle, Discover, Quiet, menu
  <2> QED BY <2>1, QuietKeeps
<1>3. CASE \E id \in Ids : Stranger(id) \/ Confirm(id) \/ RemoveIdentity(id)
  <2>1. Quiet
    BY <1>3 DEF Stranger, Confirm, RemoveIdentity, Quiet, menu
  <2> QED BY <2>1, QuietKeeps
<1> QED BY <1>1, <1>2, <1>3 DEF Around

-------------------------------------------------------------------------------
(***************************************************************************)
(* The project lists.                                                      *)
(***************************************************************************)
LEMMA ListingIsList == ASSUME NEW l \in Listings PROVE l \in Seq(Projects)
<1>1. \A k \in Lists : Collapsed(k) \in Seq(Projects)
  BY ListsAssumption, CollapsedIsList
<1>2. <<>> \in Seq(Projects)
  OBVIOUS
<1> QED BY <1>1, <1>2 DEF Listings

\* A path keeps its number or gets the next ones.
LEMMA Replacing ==
    ASSUME Catalog, NEW l \in Lists, ReplaceProjects(l)
    PROVE  listing' \in Listings /\ numberOf' \in [Projects -> Nat]
<1>1. Highest \in Nat
  BY ListsAssumption, FS_Subset, FS_CardinalityType DEF Highest
<1>2. \A p \in Projects :
          Cardinality({r \in NewPaths(l) : Place(l, r) <= Place(l, p)}) \in Nat
  <2>1. NewPaths(l) \subseteq Projects
    BY ListsAssumption DEF NewPaths, ToSet
  <2>2. \A p \in Projects : {r \in NewPaths(l) : Place(l, r) <= Place(l, p)} \subseteq Projects
    BY <2>1
  <2> QED BY <2>2, ListsAssumption, FS_Subset, FS_CardinalityType
<1>3. numberOf' \in [Projects -> Nat]
  <2> DEFINE Count(p) == Cardinality({r \in NewPaths(l) : Place(l, r) <= Place(l, p)})
  <2>1. numberOf' = [p \in Projects |->
                       IF p \in NewPaths(l) THEN Highest + Count(p) ELSE numberOf[p]]
    BY DEF ReplaceProjects
  <2>2. \A p \in Projects : Count(p) \in Nat
    BY <1>2
  <2> HIDE DEF Count
  <2> QED BY <1>1, <2>1, <2>2 DEF Catalog
<1> QED BY <1>3 DEF ReplaceProjects, Listings

\* What is printed is a list of paths with their numbers.
LEMMA PrintedList ==
    ASSUME NEW l \in Seq(Projects), numberOf' \in [Projects -> Nat], NEW fromStore \in BOOLEAN
    PROVE  Printed(l, fromStore) \in Seq([path : Projects, num : Nat])
<1> DEFINE e(i) == [path |-> l[i], num |-> IF fromStore THEN numberOf'[l[i]] ELSE i]
<1>1. Len(l) \in Nat /\ DOMAIN l = 1..Len(l) /\ \A i \in 1..Len(l) : l[i] \in Projects
  OBVIOUS
<1>2. \A i \in 1..Len(l) : e(i) \in [path : Projects, num : Nat]
  BY <1>1
<1>3. Printed(l, fromStore) = [i \in 1..Len(l) |-> e(i)]
  BY <1>1 DEF Printed
<1> HIDE DEF e
<1> QED BY <1>1, <1>2, <1>3

LEMMA EntriesOf ==
    ASSUME NEW S, NEW s \in Seq(S)
    PROVE  \A i \in DOMAIN s : s[i] \in S
OBVIOUS

LEMMA Showing ==
    ASSUME Catalog, NEW id \in Ids, NEW l \in Seq([path : Projects, num : Nat]),
           shown' = [shown EXCEPT ![id] = l]
    PROVE  shown' \in [Ids -> Seq([path : Projects, num : Nat])]
BY DEF Catalog

LEMMA CatalogKeeps ==
    ASSUME Catalog, [Next]_vars
    PROVE  Catalog'
<1> DEFINE Same == UNCHANGED <<noticed, desk, lists, shown>>
<1>1. ASSUME Same PROVE Catalog'
  BY <1>1 DEF Catalog, lists
<1>2. CASE Toggle \/ Restart
  <2>1. noticed' = noticed /\ desk' \in BOOLEAN
    BY <1>2 DEF Toggle, Restart, people, Catalog
  <2>2. listing' \in Listings /\ numberOf' \in [Projects -> Nat]
    BY <1>2 DEF Toggle, Restart, lists, Catalog, Listings
  <2>3. shown' \in [Ids -> Seq([path : Projects, num : Nat])]
    <3>1. <<>> \in Seq([path : Projects, num : Nat])
      OBVIOUS
    <3>2. shown' = shown \/ shown' = [i \in Ids |-> <<>>]
      BY <1>2 DEF Toggle, Restart, menu
    <3> QED BY <3>1, <3>2 DEF Catalog
  <2> QED BY <2>1, <2>2, <2>3 DEF Catalog
<1>3. ASSUME NEW l \in Lists, Discover(l) PROVE Catalog'
  BY <1>3, Replacing DEF Discover, Catalog, people, menu
<1>4. ASSUME NEW id \in Ids, Stranger(id) \/ Confirm(id) \/ RemoveIdentity(id) PROVE Catalog'
  BY <1>4 DEF Stranger, Confirm, RemoveIdentity, Catalog, lists, menu
<1>5. ASSUME NEW h \in Handlers, NEW l \in Answers, ProjectsListed(h, l) PROVE Catalog'
  <2> DEFINE s == [i \in DOMAIN l |-> [path |-> l[i], num |-> i]]
  <2>1. l \in Seq(Projects)
    <3>1. <<>> \in Seq(Projects)
      OBVIOUS
    <3> QED BY <3>1, ListsAssumption DEF Answers
  <2>2. s \in Seq([path : Projects, num : Nat])
    <3>1. Len(l) \in Nat /\ DOMAIN l = 1..Len(l) /\ \A i \in 1..Len(l) : l[i] \in Projects
      BY <2>1
    <3> QED BY <3>1
  <2>3. shown' = [shown EXCEPT ![op[h].id] = s] /\ UNCHANGED <<noticed, desk, lists>>
    BY <1>5 DEF ProjectsListed
  <2> HIDE DEF s
  <2> QED BY <2>2, <2>3 DEF Catalog, lists
<1>6. ASSUME NEW h \in Handlers, NEW id \in Ids, AskProjects(h, id) PROVE Catalog'
  <2>1. UNCHANGED <<noticed, desk>>
    BY <1>6 DEF AskProjects, Ask
  <2>2. CASE desk
    BY <1>1, <1>6, <2>1, <2>2 DEF AskProjects
  <2>3. CASE ~desk
    <3>1. PICK l \in IF listing = <<>> THEN Answers ELSE {listing} :
                 /\ IF listing = <<>> /\ l # <<>> THEN ReplaceProjects(l) ELSE UNCHANGED lists
                 /\ IF l = <<>> THEN UNCHANGED shown /\ (UNCHANGED pending \/ GiveUpPicker(id))
                    ELSE /\ shown' = [shown EXCEPT ![id] = Printed(l, TRUE)]
                         /\ SetPending(id, "project")
      BY <1>6, <2>3, Zenon DEF AskProjects
    <3>2. l \in Seq(Projects) /\ (listing = <<>> /\ l # <<>> => l \in Lists)
      BY ListsAssumption, ListingIsList DEF Catalog, Answers
    <3>3. listing' \in Listings /\ numberOf' \in [Projects -> Nat]
      <4>1. ASSUME listing = <<>> /\ l # <<>> PROVE listing' \in Listings /\ numberOf' \in [Projects -> Nat]
        BY <3>1, <3>2, <4>1, Replacing
      <4>2. ASSUME ~(listing = <<>> /\ l # <<>>) PROVE UNCHANGED lists
        BY <3>1, <4>2
      <4> QED BY <4>1, <4>2 DEF Catalog, lists
    <3>4. shown' \in [Ids -> Seq([path : Projects, num : Nat])]
      <4>1. Printed(l, TRUE) \in Seq([path : Projects, num : Nat])
        BY <3>2, <3>3, PrintedList
      <4> QED BY <3>1, <4>1, Showing DEF Catalog
    <3> QED BY <2>1, <3>3, <3>4 DEF Catalog
  <2> QED BY <2>2, <2>3
<1>7. ASSUME NEW h \in Handlers, NEW id \in Ids,
             \/ AskSessions(h, id) \/ AskFirstMessage(h, id) \/ Choose(h, id)
             \/ NewSession(h, id) \/ MissPicker(h, id) \/ TextWithoutSession(h, id)
             \/ Send(h, id) \/ Cancel(h, id) \/ AnswerOnly(h, id)
      PROVE  Same
  BY <1>7 DEF AskSessions, AskFirstMessage, Choose, Use, Open, NewSession, MissPicker,
              TextWithoutSession, Send, Cancel, AnswerOnly, Ask, menu
<1>8. ASSUME NEW h \in Handlers,
             \/ ThreadsListed(h) \/ UseListed(h) \/ UseResumed(h) \/ FirstTurnStarted(h)
             \/ Reopened(h) \/ ThreadNotFound(h) \/ TurnStarted(h) \/ CancelTurn(h)
             \/ Cancelled(h) \/ Fails(h) \/ \E t \in Threads : ThreadStarted(h, t) \/ CliRan(h, t)
      PROVE  Same
  BY <1>8 DEF ThreadsListed, UseListed, UseResumed, FirstTurnStarted, Reopened, ThreadNotFound,
              TurnStarted, CancelTurn, Cancelled, Fails, ThreadStarted, CliRan, people, menu
<1>9. CASE UNCHANGED vars
  BY <1>1, <1>9 DEF vars, people, menu
<1> HIDE DEF Same
<1> QED BY <1>1, <1>2, <1>3, <1>4, <1>5, <1>6, <1>7, <1>8, <1>9 DEF Next

-------------------------------------------------------------------------------
(***************************************************************************)
(* The list a number is looked up in.                                      *)
(***************************************************************************)
\* Whoever was shown projects last has the list of them.
HasList == \A id \in Ids : face[id] = "project" /\ id \notin forgot => shown[id] # <<>>

\* A step that leaves the lists alone shows no projects.
Discreet ==
    /\ UNCHANGED shown
    /\ \/ UNCHANGED screen
       \/ \E h \in Handlers, id \in Ids, b \in {"none", "session"} : Reply(h, id, b)

LEMMA DiscreetKeeps == ASSUME Talk, HasList, Discreet PROVE HasList'
<1>1. CASE UNCHANGED screen
  BY <1>1 DEF Discreet, HasList, screen
<1>2. ASSUME NEW h \in Handlers, NEW id \in Ids, NEW b \in {"none", "session"}, Reply(h, id, b)
      PROVE  HasList'
  <2>1. \A i \in Ids : face'[i] = IF i = id THEN b ELSE face[i]
    BY <1>2 DEF Reply, Talk
  <2>2. \A i \in Ids \ {id} : i \in forgot' <=> i \in forgot
    BY <1>2 DEF Reply
  <2> QED BY <2>1, <2>2 DEF Discreet, HasList
<1> QED BY <1>1, <1>2 DEF Discreet

\* Projects are printed together with the list of an identity, or not at all.
LEMMA PrintsKeeps ==
    ASSUME Talk, HasList, Catalog, NEW h \in Handlers, NEW id \in Ids, NEW b \in Pickers, NEW s,
           shown' = [shown EXCEPT ![id] = s], Reply(h, id, b), b = "project" => s # <<>>
    PROVE  HasList'
<1>1. \A i \in Ids : face'[i] = IF i = id THEN b ELSE face[i]
  BY DEF Reply, Talk
<1>2. \A i \in Ids \ {id} : i \in forgot' <=> i \in forgot
  BY DEF Reply
<1>3. \A i \in Ids : shown'[i] = IF i = id THEN s ELSE shown[i]
  BY DEF Catalog
<1> QED BY <1>1, <1>2, <1>3 DEF HasList

LEMMA ShowsDiscreetly ==
    ASSUME NEW h \in Handlers, NEW id \in Ids, NEW p, ShowSessions(h, id, p), UNCHANGED shown
    PROVE  Discreet
BY DEF ShowSessions, Await, Discreet

LEMMA StoredDiscreetly ==
    ASSUME NEW h \in Handlers, NEW id \in Ids, NEW p, UseStored(h, id, p), UNCHANGED shown
    PROVE  Discreet
<1>1. Reply(h, id, "none")
  BY DEF UseStored
<1> QED BY <1>1 DEF Discreet

LEMMA HasListKeeps ==
    ASSUME Ledger, Talk, Catalog, HasList, [Next]_vars
    PROVE  HasList'
<1>1. ASSUME NEW h \in Handlers, NEW l \in Answers, ProjectsListed(h, l) PROVE HasList'
  <2> DEFINE s == [i \in DOMAIN l |-> [path |-> l[i], num |-> i]]
             b == IF l = <<>> THEN "none" ELSE "project"
  <2>1. op[h].id \in Ids
    BY <1>1 DEF ProjectsListed, Ledger, Sound
  <2>2. shown' = [shown EXCEPT ![op[h].id] = s] /\ Reply(h, op[h].id, b)
    BY <1>1 DEF ProjectsListed
  <2>3. b \in Pickers /\ (b = "project" => s # <<>>)
    <3>1. l \in Seq(Projects)
      <4>1. <<>> \in Seq(Projects)
        OBVIOUS
      <4> QED BY <4>1, ListsAssumption DEF Answers
    <3>2. l # <<>> => 1 \in DOMAIN l
      BY <3>1
    <3>3. DOMAIN s = DOMAIN l
      OBVIOUS
    <3> QED BY <3>2, <3>3 DEF Pickers
  <2> HIDE DEF s, b
  <2> QED BY <2>1, <2>2, <2>3, PrintsKeeps
<1>2. ASSUME NEW h \in Handlers, NEW id \in Ids, AskProjects(h, id) PROVE HasList'
  <2>1. CASE desk
    <3>1. UNCHANGED <<screen, shown>>
      BY <1>2, <2>1 DEF AskProjects, Await
    <3> QED BY <3>1, DiscreetKeeps DEF Discreet
  <2>2. CASE ~desk
    <3>1. PICK l \in IF listing = <<>> THEN Answers ELSE {listing} :
                 /\ Reply(h, id, IF l = <<>> THEN "none" ELSE "project")
                 /\ IF l = <<>> THEN UNCHANGED shown /\ (UNCHANGED pending \/ GiveUpPicker(id))
                    ELSE /\ shown' = [shown EXCEPT ![id] = Printed(l, TRUE)]
                         /\ SetPending(id, "project")
      BY <1>2, <2>2, Zenon DEF AskProjects
    <3>2. CASE l = <<>>
      <4>1. Reply(h, id, "none") /\ UNCHANGED shown
        BY <3>1, <3>2
      <4> QED BY <4>1, DiscreetKeeps DEF Discreet
    <3>3. CASE l # <<>>
      <4>1. Reply(h, id, "project") /\ shown' = [shown EXCEPT ![id] = Printed(l, TRUE)]
        BY <3>1, <3>3
      <4>2. l \in Seq(Projects)
        BY ListsAssumption, ListingIsList DEF Catalog, Answers
      <4>3. 1 \in DOMAIN l /\ DOMAIN Printed(l, TRUE) = DOMAIN l
        BY <3>3, <4>2 DEF Printed
      <4>4. DOMAIN <<>> = {}
        OBVIOUS
      <4>5. ASSUME Printed(l, TRUE) = <<>> PROVE FALSE
        <5>1. DOMAIN Printed(l, TRUE) = {}
          BY <4>4, <4>5, Zenon
        <5> QED BY <4>3, <5>1, Zenon
      <4>6. "project" \in Pickers
        BY DEF Pickers
      <4> QED BY <4>1, <4>5, <4>6, PrintsKeeps
    <3> QED BY <3>2, <3>3
  <2> QED BY <2>1, <2>2
<1>3. ASSUME NEW h \in Handlers, NEW id \in Ids,
             \/ AskSessions(h, id) \/ AskFirstMessage(h, id) \/ Choose(h, id)
             \/ NewSession(h, id) \/ MissPicker(h, id) \/ TextWithoutSession(h, id)
             \/ Send(h, id) \/ Cancel(h, id) \/ AnswerOnly(h, id)
      PROVE  Discreet
  <2>1. CASE AskSessions(h, id) \/ TextWithoutSession(h, id) \/ \E p \in Projects : Open(h, id, p)
    BY <2>1, ShowsDiscreetly DEF AskSessions, TextWithoutSession, Open
  <2>2. CASE Use(h, id)
    <3>1. CASE desk
      BY <2>2, <3>1 DEF Use, Await, Discreet
    <3>2. CASE ~desk
      BY <2>2, <3>2, StoredDiscreetly DEF Use
    <3> QED BY <3>1, <3>2
  <2>3. CASE NewSession(h, id) \/ Send(h, id)
    BY <2>3 DEF NewSession, Send, Await, menu, Discreet
  <2>4. CASE Cancel(h, id)
    BY <2>4 DEF Cancel, Await, Discreet
  <2>5. CASE AskFirstMessage(h, id) \/ MissPicker(h, id) \/ AnswerOnly(h, id)
    BY <2>5 DEF AskFirstMessage, MissPicker, AnswerOnly, Discreet
  <2> QED BY <1>3, <2>1, <2>2, <2>3, <2>4, <2>5 DEF Choose
<1>4. ASSUME NEW h \in Handlers,
             \/ ThreadsListed(h) \/ UseListed(h) \/ UseResumed(h) \/ FirstTurnStarted(h)
             \/ Reopened(h) \/ ThreadNotFound(h) \/ TurnStarted(h) \/ CancelTurn(h)
             \/ Cancelled(h) \/ Fails(h) \/ \E t \in Threads : ThreadStarted(h, t) \/ CliRan(h, t)
      PROVE  Discreet
  <2> DEFINE id == op[h].id
  <2>1. id \in Ids
    BY <1>4 DEF ThreadsListed, UseListed, UseResumed, FirstTurnStarted, Reopened, ThreadNotFound,
                TurnStarted, CancelTurn, Cancelled, Fails, ThreadStarted, CliRan, Ledger, Sound
  <2> HIDE DEF id
  <2>2. CASE ThreadsListed(h)
    BY <2>1, <2>2 DEF ThreadsListed, menu, Discreet, id
  <2>3. CASE UseListed(h)
    <3>1. UNCHANGED shown /\ (UNCHANGED screen \/ UseStored(h, id, op[h].proj))
      BY <2>3 DEF UseListed, id
    <3> QED BY <2>1, <3>1, StoredDiscreetly DEF Discreet
  <2>4. CASE \/ UseResumed(h) \/ FirstTurnStarted(h) \/ TurnStarted(h) \/ Cancelled(h) \/ Fails(h)
             \/ \E t \in Threads : CliRan(h, t)
    <3>1. UNCHANGED shown /\ Reply(h, id, "none")
      BY <2>4 DEF UseResumed, FirstTurnStarted, TurnStarted, Cancelled, Fails, CliRan, Started, menu, id
    <3> QED BY <2>1, <3>1 DEF Discreet
  <2>5. CASE Reopened(h) \/ ThreadNotFound(h) \/ CancelTurn(h) \/ \E t \in Threads : ThreadStarted(h, t)
    BY <2>5 DEF Reopened, ThreadNotFound, CancelTurn, ThreadStarted, menu, Discreet
  <2> QED BY <1>4, <2>2, <2>3, <2>4, <2>5
<1>5. CASE Restart
  BY <1>5 DEF Restart, HasList
<1>6. CASE Toggle \/ \E l \in Lists : Discover(l)
  BY <1>6, DiscreetKeeps DEF Toggle, Discover, menu, Discreet
<1>7. ASSUME NEW id \in Ids, Stranger(id) \/ Confirm(id) \/ RemoveIdentity(id) PROVE Discreet
  BY <1>7 DEF Stranger, Confirm, RemoveIdentity, menu, Discreet
<1>8. CASE UNCHANGED vars
  BY <1>8, DiscreetKeeps DEF vars, menu, Discreet
<1> QED BY <1>1, <1>2, <1>3, <1>4, <1>5, <1>6, <1>7, <1>8, DiscreetKeeps DEF Next

-------------------------------------------------------------------------------
MenuInv == Catalog /\ Talk /\ HasList

LEMMA MenuInit == Init => MenuInv
<1> SUFFICES ASSUME Init PROVE MenuInv
  OBVIOUS
<1>1. <<>> \in Seq([path : Projects, num : Nat])
  OBVIOUS
<1>2. Catalog
  BY <1>1 DEF Init, Catalog, Listings
<1>3. Armed
  <2>1. \A id \in Ids : Live(id) = {} /\ face[id] = "none"
    BY NoneAssumption DEF Init, Live, Idle
  <2> QED BY <2>1 DEF Armed
<1>4. Talk
  BY <1>3 DEF Init, Talk, Prompts, Pickers
<1>5. HasList
  BY DEF Init, HasList
<1> QED BY <1>2, <1>4, <1>5 DEF MenuInv

LEMMA MenuKeeps == RouterInv /\ MenuInv /\ [Next]_vars => MenuInv'
<1> SUFFICES ASSUME RouterInv, MenuInv, [Next]_vars PROVE MenuInv'
  OBVIOUS
<1>1. Catalog' /\ HasList'
  BY CatalogKeeps, HasListKeeps DEF RouterInv, MenuInv
<1>2. Ledger /\ Talk
  BY DEF RouterInv, MenuInv
<1>3. CASE Around
  BY <1>1, <1>2, <1>3, AroundTalks DEF MenuInv
<1>4. ASSUME NEW h \in Handlers, NEW id \in Ids, Message(h, id) PROVE MenuInv'
  BY <1>1, <1>2, <1>4, MessageTalks DEF MenuInv
<1>5. ASSUME NEW h \in Handlers, Resumes(h) PROVE MenuInv'
  BY <1>1, <1>2, <1>5, ResumeTalks DEF MenuInv
<1>6. CASE UNCHANGED vars
  <2>1. Quiet
    BY <1>6 DEF vars, menu, Quiet
  <2> QED BY <1>1, <1>2, <2>1, QuietKeeps DEF MenuInv
<1> QED BY <1>3, <1>4, <1>5, <1>6
        DEF Next, Around, Message, MessageOutside, Resumes, Answered, TurnStep

LEMMA MenuInvariant == Spec => []MenuInv
BY Invariant, MenuInit, MenuKeeps, PTL DEF Spec

\* The picker printed last is the one a number answers, unless the identity's
\* messages overlapped or a restart forgot it: the prompt is armed before the
\* threads for the picker are asked for (sessionsTextAsync), the handler that
\* waits for them is the identity's only one, so nothing takes the prompt away
\* meanwhile, and projects are printed with the list a number is looked up in.
THEOREM PickersAreArmed == Spec => []PickerArmed
<1>1. MenuInv => PickerArmed
  BY DEF MenuInv, Talk, Armed, HasList, PickerArmed
<1> QED BY <1>1, MenuInvariant, PTL

\* Every variable has its type, the quota's bound among them.
THEOREM RouterTypes == Spec => []TypeOK
<1>1. RouterInv /\ MenuInv => TypeOK
  <2> SUFFICES ASSUME RouterInv, MenuInv PROVE TypeOK
    OBVIOUS
  <2>1. \A id \in Ids : \A e \in ToSet(shown[id]) : e.path \in Projects /\ e.num \in Nat
    <3>1. ASSUME NEW id \in Ids, NEW i \in DOMAIN shown[id]
          PROVE  shown[id][i] \in [path : Projects, num : Nat]
      <4>1. shown[id] \in Seq([path : Projects, num : Nat])
        BY DEF MenuInv, Catalog
      <4> QED BY <4>1, EntriesOf
    <3> QED BY <3>1 DEF ToSet
  <2>2. started \in [Ids -> 0..MaxTurns]
    <3>1. ASSUME NEW id \in Ids PROVE started[id] \in 0..MaxTurns
      <4>1. Cardinality(InPaid(id)) \in Nat
        BY HandlersAssumption, FS_Subset, FS_CardinalityType DEF InPaid, Live
      <4>2. /\ spent[id] = started[id] + Cardinality(InPaid(id))
            /\ spent[id] \in 0..MaxTurns /\ started[id] \in Nat
        BY DEF RouterInv, Ledger, QuotaExact
      <4> QED BY <4>1, <4>2, QuotaAssumption
    <3> QED BY <3>1 DEF RouterInv, Ledger
  <2> QED BY <2>1, <2>2 DEF TypeOK, RouterInv, MenuInv, Ledger, Desk, Catalog, Talk, Ops
<1> QED BY <1>1, Invariant, MenuInvariant, PTL

===============================================================================
