------------------------- MODULE InboundPath_proofs -------------------------
(***************************************************************************)
(* What holds of InboundPath for any number of updates, workers, restarts  *)
(* and any size of the duplicate filter: an update becomes a turn at most  *)
(* once, and one the cursor has passed was not lost.                       *)
(***************************************************************************)
EXTENDS InboundPath, FiniteSetTheorems, SequenceTheorems, WellFoundedInduction, TLAPS

Stages == {"idle", "fetch", "asleep", "next", "media", "router", "fallback"}
\* The stages in which the head of the batch is being handled.
Working == {"media", "router", "fallback"}
Records == [at : Stages, batch : Seq(Updates), from : 0..MaxUpd, old : BOOLEAN]

\* Updates that were submitted as a turn.
Submitted == {u \in Updates : routed[u] > 0}

\* A batch is a run of consecutive updates among the first n.
Run(b, n) == \A i \in 1..Len(b) : b[i] = b[1] + (i - 1) /\ b[i] \in 1..n

\* The record of a worker, where the platform has n updates and those in done
\* were submitted.
Fits(r, n, done) ==
    /\ r \in Records /\ Run(r.batch, n) /\ r.from <= n
    /\ r.at \in Working => r.batch # <<>>
    /\ r.at \in {"idle", "fetch", "asleep"} => r.batch = <<>>
    /\ r.at = "idle" => r = Idle
    /\ r.at = "router" => r.batch[1] \in done

\* What each worker is doing.
Fleet ==
    /\ work \in [Workers -> Records]
    /\ \A w \in Workers : Fits(work[w], Len(log), Submitted)

\* The platform, and how far it was read.
Reading ==
    /\ kind \in Kinds /\ log \in Seq(Message) /\ Len(log) <= MaxUpd
    /\ cursor \in 0..MaxUpd /\ confirmed \in 0..MaxUpd
    /\ saved \in [cursor : 0..MaxUpd, paired : SUBSET Senders, code : BOOLEAN]
    /\ cursor <= Len(log) /\ confirmed <= Len(log) /\ saved.cursor <= Len(log)

\* The filter, the gates and the books.
Gates ==
    /\ pushed \in [Updates -> 0..MaxDeliver]
    /\ up \in BOOLEAN /\ running \in BOOLEAN /\ disturbed \in BOOLEAN
    /\ noticed \in BOOLEAN /\ code \in BOOLEAN
    /\ paired \subseteq Senders /\ prompts \in [Senders -> 0..MaxPrompts]
    /\ seen \in Seq(Updates) /\ Len(seen) <= DedupMax
    /\ aborter \subseteq Workers /\ \A v, w \in aborter : v = w

Books ==
    /\ routed \in [Updates -> 0..2]
    /\ answered \subseteq Updates /\ gaveUp \subseteq Updates
    /\ hushed \subseteq Updates /\ evicted \subseteq Updates /\ dropped \subseteq Updates

Typed == Fleet /\ Reading /\ Gates /\ Books

-------------------------------------------------------------------------------
(***************************************************************************)
(* How a worker's record moves.                                            *)
(***************************************************************************)
Moves(w, n) == work' = [work EXCEPT ![w] = n]

\* The head of the batch is done; the handling of the head goes on.
Popped(r, n) == n.at = "next" /\ n.batch = Tail(r.batch) /\ n.from = r.from /\ n.old = r.old
Staged(r, n, to) == n.at = to /\ n.batch = r.batch /\ n.from = r.from /\ n.old = r.old
Asks(n, c) == n.at = "fetch" /\ n.batch = <<>> /\ n.from = c /\ n.old = FALSE

LEMMA Bounds ==
    /\ MaxUpd \in Nat \ {0} /\ MaxDeliver \in Nat \ {0} /\ MaxRestarts \in Nat \ {0}
    /\ DedupMax \in Nat \ {0} /\ MaxPrompts \in Nat \ {0}
BY BoundsAssumption

LEMMA IdleFits ==
    ASSUME NEW n \in Nat, NEW done
    PROVE  Fits(Idle, n, done) /\ Idle \in Records /\ Idle.at = "idle" /\ Idle.batch = <<>>
<1>1. <<>> \in Seq(Updates) /\ Len(<<>>) = 0
  OBVIOUS
<1>2. Idle \in Records
  BY <1>1, Bounds DEF Idle, Records, Stages
<1> QED BY <1>1, <1>2 DEF Fits, Run, Idle, Working

\* A record that fits still fits when updates arrive and turns are submitted.
LEMMA StillFits ==
    ASSUME NEW r, NEW n \in Nat, NEW m \in Nat, n <= m, NEW done, NEW more, done \subseteq more,
           Fits(r, n, done)
    PROVE  Fits(r, m, more)
<1>1. r.from \in Nat
  BY Bounds DEF Fits, Records
<1>2. \A i \in 1..Len(r.batch) : r.batch[i] \in 1..m
  BY DEF Fits, Run
<1> QED BY <1>1, <1>2 DEF Fits, Run

LEMMA AskingFits ==
    ASSUME NEW n \in Nat, NEW done, NEW c \in 0..MaxUpd, c <= n
    PROVE  LET r == [Idle EXCEPT !.at = "fetch", !.from = c]
           IN  Fits(r, n, done) /\ Asks(r, c)
<1> DEFINE r == [Idle EXCEPT !.at = "fetch", !.from = c]
<1>1. Idle \in Records /\ Idle.batch = <<>> /\ Idle.old = FALSE
  BY IdleFits DEF Idle
<1>2. Len(<<>>) = 0
  OBVIOUS
<1>3. r.at = "fetch" /\ r.batch = <<>> /\ r.from = c /\ r.old = FALSE
  BY <1>1 DEF Records
<1>4. r \in Records
  BY <1>1 DEF Records, Stages
<1> HIDE DEF r
<1>5. Fits(r, n, done)
  BY <1>2, <1>3, <1>4 DEF Fits, Run, Working
<1>6. Asks(r, c)
  BY <1>3 DEF Asks
<1> QED BY <1>5, <1>6 DEF r

\* The record that Finished leaves.
LEMMA PoppedFits ==
    ASSUME NEW r, NEW n \in Nat, NEW done, Fits(r, n, done), r.batch # <<>>
    PROVE  LET s == [r EXCEPT !.at = "next", !.batch = Tail(r.batch)]
           IN  Fits(s, n, done) /\ Popped(r, s)
<1> DEFINE s == [r EXCEPT !.at = "next", !.batch = Tail(r.batch)]
<1>1. r \in Records /\ r.batch \in Seq(Updates)
  BY DEF Fits, Records
<1>2. PICK t \in Seq(Updates) : t = Tail(r.batch)
  <2>1. \A q \in Seq(Updates) : q # <<>> => Tail(q) \in Seq(Updates)
    OBVIOUS
  <2> QED BY <1>1, <2>1
<1>3. Popped(r, s)
  BY <1>1, <1>2 DEF Popped, Records
<1>5. s \in Records
  BY <1>1, <1>2 DEF Records, Stages
<1>6. Run(Tail(r.batch), n)
  <2> DEFINE b == r.batch
  <2>1. b \in Seq(Updates) /\ b # <<>> /\ \A i \in 1..Len(b) : b[i] = b[1] + (i - 1) /\ b[i] \in 1..n
    BY <1>1 DEF Fits, Run
  <2> HIDE DEF b
  <2>2. Len(Tail(b)) = Len(b) - 1 /\ \A i \in 1..Len(Tail(b)) : Tail(b)[i] = b[i + 1]
    BY <2>1
  <2>3. Len(b) \in Nat \ {0} /\ b[1] \in Nat
    BY <2>1, Bounds DEF Updates
  <2>4. ASSUME NEW i \in 1..Len(Tail(b))
        PROVE  Tail(b)[i] = Tail(b)[1] + (i - 1) /\ Tail(b)[i] \in 1..n
    <3>1. i + 1 \in 1..Len(b) /\ 2 \in 1..Len(b) /\ 1 \in 1..Len(Tail(b))
      BY <2>2, <2>3
    <3>2. b[i + 1] = b[1] + i /\ b[i + 1] \in 1..n /\ b[2] = b[1] + 1
      BY <2>1, <3>1
    <3>3. Tail(b)[i] = b[i + 1] /\ Tail(b)[1] = b[2]
      BY <2>2, <3>1
    <3> QED BY <2>3, <3>2, <3>3
  <2> QED BY <2>4 DEF Run, b
<1> HIDE DEF s
<1>7. s.at = "next" /\ s.batch = Tail(r.batch) /\ s.from = r.from
  BY <1>3 DEF Popped
<1>8. Fits(s, n, done)
  BY <1>5, <1>6, <1>7 DEF Fits, Working
<1> QED BY <1>3, <1>8 DEF s

\* The record that Goes leaves.
LEMMA StagedFits ==
    ASSUME NEW r, NEW n \in Nat, NEW done, Fits(r, n, done), NEW to \in Working,
           r.batch # <<>>, to = "router" => r.batch[1] \in done
    PROVE  LET s == [r EXCEPT !.at = to]
           IN  Fits(s, n, done) /\ Staged(r, s, to)
<1> DEFINE s == [r EXCEPT !.at = to]
<1>1. r \in Records
  BY DEF Fits
<1>2. s \in Records /\ s.at = to /\ s.batch = r.batch /\ s.from = r.from /\ s.old = r.old
  BY <1>1 DEF Records, Stages, Working
<1> HIDE DEF s
<1>3. Fits(s, n, done)
  BY <1>2 DEF Fits, Working
<1> QED BY <1>2, <1>3 DEF s, Staged

\* What was fetched from behind a position: everything after it.
LEMMA FetchedFits ==
    ASSUME NEW r, NEW n \in Nat, NEW done, Fits(r, n, done), NEW f \in Nat,
           NEW s \in Records, s.at = "next", s.from = r.from,
           Len(s.batch) = n - f, \A i \in 1..Len(s.batch) : s.batch[i] = f + i
    PROVE  Fits(s, n, done)
<1>1. Run(s.batch, n)
  BY DEF Run, Records
<1> QED BY <1>1 DEF Fits, Working

-------------------------------------------------------------------------------
(***************************************************************************)
(* The duplicate filters.                                                  *)
(***************************************************************************)
\* What is removed is one entry; the others stay in order.
LEMMA Removing ==
    ASSUME NEW s \in Seq(Updates), NEW u \in ToSet(s)
    PROVE  /\ RemoveFirst(s, u) \in Seq(Updates) /\ Len(RemoveFirst(s, u)) = Len(s) - 1
           /\ ToSet(s) \subseteq ToSet(RemoveFirst(s, u)) \cup {u}
           /\ ToSet(RemoveFirst(s, u)) \subseteq ToSet(s)
<1> DEFINE I == {i \in 1..Len(s) : s[i] = u}
           k == Min(I)
<1>1. Len(s) \in Nat /\ I # {} /\ I \subseteq Nat
  BY DEF ToSet
<1>2. k \in I
  <2>1. PICK x \in I : \A y \in I : ~ (<<y, x>> \in OpToRel(<, Nat))
    BY <1>1, WFMin, NatLessThanWellFounded
  <2> HIDE DEF I
  <2>2. \A y \in I : x \in Nat /\ y \in Nat /\ ~ (y < x)
    BY <1>1, <2>1 DEF OpToRel
  <2>3. \A y \in I : x <= y
    BY <2>2
  <2> QED BY <2>3 DEF Min
<1>3. SelectInSeq(s, LAMBDA v : v = u) = k
  BY <1>1 DEF SelectInSeq
<1>4. RemoveFirst(s, u) = SubSeq(s, 1, k - 1) \o SubSeq(s, k + 1, Len(s))
  BY <1>1, <1>3 DEF RemoveFirst, RemoveAt
<1> HIDE DEF k
<1>5. k \in 1..Len(s) /\ s[k] = u /\ k \in Nat \ {0} /\ k <= Len(s)
  BY <1>1, <1>2
<1> HIDE DEF I
<1> DEFINE a == SubSeq(s, 1, k - 1)
           b == SubSeq(s, k + 1, Len(s))
<1>6. a \in Seq(Updates) /\ Len(a) = k - 1 /\ \A i \in 1..(k - 1) : a[i] = s[i]
  <2>1. \A i \in 1..(k - 1) : s[i] \in Updates
    BY <1>5
  <2> QED BY <1>1, <1>5, <2>1, SubSeqProperties
<1>7. b \in Seq(Updates) /\ Len(b) = Len(s) - k /\ \A i \in 1..(Len(s) - k) : b[i] = s[k + i]
  <2>1. \A i \in (k + 1)..Len(s) : s[i] \in Updates
    BY <1>5
  <2> QED BY <1>1, <1>5, <2>1, SubSeqProperties
<1> HIDE DEF a, b
<1>8. /\ a \o b \in Seq(Updates) /\ Len(a \o b) = Len(s) - 1
      /\ \A i \in 1..(Len(s) - 1) : (a \o b)[i] = IF i <= k - 1 THEN a[i] ELSE b[i - (k - 1)]
  <2>1. /\ a \o b \in Seq(Updates) /\ Len(a \o b) = Len(a) + Len(b)
        /\ \A i \in 1..(Len(a) + Len(b)) : (a \o b)[i] = IF i <= Len(a) THEN a[i] ELSE b[i - Len(a)]
    BY <1>6, <1>7, ConcatProperties
  <2>2. Len(a) + Len(b) = Len(s) - 1
    BY <1>1, <1>5, <1>6, <1>7
  <2> QED BY <1>6, <2>1, <2>2
<1>9. ASSUME NEW i \in 1..Len(s), i # k PROVE \E j \in 1..(Len(s) - 1) : (a \o b)[j] = s[i]
  <2>1. CASE i < k
    <3>1. i \in 1..(k - 1) /\ i \in 1..(Len(s) - 1) /\ i <= k - 1
      BY <1>1, <1>5, <2>1
    <3>2. (a \o b)[i] = a[i] /\ a[i] = s[i]
      BY <1>6, <1>8, <3>1
    <3> QED BY <3>1, <3>2
  <2>2. CASE i > k
    <3>1. i - 1 \in 1..(Len(s) - 1) /\ ~ (i - 1 <= k - 1) /\ (i - 1) - (k - 1) = i - k
          /\ i - k \in 1..(Len(s) - k) /\ k + (i - k) = i
      BY <1>1, <1>5, <2>2
    <3>2. (a \o b)[i - 1] = b[i - k]
      BY <1>8, <3>1
    <3> QED BY <1>7, <3>1, <3>2
  <2>3. i < k \/ i > k
    BY <1>5, <1>9
  <2> QED BY <2>1, <2>2, <2>3
<1>10. ToSet(s) \subseteq ToSet(a \o b) \cup {u}
  <2>1. DOMAIN s = 1..Len(s) /\ DOMAIN (a \o b) = 1..(Len(s) - 1)
    BY <1>8
  <2> QED BY <1>5, <1>9, <2>1 DEF ToSet
<1>11. ToSet(a \o b) \subseteq ToSet(s)
  <2>1. DOMAIN s = 1..Len(s) /\ DOMAIN (a \o b) = 1..(Len(s) - 1)
    BY <1>8
  <2>2. ASSUME NEW i \in 1..(Len(s) - 1) PROVE \E j \in 1..Len(s) : (a \o b)[i] = s[j]
    <3>1. CASE i <= k - 1
      <4>1. i \in 1..(k - 1) /\ i \in 1..Len(s)
        BY <1>1, <1>5, <3>1
      <4> QED BY <1>6, <1>8, <3>1, <4>1
    <3>2. CASE ~ (i <= k - 1)
      <4>1. i - (k - 1) \in 1..(Len(s) - k) /\ k + (i - (k - 1)) \in 1..Len(s)
        BY <1>1, <1>5, <3>2
      <4> QED BY <1>7, <1>8, <3>2, <4>1
    <3> QED BY <3>1, <3>2
  <2> QED BY <2>1, <2>2 DEF ToSet
<1> QED BY <1>4, <1>8, <1>10, <1>11 DEF a, b

\* Has leaves what is remembered and makes the id the freshest.
LEMMA Touching ==
    ASSUME NEW s \in Seq(Updates), NEW u \in ToSet(s)
    PROVE  /\ Touch(s, u) \in Seq(Updates) /\ Len(Touch(s, u)) = Len(s)
           /\ ToSet(Touch(s, u)) = ToSet(s) /\ Len(s) \in Nat \ {0}
           /\ Touch(s, u)[Len(s)] = u
<1> DEFINE r == RemoveFirst(s, u)
<1>1. /\ r \in Seq(Updates) /\ Len(r) = Len(s) - 1
      /\ ToSet(s) \subseteq ToSet(r) \cup {u} /\ ToSet(r) \subseteq ToSet(s)
  BY Removing
<1>2. Len(s) \in Nat \ {0} /\ u \in Updates
  BY DEF ToSet
<1>3. Touch(s, u) = Append(r, u)
  BY DEF Touch
<1> HIDE DEF r
<1>4. /\ Append(r, u) \in Seq(Updates) /\ Len(Append(r, u)) = Len(s)
      /\ \A i \in 1..Len(r) : Append(r, u)[i] = r[i]
      /\ Append(r, u)[Len(s)] = u
  BY <1>1, <1>2
<1>5. ToSet(r) \cup {u} = ToSet(Append(r, u))
  BY <1>1, <1>2, <1>4 DEF ToSet
<1> QED BY <1>1, <1>2, <1>3, <1>4, <1>5

\* A filter of limited size keeps the id it was just given.
LEMMA Capped ==
    ASSUME NEW t \in Seq(Updates), NEW u \in Updates, Len(t) \in Nat \ {0}, t[Len(t)] = u,
           Len(t) <= DedupMax + 1
    PROVE  LET r == IF Len(t) > DedupMax THEN Tail(t) ELSE t
           IN  r \in Seq(Updates) /\ Len(r) <= DedupMax /\ u \in ToSet(r) /\ ToSet(r) \subseteq ToSet(t)
<1>1. DedupMax \in Nat \ {0}
  BY BoundsAssumption
<1>2. CASE Len(t) > DedupMax
  <2>1. Tail(t) \in Seq(Updates) /\ Len(Tail(t)) = Len(t) - 1 /\ Len(t) >= 2
    BY <1>1, <1>2
  <2>2. Len(t) - 1 \in 1..Len(Tail(t)) /\ Tail(t)[Len(t) - 1] = t[Len(t)]
    BY <2>1
  <2>3. u \in ToSet(Tail(t))
    <3>1. DOMAIN Tail(t) = 1..Len(Tail(t))
      BY <2>1
    <3>2. Tail(t)[Len(t) - 1] \in ToSet(Tail(t))
      BY <2>2, <3>1, Zenon DEF ToSet
    <3> QED BY <2>2, <3>2
  <2>4. ToSet(Tail(t)) \subseteq ToSet(t)
    <3>1. \A i \in 1..Len(Tail(t)) : Tail(t)[i] = t[i + 1] /\ i + 1 \in 1..Len(t)
      BY <2>1
    <3>2. DOMAIN Tail(t) = 1..Len(Tail(t)) /\ DOMAIN t = 1..Len(t)
      BY <2>1
    <3> QED BY <3>1, <3>2 DEF ToSet
  <2> QED BY <1>1, <1>2, <2>1, <2>3, <2>4
<1>3. CASE ~(Len(t) > DedupMax)
  BY <1>1, <1>3 DEF ToSet
<1> QED BY <1>2, <1>3

LEMMA Remembering ==
    ASSUME NEW s \in Seq(Updates), Len(s) <= DedupMax, NEW u \in Updates
    PROVE  /\ Remember(s, u) \in Seq(Updates) /\ Len(Remember(s, u)) <= DedupMax
           /\ u \in ToSet(Remember(s, u)) /\ ToSet(Remember(s, u)) \subseteq ToSet(s) \cup {u}
           /\ RememberFirst(s, u) \in Seq(Updates) /\ Len(RememberFirst(s, u)) <= DedupMax
           /\ u \in ToSet(RememberFirst(s, u)) /\ ToSet(RememberFirst(s, u)) \subseteq ToSet(s) \cup {u}
<1>1. DedupMax \in Nat \ {0} /\ Len(s) \in Nat
  BY BoundsAssumption
<1>2. PICK a : a = Append(s, u)
  OBVIOUS
<1>3. a \in Seq(Updates) /\ Len(a) = Len(s) + 1 /\ a[Len(a)] = u /\ Len(a) \in Nat \ {0}
      /\ Len(a) <= DedupMax + 1
  BY <1>1, <1>2
<1>4. LET r == IF Len(a) > DedupMax THEN Tail(a) ELSE a
      IN  r \in Seq(Updates) /\ Len(r) <= DedupMax /\ u \in ToSet(r) /\ ToSet(r) \subseteq ToSet(a)
  BY <1>3, Capped
<1>5. PICK t : t = IF u \in ToSet(s) THEN Touch(s, u) ELSE a
  OBVIOUS
<1>6. t \in Seq(Updates) /\ Len(t) \in Nat \ {0} /\ t[Len(t)] = u /\ Len(t) <= DedupMax + 1
  BY <1>1, <1>3, <1>5, Touching
<1>7. LET r == IF Len(t) > DedupMax THEN Tail(t) ELSE t
      IN  r \in Seq(Updates) /\ Len(r) <= DedupMax /\ u \in ToSet(r) /\ ToSet(r) \subseteq ToSet(t)
  BY <1>6, Capped
<1>8. /\ Remember(s, u) = IF Len(t) > DedupMax THEN Tail(t) ELSE t
      /\ RememberFirst(s, u) = IF Len(a) > DedupMax THEN Tail(a) ELSE a
  BY <1>2, <1>5 DEF Remember, RememberFirst
<1>9. ToSet(t) \subseteq ToSet(s) \cup {u} /\ ToSet(a) \subseteq ToSet(s) \cup {u}
  <2>1. ToSet(a) \subseteq ToSet(s) \cup {u}
    <3>1. DOMAIN a = 1..(Len(s) + 1) /\ DOMAIN s = 1..Len(s) /\ \A i \in 1..Len(s) : a[i] = s[i]
      BY <1>1, <1>2
    <3> QED BY <1>1, <1>3, <3>1 DEF ToSet
  <2> QED BY <1>5, <2>1, Touching
<1> QED BY <1>4, <1>7, <1>8, <1>9

LEMMA FinishMoves ==
    ASSUME Fleet, Reading, NEW w \in Workers, work[w].batch # <<>>, Finished(w)
    PROVE  \E n : Moves(w, n) /\ Popped(work[w], n) /\ Fits(n, Len(log), Submitted)
<1> DEFINE n == [work[w] EXCEPT !.at = "next", !.batch = Tail(work[w].batch)]
<1>1. work \in [Workers -> Records] /\ Fits(work[w], Len(log), Submitted) /\ Len(log) \in Nat
  BY DEF Fleet, Reading
<1>2. Moves(w, n)
  BY <1>1 DEF Finished, Moves
<1>3. Fits(n, Len(log), Submitted) /\ Popped(work[w], n)
  BY <1>1, PoppedFits
<1> HIDE DEF n
<1> QED BY <1>2, <1>3

LEMMA GoesMoves ==
    ASSUME Fleet, Reading, NEW w \in Workers, work[w].batch # <<>>, NEW to \in Working, Goes(w, to),
           NEW done, Submitted \subseteq done, to = "router" => work[w].batch[1] \in done
    PROVE  \E n : Moves(w, n) /\ Staged(work[w], n, to) /\ Fits(n, Len(log), done)
<1> DEFINE n == [work[w] EXCEPT !.at = to]
<1>1. work \in [Workers -> Records] /\ Fits(work[w], Len(log), Submitted) /\ Len(log) \in Nat
  BY DEF Fleet, Reading
<1>2. Moves(w, n)
  BY <1>1 DEF Goes, Moves
<1>3. Fits(work[w], Len(log), done)
  BY <1>1, StillFits
<1>4. Fits(n, Len(log), done) /\ Staged(work[w], n, to)
  BY <1>1, <1>3, StagedFits
<1> HIDE DEF n
<1> QED BY <1>2, <1>4

LEMMA RequestMoves ==
    ASSUME Reading, NEW w \in Workers, NEW wk, NEW c \in 0..MaxUpd, c <= Len(log),
           work' = Request(wk, w, c)
    PROVE  \E n : work' = [wk EXCEPT ![w] = n] /\ Asks(n, c) /\ Fits(n, Len(log), Submitted)
<1>1. Len(log) \in Nat
  BY DEF Reading
<1>2. work' = [wk EXCEPT ![w] = [Idle EXCEPT !.at = "fetch", !.from = c]]
  BY DEF Request
<1> QED BY <1>1, <1>2, AskingFits

\* A loop asks again or ends.
LEMMA AgainMoves ==
    ASSUME Fleet, Reading, NEW w \in Workers, LoopAgain(w)
    PROVE  \E n : Moves(w, n) /\ (Asks(n, cursor) \/ n = Idle) /\ Fits(n, Len(log), Submitted)
<1>1. CASE running /\ ~work[w].old
  <2>1. work' = Request(work, w, cursor)
    BY <1>1 DEF LoopAgain
  <2>2. cursor \in 0..MaxUpd /\ cursor <= Len(log)
    BY DEF Reading
  <2> QED BY <2>1, <2>2, RequestMoves DEF Moves
<1>2. CASE ~(running /\ ~work[w].old)
  <2>1. Moves(w, Idle)
    BY <1>2 DEF LoopAgain, Moves
  <2>2. Len(log) \in Nat
    BY DEF Reading
  <2> QED BY <2>1, <2>2, IdleFits
<1> QED BY <1>1, <1>2

LEMMA FleetMoves ==
    ASSUME Fleet, Reading, NEW w \in Workers, NEW n, Moves(w, n), Len(log') \in Nat,
           Len(log) <= Len(log'), Submitted \subseteq Submitted',
           Fits(n, Len(log'), Submitted')
    PROVE  Fleet'
<1>1. work' \in [Workers -> Records] /\ work'[w] = n /\ \A v \in Workers \ {w} : work'[v] = work[v]
  BY DEF Fleet, Moves, Fits
<1>2. \A v \in Workers \ {w} : Fits(work'[v], Len(log'), Submitted')
  <2>1. \A v \in Workers : Fits(work[v], Len(log), Submitted)
    BY DEF Fleet
  <2>2. Len(log) \in Nat
    BY DEF Reading
  <2> QED BY <1>1, <2>1, <2>2, StillFits
<1> QED BY <1>1, <1>2 DEF Fleet

\* Without a turn submitted the books of submitted turns stay.
LEMMA SameTurns == ASSUME UNCHANGED routed PROVE Submitted' = Submitted
BY DEF Submitted

LEMMA FleetStays ==
    ASSUME Fleet, Reading, UNCHANGED <<work, routed>>, Len(log') \in Nat, Len(log) <= Len(log')
    PROVE  Fleet'
<1>1. Submitted' = Submitted
  BY SameTurns
<1>2. \A v \in Workers : Fits(work[v], Len(log), Submitted)
  BY DEF Fleet
<1>3. Len(log) \in Nat
  BY DEF Reading
<1>4. \A v \in Workers : Fits(work[v], Len(log'), Submitted)
  BY <1>2, <1>3, StillFits
<1> QED BY <1>1, <1>4 DEF Fleet

\* The update a worker is at.
LEMMA CurrentIs ==
    ASSUME Fleet, Reading, NEW w \in Workers, work[w].batch # <<>>
    PROVE  /\ Current(w) = work[w].batch[1] /\ Current(w) \in Updates /\ Current(w) \in 1..Len(log)
           /\ work[w].batch \in Seq(Updates) /\ Len(work[w].batch) \in Nat \ {0}
<1>1. work[w].batch \in Seq(Updates) /\ Run(work[w].batch, Len(log))
  BY DEF Fleet, Fits, Records
<1>2. \A b \in Seq(Updates) : b # <<>> => Head(b) = b[1] /\ b[1] \in Updates /\ Len(b) \in Nat \ {0}
  OBVIOUS
<1>3. work[w].batch[1] \in 1..Len(log)
  BY <1>1, <1>2 DEF Run
<1> QED BY <1>1, <1>2, <1>3 DEF Current

\* A worker past taking up an update has it at the head of its batch.
LEMMA AtWork ==
    ASSUME Fleet, NEW w \in Workers, work[w].at \in Working \/ Has(w)
    PROVE  work[w].batch # <<>>
BY DEF Fleet, Fits, Has

\* The steps that finish the update at the head, and those that go on with it.
Finishing(w) ==
    \/ SkipSeen(w) \/ GroupGate(w) \/ PollGroupGate(w) \/ Pair(w) \/ Prompt(w)
    \/ (Malformed(w) /\ kind # "poll") \/ RouterDone(w) \/ (HandlerFails(w) /\ kind = "feishu")
    \/ \E b \in BOOLEAN : Fallback(w, b)

LEMMA Finishes ==
    ASSUME Fleet, NEW w \in Workers, Finishing(w)
    PROVE  work[w].batch # <<>> /\ Finished(w) /\ UNCHANGED <<log, routed, kind>>
<1>1. CASE SkipSeen(w) \/ PollGroupGate(w)
  BY <1>1, AtWork DEF SkipSeen, PollGroupGate, source, history
<1>2. CASE GroupGate(w) \/ Pair(w) \/ Prompt(w) \/ (Malformed(w) /\ kind # "poll")
  BY <1>2, AtWork DEF GroupGate, Pair, Prompt, Malformed, TakeUp, source
<1>3. CASE RouterDone(w) \/ (HandlerFails(w) /\ kind = "feishu") \/ \E b \in BOOLEAN : Fallback(w, b)
  BY <1>3, AtWork DEF RouterDone, HandlerFails, Fallback, Working, source
<1> QED BY <1>1, <1>2, <1>3 DEF Finishing

\* The attachment stage.
Submits(w) ==
    /\ Goes(w, "router")
    /\ routed' = [routed EXCEPT ![Current(w)] = IF routed[Current(w)] = 2 THEN 2 ELSE routed[Current(w)] + 1]
    /\ UNCHANGED <<seen, evicted>>

LEMMA Attaching ==
    ASSUME Fleet, NEW w \in Workers, Attachments(w)
    PROVE  /\ work[w].batch # <<>> /\ work[w].at = "media" /\ UNCHANGED <<log, kind>>
           /\ UNCHANGED <<cursor, confirmed, saved, pushed, gaveUp, hushed, dropped, disturbed>>
           /\ \/ Submits(w) /\ (answered' = answered \/ answered' = answered \cup {Current(w)})
              \/ /\ Finished(w) /\ Recall(w) /\ UNCHANGED routed
                 /\ answered' = answered \cup {Current(w)}
<1>1. work[w].at = "media" /\ work[w].batch # <<>>
  BY AtWork DEF Attachments, Working
<1>2. PICK r \in AttachmentStage(log[Current(w)]) :
        /\ answered' = IF r.reply THEN answered \cup {Current(w)} ELSE answered
        /\ IF r.go
           THEN /\ Goes(w, "router")
                /\ routed' = [routed EXCEPT ![Current(w)] = IF @ = 2 THEN 2 ELSE @ + 1]
                /\ UNCHANGED <<seen, evicted>>
           ELSE Finished(w) /\ Recall(w) /\ UNCHANGED routed
  BY DEF Attachments
<1>3. r.go \/ r.reply
  <2>1. \A m : \A x \in AttachmentStage(m) : x.go \/ x.reply
    <3> TAKE m
    <3>1. CASE ~m.media
      BY <3>1 DEF AttachmentStage
    <3>2. CASE m.media /\ ~SupportsMedia
      BY <3>2 DEF AttachmentStage
    <3>3. CASE m.media /\ SupportsMedia
      <4>1. ASSUME NEW d \in DownloadResults
            PROVE  LET x == [go |-> d \in {"all", "some"} \/ (d = "none" /\ m.caption),
                             reply |-> d # "all"]
                   IN  x.go \/ x.reply
        BY DEF DownloadResults
      <4>2. AttachmentStage(m) = {[go |-> d \in {"all", "some"} \/ (d = "none" /\ m.caption),
                                   reply |-> d # "all"] : d \in DownloadResults}
        BY <3>3 DEF AttachmentStage
      <4> QED BY <4>1, <4>2
    <3> QED BY <3>1, <3>2, <3>3
  <2> QED BY <2>1
<1> QED BY <1>1, <1>2, <1>3 DEF Attachments, Submits, source

LEMMA SubmitsMoves ==
    ASSUME Fleet, Reading, Books, NEW w \in Workers, work[w].batch # <<>>, Submits(w)
    PROVE  /\ \E n : /\ Moves(w, n) /\ Staged(work[w], n, "router")
                     /\ Fits(n, Len(log), Submitted')
           /\ Submitted' = Submitted \cup {Current(w)} /\ routed' \in [Updates -> 0..2]
           /\ \A u \in Updates \ {Current(w)} : routed'[u] = routed[u]
           /\ routed[Current(w)] = 0 => routed'[Current(w)] = 1
           /\ routed'[Current(w)] > 0
<1> DEFINE c == Current(w)
<1>1. c = work[w].batch[1] /\ c \in Updates
  BY CurrentIs
<1>2. routed' = [routed EXCEPT ![c] = IF routed[c] = 2 THEN 2 ELSE routed[c] + 1]
  BY DEF Submits
<1> HIDE DEF c
<1>3. /\ routed' \in [Updates -> 0..2] /\ \A u \in Updates \ {c} : routed'[u] = routed[u]
      /\ routed[c] = 0 => routed'[c] = 1
      /\ routed'[c] > 0
  BY <1>1, <1>2 DEF Books
<1>4. Submitted' = Submitted \cup {c}
  BY <1>1, <1>3 DEF Submitted
<1>5. "router" \in Working /\ Goes(w, "router")
  BY DEF Working, Submits
<1>6. \E n : Moves(w, n) /\ Staged(work[w], n, "router") /\ Fits(n, Len(log), Submitted')
  BY <1>1, <1>4, <1>5, GoesMoves
<1> QED BY <1>3, <1>4, <1>6 DEF c

\* What a fetch hands to the worker.
LEMMA FetchMoves ==
    ASSUME Fleet, Reading, NEW w \in Workers, NEW b \in BOOLEAN, Fetched(w, b)
    PROVE  LET f == IF kind = "longpoll" THEN Bigger(work[w].from, confirmed) ELSE work[w].from IN
           /\ work[w].at = "fetch" /\ f \in Nat /\ f <= Len(log)
           /\ \E n : /\ Moves(w, n) /\ Fits(n, Len(log), Submitted)
                     /\ n.at = "next" /\ n.from = work[w].from /\ n.old = work[w].old
                     /\ n.batch \in Seq(Updates) /\ Len(n.batch) = Len(log) - f
                     /\ \A i \in 1..Len(n.batch) : n.batch[i] = f + i
           /\ cursor' = IF b THEN Len(log) ELSE cursor
           /\ b => kind = "poll"
           /\ UNCHANGED <<log, kind, routed, confirmed, saved, seen, history, disturbed>>
<1> DEFINE f == IF kind = "longpoll" THEN Bigger(work[w].from, confirmed) ELSE work[w].from
           batch == [i \in 1..(Len(log) - f) |-> f + i]
           n == [work[w] EXCEPT !.at = "next", !.batch = batch]
<1>1. /\ work \in [Workers -> Records] /\ Fits(work[w], Len(log), Submitted)
      /\ Len(log) \in Nat /\ Len(log) <= MaxUpd /\ confirmed \in Nat /\ confirmed <= Len(log)
  BY Bounds DEF Fleet, Reading
<1>2. work[w].from \in Nat /\ work[w].from <= Len(log)
  BY <1>1, Bounds DEF Fits, Records
<1>3. f \in Nat /\ f <= Len(log)
  BY <1>1, <1>2 DEF Bigger
<1>4. /\ work' = [work EXCEPT ![w].at = "next", ![w].batch = batch]
      /\ work[w].at = "fetch" /\ (b => kind = "poll")
      /\ cursor' = IF b THEN Len(log) ELSE cursor
      /\ UNCHANGED <<log, kind, routed, confirmed, saved, seen, history, disturbed>>
  BY DEF Fetched, source, history
<1> HIDE DEF f
<1>5. /\ Fits(n, Len(log), Submitted) /\ n.at = "next" /\ n.batch = batch
      /\ n.from = work[w].from /\ n.old = work[w].old
      /\ batch \in Seq(Updates) /\ Len(batch) = Len(log) - f /\ \A i \in 1..Len(batch) : batch[i] = f + i
  <2>1. PICK k \in Nat : k = Len(log)
    BY <1>1
  <2>2. PICK r : r = work[w]
    OBVIOUS
  <2>3. batch \in Seq(Updates) /\ Len(batch) = k - f /\ \A i \in 1..Len(batch) : batch[i] = f + i
    BY <1>1, <1>3, <2>1, Bounds DEF Updates
  <2> HIDE DEF batch
  <2>4. n \in Records /\ n.at = "next" /\ n.batch = batch /\ n.from = r.from /\ n.old = r.old
    BY <1>1, <2>2, <2>3 DEF Records, Stages
  <2> HIDE DEF n
  <2>5. Fits(r, k, Submitted)
    BY <1>1, <2>1, <2>2
  <2>6. Fits(n, k, Submitted)
    BY <1>3, <2>3, <2>4, <2>5, FetchedFits
  <2> QED BY <2>1, <2>2, <2>3, <2>4, <2>6
<1> HIDE DEF batch
<1>6. Moves(w, n)
  BY <1>1, <1>4 DEF Moves
<1> HIDE DEF n
<1> QED BY <1>3, <1>4, <1>5, <1>6 DEF f

\* A fetch that failed.
LEMMA FetchFailMoves ==
    ASSUME Fleet, Reading, NEW w \in Workers, NEW b \in BOOLEAN, FetchFails(w, b)
    PROVE  /\ \E n : /\ Moves(w, n) /\ Fits(n, Len(log), Submitted)
                     /\ n = Idle \/ (Staged(work[w], n, "asleep") /\ kind = "longpoll")
           /\ work[w].at = "fetch"
           /\ UNCHANGED <<log, kind, routed, cursor, confirmed, saved, seen, history, disturbed>>
<1>1. /\ work \in [Workers -> Records] /\ Fits(work[w], Len(log), Submitted) /\ Len(log) \in Nat
  BY DEF Fleet, Reading
<1>2. /\ work[w].at = "fetch"
      /\ UNCHANGED <<log, kind, routed, cursor, confirmed, saved, seen, history, disturbed>>
  BY DEF FetchFails, source, history
<1>3. CASE kind = "longpoll" /\ ~b
  <2> DEFINE n == [work[w] EXCEPT !.at = "asleep"]
  <2>1. Moves(w, n)
    BY <1>3 DEF FetchFails, Moves
  <2>2. /\ n \in Records /\ n.at = "asleep" /\ n.batch = work[w].batch /\ n.from = work[w].from
        /\ n.old = work[w].old
    BY <1>1 DEF Records, Stages
  <2> HIDE DEF n
  <2>3. Fits(n, Len(log), Submitted)
    BY <1>1, <1>2, <2>2 DEF Fits, Working
  <2> QED BY <1>2, <1>3, <2>1, <2>2, <2>3 DEF Staged
<1>4. CASE ~(kind = "longpoll" /\ ~b)
  <2>1. Moves(w, Idle)
    BY <1>4 DEF FetchFails, Moves
  <2> QED BY <1>1, <1>2, <2>1, IdleFits
<1> QED BY <1>3, <1>4

\* Stopping or replacing a loop leaves the other records as they were, or idle,
\* or marked as those of a driver that was replaced.
LEMMA StopsFit ==
    ASSUME Fleet, Reading
    PROVE  /\ Aborted(work) \in [Workers -> Records]
           /\ \A v \in Workers : /\ Aborted(work)[v] \in {Idle, work[v]}
                                 /\ Fits(Aborted(work)[v], Len(log), Submitted)
<1>1. \A v \in Workers : Aborted(work)[v] \in {Idle, work[v]}
  BY DEF Aborted
<1>2. Len(log) \in Nat
  BY DEF Reading
<1>3. \A v \in Workers : Fits(Aborted(work)[v], Len(log), Submitted)
  BY <1>1, <1>2, IdleFits DEF Fleet
<1> QED BY <1>1, <1>3 DEF Aborted, Fits

LEMMA OldFits ==
    ASSUME NEW r, NEW n, NEW done, Fits(r, n, done), r # Idle
    PROVE  Fits([r EXCEPT !.old = TRUE], n, done)
<1> DEFINE s == [r EXCEPT !.old = TRUE]
<1>1. /\ s \in Records /\ s.at = r.at /\ s.batch = r.batch /\ s.from = r.from
      /\ r.at # "idle"
  BY DEF Fits, Records
<1> HIDE DEF s
<1> QED BY <1>1 DEF Fits, s

LEMMA ConfigureFits ==
    ASSUME Fleet, Reading, NEW w \in Workers, Configure(w)
    PROVE  /\ Fleet' /\ saved.cursor \in 0..MaxUpd /\ saved.cursor <= Len(log)
           /\ Asks(work'[w], saved.cursor)
           /\ ~disturbed' => /\ ~disturbed /\ cursor <= saved.cursor
                             /\ \A v \in Workers \ {w} : work'[v] = Idle
                             /\ \A v \in Workers : work[v] = Idle \/ work[v].at = "fetch"
<1> DEFINE rest == [v \in Workers |-> IF Aborted(work)[v] = Idle THEN Idle
                                      ELSE [work[v] EXCEPT !.old = TRUE]]
<1>1. saved.cursor \in 0..MaxUpd /\ saved.cursor <= Len(log) /\ Len(log) \in Nat
  BY DEF Reading
<1>2. /\ work' = Request(rest, w, saved.cursor) /\ UNCHANGED <<log, routed>>
      /\ disturbed' = (disturbed \/ cursor > saved.cursor \/ \E v \in Workers : rest[v] # Idle)
  BY DEF Configure, source, history
<1>3. \A v \in Workers : Fits(rest[v], Len(log), Submitted)
  <2> TAKE v \in Workers
  <2>1. CASE Aborted(work)[v] = Idle
    BY <1>1, <2>1, IdleFits
  <2>2. CASE Aborted(work)[v] # Idle
    <3>1. Aborted(work)[v] = work[v] /\ work[v] # Idle
      BY <2>2, StopsFit
    <3>2. rest[v] = [work[v] EXCEPT !.old = TRUE]
      BY <2>2
    <3>3. Fits(work[v], Len(log), Submitted)
      BY DEF Fleet
    <3> QED BY <3>1, <3>2, <3>3, OldFits
  <2> QED BY <2>1, <2>2
<1>4. rest = [v \in Workers |-> rest[v]]
  OBVIOUS
<1>10. ASSUME NEW v \in Workers, rest[v] = Idle PROVE work[v] = Idle \/ work[v].at = "fetch"
  <2>1. work[v] \in Records
    BY DEF Fleet
  <2>2. [work[v] EXCEPT !.old = TRUE].old # Idle.old
    BY <2>1 DEF Records, Idle
  <2>3. Aborted(work)[v] = Idle
    BY <1>10, <2>2
  <2> QED BY <2>3 DEF Aborted
<1> HIDE DEF rest
<1>5. PICK n : work' = [rest EXCEPT ![w] = n] /\ Asks(n, saved.cursor) /\ Fits(n, Len(log), Submitted)
  BY <1>1, <1>2, RequestMoves
<1>6. work'[w] = n /\ \A v \in Workers \ {w} : work'[v] = rest[v]
  BY <1>4, <1>5
<1>7. work' \in [Workers -> Records]
  BY <1>3, <1>4, <1>5 DEF Fits
<1>8. Fleet'
  BY <1>2, <1>3, <1>5, <1>6, <1>7, SameTurns DEF Fleet
<1>9. ~disturbed' => /\ ~disturbed /\ cursor <= saved.cursor
                     /\ \A v \in Workers \ {w} : work'[v] = Idle
                     /\ \A v \in Workers : work[v] = Idle \/ work[v].at = "fetch"
  <2>1. cursor \in Nat /\ saved.cursor \in Nat
    BY <1>1 DEF Reading
  <2>2. ~disturbed' => /\ ~disturbed /\ ~(cursor > saved.cursor)
                       /\ ~ \E v \in Workers : rest[v] # Idle
    BY <1>2, Zenon
  <2> QED BY <1>6, <1>10, <2>1, <2>2
<1> QED BY <1>1, <1>5, <1>6, <1>8, <1>9

LEMMA FleetKeeps ==
    ASSUME Fleet, Reading, Books, [Next]_vars
    PROVE  Fleet'
<1>1. Len(log) \in Nat /\ cursor \in 0..MaxUpd /\ cursor <= Len(log)
  BY DEF Reading
<1>2. ASSUME NEW m \in Message, Arrive(m) PROVE Fleet'
  <2>1. Len(log') = Len(log) + 1 /\ UNCHANGED <<work, routed>>
    BY <1>2 DEF Arrive, Reading, history
  <2> QED BY <1>1, <2>1, FleetStays
<1>3. ASSUME NEW w \in Workers, NEW n, Moves(w, n), Fits(n, Len(log), Submitted),
             UNCHANGED <<log, routed>>
      PROVE  Fleet'
  BY <1>1, <1>3, SameTurns, FleetMoves
<1>4. ASSUME NEW u \in Updates, NEW w \in Workers, Deliver(u, w) PROVE Fleet'
  <2> DEFINE n == [Idle EXCEPT !.at = "next", !.batch = <<u>>]
  <2>1. Moves(w, n) /\ UNCHANGED <<log, routed>> /\ u <= Len(log)
    BY <1>4 DEF Deliver, Moves, history
  <2>2. <<u>> \in Seq(Updates) /\ Len(<<u>>) = 1 /\ <<u>>[1] = u
    OBVIOUS
  <2>3. Idle \in Records /\ Idle.from = 0 /\ u \in 1..Len(log)
    BY <1>1, <2>1, Bounds, IdleFits DEF Idle, Updates
  <2>4. n \in Records /\ n.at = "next" /\ n.batch = <<u>> /\ n.from = 0
    BY <2>2, <2>3 DEF Records, Stages
  <2>5. Run(<<u>>, Len(log))
    BY <2>2, <2>3 DEF Run
  <2> HIDE DEF n
  <2>6. Fits(n, Len(log), Submitted)
    BY <1>1, <2>4, <2>5 DEF Fits, Working
  <2> QED BY <1>3, <2>1, <2>6
<1>5. ASSUME NEW w \in Workers, Start(w) PROVE Fleet'
  <2>1. UNCHANGED <<log, routed>>
    BY <1>5 DEF Start, source, history
  <2>2. CASE kind = "longpoll"
    <3>1. work' = Request(work, w, cursor)
      BY <1>5, <2>2 DEF Start
    <3> QED BY <1>1, <1>3, <2>1, <3>1, RequestMoves DEF Moves
  <2>3. CASE kind # "longpoll"
    <3>1. work' = work
      BY <1>5, <2>3 DEF Start
    <3> QED BY <1>1, <2>1, <3>1, FleetStays
  <2> QED BY <2>2, <2>3
<1>6. CASE Stop
  <2>1. UNCHANGED <<log, routed>> /\ (work' = Aborted(work) \/ work' = work)
    BY <1>6 DEF Stop, source, history
  <2>2. CASE work' = work
    BY <1>1, <2>1, <2>2, FleetStays
  <2>3. CASE work' = Aborted(work)
    BY <2>1, <2>3, StopsFit, SameTurns DEF Fleet
  <2> QED BY <2>1, <2>2, <2>3
<1>7. ASSUME NEW w \in Workers, Configure(w) PROVE Fleet'
  BY <1>7, ConfigureFits
<1>8. CASE Persist \/ Boot
  <2>1. UNCHANGED <<work, log, routed>>
    BY <1>8 DEF Persist, Boot, source, history
  <2> QED BY <1>1, <2>1, FleetStays
<1>9. CASE Crash
  <2>1. work' = [w \in Workers |-> Idle] /\ UNCHANGED <<log, routed>>
    BY <1>9 DEF Crash, source
  <2> QED BY <1>1, <2>1, IdleFits, SameTurns DEF Fleet
<1>10. ASSUME NEW w \in Workers, PollStart(w) PROVE Fleet'
  <2>1. work' = Request(work, w, cursor) /\ UNCHANGED <<log, routed>>
    BY <1>10 DEF PollStart, source, history
  <2> QED BY <1>1, <1>3, <2>1, RequestMoves DEF Moves
<1>11. ASSUME NEW w \in Workers, NEW b \in BOOLEAN, Fetched(w, b) \/ FetchFails(w, b) PROVE Fleet'
  BY <1>3, <1>11, FetchMoves, FetchFailMoves
<1>12. ASSUME NEW w \in Workers, Wake(w) \/ BatchDone(w) PROVE Fleet'
  <2>1. UNCHANGED <<log, routed>> /\ (LoopAgain(w) \/ Moves(w, Idle))
    BY <1>12 DEF Wake, BatchDone, source, history, Moves
  <2> QED BY <1>1, <1>3, <2>1, AgainMoves, IdleFits
<1>13. ASSUME NEW w \in Workers, Finishing(w) PROVE Fleet'
  BY <1>3, <1>13, Finishes, FinishMoves
<1>14. ASSUME NEW w \in Workers, Malformed(w), kind = "poll" PROVE Fleet'
  <2>1. UNCHANGED <<log, routed>> /\ Moves(w, Idle)
    BY <1>14 DEF Malformed, TakeUp, source, Moves
  <2> QED BY <1>1, <1>3, <2>1, IdleFits
<1>15. ASSUME NEW w \in Workers, Admit(w) PROVE Fleet'
  <2>1. UNCHANGED <<log, routed>> /\ Goes(w, "media") /\ work[w].batch # <<>> /\ "media" \in Working
    BY <1>15, AtWork DEF Admit, TakeUp, source, Working
  <2> QED BY <1>3, <2>1, GoesMoves
<1>16. ASSUME NEW w \in Workers, HandlerFails(w), kind # "feishu" PROVE Fleet'
  <2>1. /\ UNCHANGED <<log, routed>> /\ Goes(w, "fallback") /\ work[w].batch # <<>>
        /\ "fallback" \in Working
    BY <1>16, AtWork DEF HandlerFails, source, Working
  <2> QED BY <1>3, <2>1, GoesMoves
<1>17. ASSUME NEW w \in Workers, Attachments(w) PROVE Fleet'
  <2>1. work[w].batch # <<>> /\ log' = log
    BY <1>17, Attaching
  <2>2. CASE Submits(w)
    <3>1. PICK n : Moves(w, n) /\ Fits(n, Len(log), Submitted')
      BY <2>1, <2>2, SubmitsMoves
    <3>2. Submitted \subseteq Submitted'
      BY <2>1, <2>2, SubmitsMoves
    <3> QED BY <1>1, <2>1, <3>1, <3>2, FleetMoves
  <2>3. CASE Finished(w) /\ UNCHANGED routed
    BY <1>3, <2>1, <2>3, FinishMoves
  <2> QED BY <1>17, <2>2, <2>3, Attaching
<1>18. CASE UNCHANGED vars
  <2>1. UNCHANGED <<work, log, routed>>
    BY <1>18 DEF vars, source, history
  <2> QED BY <1>1, <2>1, FleetStays
<1> QED BY <1>2, <1>4, <1>5, <1>6, <1>7, <1>8, <1>9, <1>10, <1>11, <1>12, <1>13, <1>14, <1>15,
           <1>16, <1>17, <1>18 DEF Next, Finishing

-------------------------------------------------------------------------------
(***************************************************************************)
(* The types of the rest.                                                  *)
(***************************************************************************)
\* What taking an update up does to offset and filter.
LEMMA TakesUp ==
    ASSUME Typed, NEW w \in Workers, TakeUp(w)
    PROVE  /\ work[w].batch # <<>> /\ Current(w) \in Updates /\ Current(w) \in 1..Len(log)
           /\ cursor' = IF kind = "longpoll" /\ ~work[w].old THEN Current(w) ELSE cursor
           /\ UNCHANGED <<source, confirmed, up, running, aborter, disturbed, restarts>>
           /\ IF kind = "feishu" THEN Current(w) \notin ToSet(seen) /\ Current(w) \in ToSet(seen')
                                 ELSE UNCHANGED seen
           /\ ToSet(seen') \subseteq ToSet(seen) \cup {Current(w)}
           /\ seen' \in Seq(Updates) /\ Len(seen') <= DedupMax
           /\ evicted' = evicted \cup (ToSet(seen) \ ToSet(seen')) /\ evicted' \subseteq Updates
<1>1. work[w].batch # <<>> /\ work[w].at = "next"
  BY DEF TakeUp, Has
<1>2. Current(w) \in Updates /\ Current(w) \in 1..Len(log)
  BY <1>1, CurrentIs DEF Typed
<1>3. seen \in Seq(Updates) /\ Len(seen) <= DedupMax /\ ToSet(seen) \subseteq Updates
  BY DEF Typed, Gates, ToSet
<1>4. /\ seen' = IF kind = "feishu" THEN RememberFirst(seen, Current(w)) ELSE seen
      /\ evicted' = evicted \cup Forgotten(seen, seen')
      /\ cursor' = IF kind = "longpoll" /\ ~work[w].old THEN Current(w) ELSE cursor
      /\ ~(Current(w) \in ToSet(seen) /\ kind \in {"poll", "feishu"})
      /\ UNCHANGED <<source, confirmed, up, running, aborter, disturbed, restarts>>
  BY DEF TakeUp, Advance, Duplicate
<1>5. CASE kind = "feishu"
  BY <1>1, <1>2, <1>3, <1>4, <1>5, Remembering DEF Typed, Books, Forgotten
<1>6. CASE kind # "feishu"
  BY <1>1, <1>2, <1>3, <1>4, <1>6 DEF Typed, Books, Forgotten
<1> QED BY <1>5, <1>6

\* What a handled update leaves in the filter.
LEMMA Recalls ==
    ASSUME Typed, NEW w \in Workers, work[w].batch # <<>>, Recall(w)
    PROVE  /\ IF kind = "poll" THEN Current(w) \in ToSet(seen') ELSE UNCHANGED seen
           /\ seen' \in Seq(Updates) /\ Len(seen') <= DedupMax
           /\ evicted' = evicted \cup ((ToSet(seen) \ ToSet(seen')) \ {Current(w)})
           /\ ToSet(seen') \subseteq ToSet(seen) \cup {Current(w)}
           /\ evicted' \subseteq Updates
<1>2. Current(w) \in Updates
  BY CurrentIs DEF Typed
<1>3. seen \in Seq(Updates) /\ Len(seen) <= DedupMax /\ ToSet(seen) \subseteq Updates
  BY DEF Typed, Gates, ToSet
<1>4. /\ seen' = IF kind = "poll" THEN Remember(seen, Current(w)) ELSE seen
      /\ evicted' = evicted \cup (Forgotten(seen, seen') \ {Current(w)})
  BY DEF Recall
<1>5. CASE kind = "poll"
  BY <1>2, <1>3, <1>4, <1>5, Remembering DEF Typed, Books, Forgotten
<1>6. CASE kind # "poll"
  BY <1>2, <1>3, <1>4, <1>6 DEF Typed, Books, Forgotten
<1> QED BY <1>5, <1>6

SavedSet == [cursor : 0..MaxUpd, paired : SUBSET Senders, code : BOOLEAN]

\* A save.
LEMMA Saving ==
    ASSUME NEW n \in 0..MaxUpd, NEW p, p \subseteq Senders, NEW c \in BOOLEAN,
           NEW r, r = [cursor |-> n, paired |-> p, code |-> c]
    PROVE  r \in SavedSet /\ r.cursor = n
BY DEF SavedSet

LEMMA ReadingKeeps == ASSUME Typed, [Next]_vars PROVE Reading'
<1>1. /\ Len(log) \in Nat /\ cursor \in 0..MaxUpd /\ cursor <= Len(log) /\ confirmed \in 0..MaxUpd
      /\ confirmed <= Len(log) /\ Len(log) <= MaxUpd /\ saved \in SavedSet /\ saved.cursor <= Len(log)
      /\ saved.cursor \in 0..MaxUpd /\ paired \subseteq Senders /\ code \in BOOLEAN
      /\ kind \in Kinds /\ log \in Seq(Message)
  BY DEF Typed, Reading, Gates, SavedSet
<1>2. ASSUME UNCHANGED source, cursor' \in 0..MaxUpd, cursor' <= Len(log), confirmed' \in 0..MaxUpd,
             confirmed' <= Len(log), saved' \in SavedSet, saved'.cursor <= Len(log)
      PROVE  Reading'
  BY <1>1, <1>2 DEF Reading, source, SavedSet
<1>3. \A a, b \in 0..MaxUpd : a <= Len(log) /\ b <= Len(log) =>
          Bigger(a, b) \in 0..MaxUpd /\ Bigger(a, b) <= Len(log)
  BY DEF Bigger
<1>4. ASSUME NEW m \in Message, Arrive(m) PROVE Reading'
  <2>1. /\ log' = Append(log, m) /\ Len(log) < MaxUpd /\ kind' = kind
        /\ UNCHANGED <<cursor, confirmed, saved>>
    BY <1>4 DEF Arrive
  <2>2. log' \in Seq(Message) /\ Len(log') = Len(log) + 1
    BY <1>1, <2>1
  <2> QED BY <1>1, <2>1, <2>2, Bounds DEF Reading, SavedSet
<1>5. ASSUME NEW u, NEW w, Deliver(u, w) PROVE Reading'
  BY <1>1, <1>5 DEF Deliver, Reading, SavedSet
<1>6. ASSUME NEW w \in Workers, Start(w) PROVE Reading'
  <2>1. code' \in BOOLEAN /\ UNCHANGED <<source, cursor, paired>>
    BY <1>1, <1>6 DEF Start, EnsureCode
  <2>2. saved' = [saved EXCEPT !.code = code', !.paired = paired, !.cursor = cursor]
    BY <1>6 DEF Start
  <2>3. saved' \in SavedSet /\ saved'.cursor = cursor
    BY <1>1, <2>1, <2>2 DEF SavedSet
  <2>4. confirmed' = confirmed \/ confirmed' = Bigger(confirmed, cursor)
    BY <1>6 DEF Start
  <2> QED BY <1>1, <1>2, <1>3, <2>1, <2>3, <2>4
<1>7. CASE Stop \/ \E w \in Workers : PollStart(w)
  BY <1>1, <1>2, <1>7 DEF Stop, PollStart
<1>8. ASSUME NEW w \in Workers, Configure(w) PROVE Reading'
  <2>1. /\ cursor' = saved.cursor /\ confirmed' = Bigger(confirmed, saved.cursor)
        /\ UNCHANGED <<source, saved>>
    BY <1>8 DEF Configure
  <2> QED BY <1>1, <1>2, <1>3, <2>1
<1>9. CASE Persist
  <2>1. saved' = [cursor |-> cursor, paired |-> paired, code |-> code]
        /\ UNCHANGED <<source, cursor, confirmed>>
    BY <1>9 DEF Persist
  <2> QED BY <1>1, <1>2, <2>1, Saving
<1>10. CASE Crash \/ Boot
  <2>1. (cursor' = cursor \/ cursor' = saved.cursor) /\ UNCHANGED <<source, confirmed, saved>>
    BY <1>10 DEF Crash, Boot
  <2> QED BY <1>1, <1>2, <2>1
<1>11. ASSUME NEW w \in Workers, NEW b \in BOOLEAN, Fetched(w, b) \/ FetchFails(w, b) \/ Fallback(w, b)
       PROVE  Reading'
  <2>1. (cursor' = cursor \/ cursor' = Len(log)) /\ UNCHANGED <<source, confirmed, saved>>
    BY <1>11 DEF Fetched, FetchFails, Fallback
  <2> QED BY <1>1, <1>2, <2>1
<1>12. ASSUME NEW w \in Workers, Wake(w) \/ BatchDone(w) PROVE Reading'
  <2>1. UNCHANGED <<source, cursor>>
    BY <1>12 DEF Wake, BatchDone
  <2>2. confirmed' = confirmed \/ confirmed' = Bigger(confirmed, cursor)
    BY <1>12 DEF Wake, BatchDone, LoopAgain
  <2>3. saved' = saved \/ saved' = [cursor |-> cursor, paired |-> paired, code |-> code]
    BY <1>12 DEF Wake, BatchDone
  <2>4. saved' \in SavedSet /\ saved'.cursor <= Len(log)
    BY <1>1, <2>3, Saving
  <2> QED BY <1>1, <1>2, <1>3, <2>1, <2>2, <2>4
<1>13. ASSUME NEW w \in Workers, TakeUp(w), saved' = saved PROVE Reading'
  <2>1. /\ cursor' = cursor \/ (cursor' = Current(w) /\ Current(w) \in 1..Len(log))
        /\ UNCHANGED <<source, confirmed>>
    BY <1>13, TakesUp
  <2>2. cursor' \in 0..MaxUpd /\ cursor' <= Len(log)
    BY <1>1, <2>1, Bounds
  <2> QED BY <1>1, <1>2, <1>13, <2>1, <2>2
<1>14. ASSUME NEW w \in Workers, Malformed(w) \/ GroupGate(w) \/ Prompt(w) \/ Admit(w) PROVE Reading'
  BY <1>13, <1>14 DEF Malformed, GroupGate, Prompt, Admit
<1>15. ASSUME NEW w \in Workers, Pair(w) PROVE Reading'
  <2>1. /\ cursor' = cursor \/ (cursor' = Current(w) /\ Current(w) \in 1..Len(log))
        /\ UNCHANGED <<source, confirmed>> /\ work[w].batch # <<>>
    BY <1>15, TakesUp DEF Pair
  <2>2. saved' = [cursor |-> cursor', paired |-> paired', code |-> code']
    BY <1>15 DEF Pair
  <2>3. cursor' \in 0..MaxUpd /\ cursor' <= Len(log)
    BY <1>1, <2>1, Bounds
  <2>4. paired' \subseteq Senders /\ code' \in BOOLEAN
    <3>1. log[Current(w)] \in Message
      <4>1. Current(w) \in 1..Len(log)
        BY <2>1, CurrentIs DEF Typed
      <4> QED BY <1>1, <4>1
    <3>2. log[Current(w)].from \in Senders
      BY <3>1 DEF Message
    <3> QED BY <1>1, <1>15, <3>2 DEF Pair
  <2>5. saved' \in SavedSet /\ saved'.cursor = cursor'
    BY <2>2, <2>3, <2>4, Saving
  <2> QED BY <1>1, <1>2, <2>1, <2>3, <2>5
<1>16. ASSUME NEW w \in Workers, SkipSeen(w) \/ PollGroupGate(w) \/ Attachments(w) \/ RouterDone(w)
                                 \/ HandlerFails(w)
       PROVE  Reading'
  <2>1. UNCHANGED <<source, cursor, confirmed, saved>>
    BY <1>16 DEF SkipSeen, PollGroupGate, Attachments, RouterDone, HandlerFails
  <2> QED BY <1>1, <1>2, <2>1
<1>17. CASE UNCHANGED vars
  BY <1>1, <1>2, <1>17 DEF vars
<1> QED BY <1>4, <1>5, <1>6, <1>7, <1>8, <1>9, <1>10, <1>11, <1>12, <1>14, <1>15, <1>16, <1>17
        DEF Next

LEMMA HandsHoldUpdates == Fleet => InHand \subseteq Updates
<1> SUFFICES ASSUME Fleet PROVE InHand \subseteq Updates
  OBVIOUS
<1>1. \A w \in Workers : work[w].batch \in Seq(Updates)
  BY DEF Fleet, Records
<1>2. \A q \in Seq(Updates) : ToSet(q) \subseteq Updates
  BY DEF ToSet
<1>3. \A w \in Workers : ToSet(work[w].batch) \subseteq Updates
  BY <1>1, <1>2
<1> QED BY <1>3 DEF InHand

LEMMA BooksKeep == ASSUME Typed, [Next]_vars PROVE Books'
<1>1. /\ routed \in [Updates -> 0..2] /\ answered \subseteq Updates /\ gaveUp \subseteq Updates
      /\ hushed \subseteq Updates /\ evicted \subseteq Updates /\ dropped \subseteq Updates
  BY DEF Typed, Books
<1>2. ASSUME UNCHANGED history PROVE Books'
  BY <1>1, <1>2 DEF history, Books
<1>3. ASSUME NEW w \in Workers, work[w].batch # <<>> PROVE Current(w) \in Updates
  BY <1>3, CurrentIs DEF Typed
<1>4. ASSUME NEW w \in Workers, TakeUp(w), UNCHANGED routed,
             answered' \subseteq answered \cup {Current(w)}, gaveUp' \subseteq gaveUp \cup {Current(w)},
             hushed' \subseteq hushed \cup {Current(w)}, dropped' \subseteq Updates
      PROVE  Books'
  <2>1. evicted' \subseteq Updates /\ Current(w) \in Updates
    BY <1>4, TakesUp
  <2> QED BY <1>1, <1>4, <2>1 DEF Books
<1>5. ASSUME NEW w \in Workers, Malformed(w) \/ GroupGate(w) \/ Pair(w) \/ Prompt(w) \/ Admit(w)
      PROVE  Books'
  <2>1. /\ TakeUp(w) /\ UNCHANGED routed
        /\ answered' \subseteq answered \cup {Current(w)} /\ gaveUp' \subseteq gaveUp \cup {Current(w)}
        /\ hushed' \subseteq hushed \cup {Current(w)}
    BY <1>5 DEF Malformed, GroupGate, Pair, Prompt, Admit, Tell
  <2>2. dropped' = dropped \/ dropped' = dropped \cup ToSet(Tail(work[w].batch))
    BY <1>5 DEF Malformed, GroupGate, Pair, Prompt, Admit
  <2>3. work[w].batch # <<>> /\ work[w].batch \in Seq(Updates)
    BY <2>1, TakesUp DEF Typed, Fleet, Records
  <2>4. ToSet(Tail(work[w].batch)) \subseteq Updates
    <3>1. \A q \in Seq(Updates) : q # <<>> => Tail(q) \in Seq(Updates)
      OBVIOUS
    <3>2. \A q \in Seq(Updates) : ToSet(q) \subseteq Updates
      BY DEF ToSet
    <3> QED BY <2>3, <3>1, <3>2
  <2> QED BY <1>1, <1>4, <2>1, <2>2, <2>4
<1>6. ASSUME NEW w \in Workers, work[w].batch # <<>>, UNCHANGED routed, Recall(w) \/ evicted' = evicted,
             answered' \subseteq answered \cup {Current(w)}, gaveUp' \subseteq gaveUp \cup {Current(w)},
             hushed' \subseteq hushed \cup {Current(w)}, UNCHANGED dropped
      PROVE  Books'
  <2>1. evicted' \subseteq Updates /\ Current(w) \in Updates
    BY <1>1, <1>3, <1>6, Recalls
  <2> QED BY <1>1, <1>6, <2>1 DEF Books
<1>7. ASSUME NEW w \in Workers, PollGroupGate(w) \/ RouterDone(w) \/ HandlerFails(w)
                                \/ \E b \in BOOLEAN : Fallback(w, b)
      PROVE  Books'
  <2>1. work[w].batch # <<>>
    BY <1>7, AtWork DEF Typed, PollGroupGate, RouterDone, HandlerFails, Fallback, Working
  <2>2. /\ UNCHANGED routed /\ (Recall(w) \/ evicted' = evicted)
        /\ answered' \subseteq answered \cup {Current(w)} /\ gaveUp' \subseteq gaveUp \cup {Current(w)}
        /\ hushed' \subseteq hushed \cup {Current(w)} /\ UNCHANGED dropped
    BY <1>7 DEF PollGroupGate, RouterDone, HandlerFails, Fallback, Tell
  <2> QED BY <1>6, <2>1, <2>2
<1>8. ASSUME NEW w \in Workers, Attachments(w) PROVE Books'
  <2>1. /\ work[w].batch # <<>> /\ UNCHANGED <<gaveUp, hushed, dropped>>
        /\ answered' \subseteq answered \cup {Current(w)}
        /\ Submits(w) \/ (Recall(w) /\ UNCHANGED routed)
    BY <1>8, Attaching DEF Typed
  <2>2. CASE Submits(w)
    <3>1. routed' \in [Updates -> 0..2] /\ evicted' = evicted
      BY <2>1, <2>2, SubmitsMoves DEF Typed, Submits
    <3> QED BY <1>1, <1>3, <2>1, <3>1 DEF Books
  <2>3. CASE Recall(w) /\ UNCHANGED routed
    BY <1>6, <2>1, <2>3
  <2> QED BY <2>1, <2>2, <2>3
<1>9. CASE Stop \/ Persist \/ Boot \/ \E m \in Message : Arrive(m)
  BY <1>2, <1>9 DEF Stop, Persist, Boot, Arrive
<1>12. CASE Crash
  <2>1. /\ dropped' = dropped \cup InHand
        /\ UNCHANGED <<routed, answered, gaveUp, hushed, evicted>>
    BY <1>12 DEF Crash
  <2>2. InHand \subseteq Updates
    BY HandsHoldUpdates DEF Typed
  <2> QED BY <1>1, <2>1, <2>2 DEF Books
<1>10. ASSUME NEW w \in Workers,
              \/ \E u \in Updates : Deliver(u, w)
              \/ Start(w) \/ Configure(w) \/ PollStart(w) \/ Wake(w) \/ BatchDone(w) \/ SkipSeen(w)
              \/ \E b \in BOOLEAN : Fetched(w, b) \/ FetchFails(w, b)
       PROVE  Books'
  BY <1>2, <1>10 DEF Deliver, Start, Configure, PollStart, Wake, BatchDone, SkipSeen, Fetched, FetchFails
<1>11. CASE UNCHANGED vars
  BY <1>2, <1>11 DEF vars
<1> QED BY <1>5, <1>7, <1>8, <1>9, <1>10, <1>11, <1>12 DEF Next

LEMMA GatesKeep == ASSUME Typed, [Next]_vars PROVE Gates'
<1>1. Gates
  BY DEF Typed
<1>2. ASSUME pushed' \in [Updates -> 0..MaxDeliver], up' \in BOOLEAN, running' \in BOOLEAN,
             disturbed' \in BOOLEAN, UNCHANGED <<gate, seen>>,
             aborter' \subseteq Workers, \A v, w \in aborter' : v = w
      PROVE  Gates'
  BY <1>1, <1>2 DEF Gates, gate
<1>3. CASE Persist \/ \E m \in Message : Arrive(m)
  BY <1>1, <1>3 DEF Persist, Arrive, Gates, gate, source
<1>4. ASSUME NEW u \in Updates, NEW w \in Workers, Deliver(u, w) PROVE Gates'
  <2>1. pushed[u] \in 0..MaxDeliver /\ pushed[u] < MaxDeliver /\ pushed' = [pushed EXCEPT ![u] = pushed[u] + 1]
    BY <1>1, <1>4 DEF Deliver, Gates
  <2>2. pushed' \in [Updates -> 0..MaxDeliver]
    BY <1>1, <2>1, Bounds DEF Gates
  <2> QED BY <1>1, <1>2, <1>4, <2>2 DEF Deliver, Gates
<1>5. ASSUME NEW w \in Workers, Start(w) PROVE Gates'
  <2>1. code' \in BOOLEAN
    BY <1>1, <1>5 DEF Start, EnsureCode, Gates
  <2>2. /\ running' = TRUE /\ UNCHANGED <<pushed, up, seen, noticed, paired, prompts>>
        /\ aborter' = aborter \/ aborter' = {w}
    BY <1>5 DEF Start, source
  <2>3. disturbed' \in BOOLEAN
    BY <1>1, <1>5 DEF Start, Gates
  <2> QED BY <1>1, <2>1, <2>2, <2>3 DEF Gates
<1>6. CASE Stop
  BY <1>1, <1>6 DEF Stop, Gates, gate, source
<1>7. ASSUME NEW w \in Workers, Configure(w) PROVE Gates'
  <2>1. UNCHANGED <<pushed, up, running, gate, seen>> /\ aborter' = {w}
    BY <1>7 DEF Configure, source
  <2>2. disturbed' \in BOOLEAN
    BY <1>7 DEF Configure
  <2> QED BY <1>1, <1>2, <2>1, <2>2 DEF Gates
<1>8. CASE Crash
  <2>1. <<>> \in Seq(Updates) /\ Len(<<>>) = 0
    OBVIOUS
  <2>2. prompts' = [s \in Senders |-> 0] /\ noticed' = FALSE /\ seen' = <<>>
    BY <1>8 DEF Crash
  <2>3. prompts' \in [Senders -> 0..MaxPrompts]
    BY <2>2, Bounds
  <2>4. /\ up' = FALSE /\ running' = FALSE /\ disturbed' = TRUE /\ aborter' = {}
        /\ UNCHANGED <<pushed, paired, code>>
    BY <1>8 DEF Crash, source
  <2>5. seen' \in Seq(Updates) /\ Len(seen') <= DedupMax
    <3>1. DedupMax \in Nat
      BY Bounds
    <3> QED BY <2>1, <2>2, <3>1
  <2> QED BY <1>1, <2>2, <2>3, <2>4, <2>5 DEF Gates
<1>9. CASE Boot
  <2>1. saved.paired \subseteq Senders /\ saved.code \in BOOLEAN
    BY DEF Typed, Reading
  <2> QED BY <1>1, <1>9, <2>1 DEF Boot, Gates, source
<1>10. ASSUME NEW w \in Workers, PollStart(w) \/ \E b \in BOOLEAN : Fetched(w, b) PROVE Gates'
  BY <1>1, <1>2, <1>10 DEF PollStart, Fetched, source, history, Gates
<1>11. ASSUME NEW w \in Workers, NEW b \in BOOLEAN, FetchFails(w, b) PROVE Gates'
  <2>1. running' \in BOOLEAN
    BY <1>11 DEF FetchFails
  <2> QED BY <1>1, <1>2, <1>11, <2>1 DEF FetchFails, source, Gates
<1>12. ASSUME NEW w \in Workers, Wake(w) \/ BatchDone(w) PROVE Gates'
  <2>1. aborter' = aborter \/ aborter' = {w}
    BY <1>12 DEF Wake, BatchDone, LoopAgain
  <2> QED BY <1>1, <1>2, <1>12, <2>1 DEF Wake, BatchDone, source, Gates
<1>13. ASSUME NEW w \in Workers, TakeUp(w), noticed' \in BOOLEAN, code' \in BOOLEAN,
              paired' \subseteq Senders, prompts' \in [Senders -> 0..MaxPrompts]
       PROVE  Gates'
  <2>1. /\ UNCHANGED <<pushed, up, running, aborter, disturbed>>
        /\ seen' \in Seq(Updates) /\ Len(seen') <= DedupMax
    BY <1>13, TakesUp DEF source
  <2> QED BY <1>1, <1>13, <2>1 DEF Gates
<1>14. ASSUME NEW w \in Workers, Malformed(w) \/ GroupGate(w) \/ Admit(w) PROVE Gates'
  <2>1. TakeUp(w) /\ noticed' \in BOOLEAN /\ UNCHANGED <<code, paired, prompts>>
    BY <1>1, <1>14 DEF Malformed, GroupGate, Admit, gate, Gates
  <2> QED BY <1>1, <1>13, <2>1 DEF Gates
<1>15. ASSUME NEW w \in Workers, TakeUp(w) PROVE log[Current(w)].from \in Senders
  <2>1. Current(w) \in 1..Len(log)
    BY <1>15, TakesUp
  <2>2. log[Current(w)] \in Message
    BY <2>1 DEF Typed, Reading
  <2> QED BY <2>2 DEF Message
<1>16. ASSUME NEW w \in Workers, Pair(w) PROVE Gates'
  <2>1. /\ TakeUp(w) /\ UNCHANGED noticed /\ code' = FALSE
        /\ paired' = paired \cup {log[Current(w)].from}
        /\ prompts' = [prompts EXCEPT ![log[Current(w)].from] = 0]
    BY <1>16 DEF Pair
  <2>2. paired' \subseteq Senders /\ prompts' \in [Senders -> 0..MaxPrompts]
    BY <1>1, <1>15, <2>1, Bounds DEF Gates
  <2> QED BY <1>1, <1>13, <2>1, <2>2 DEF Gates
<1>17. ASSUME NEW w \in Workers, Prompt(w) PROVE Gates'
  <2>1. /\ TakeUp(w) /\ UNCHANGED <<noticed, paired, code>>
        /\ LET s == log[Current(w)].from
           IN  prompts' = [prompts EXCEPT ![s] = IF prompts[s] < MaxPrompts THEN prompts[s] + 1 ELSE prompts[s]]
    BY <1>17 DEF Prompt
  <2>2. prompts' \in [Senders -> 0..MaxPrompts]
    BY <1>1, <1>15, <2>1, Bounds DEF Gates
  <2> QED BY <1>1, <1>13, <2>1, <2>2 DEF Gates
<1>18. ASSUME NEW w \in Workers, work[w].batch # <<>>, Recall(w), noticed' \in BOOLEAN,
              UNCHANGED <<pushed, up, running, aborter, disturbed, code, paired, prompts>>
       PROVE  Gates'
  <2>1. seen' \in Seq(Updates) /\ Len(seen') <= DedupMax
    BY <1>18, Recalls
  <2> QED BY <1>1, <1>18, <2>1 DEF Gates
<1>19. ASSUME NEW w \in Workers, PollGroupGate(w) \/ RouterDone(w) PROVE Gates'
  <2>1. work[w].batch # <<>>
    BY <1>19, AtWork DEF Typed, PollGroupGate, RouterDone, Working
  <2>2. /\ Recall(w) /\ noticed' \in BOOLEAN
        /\ UNCHANGED <<pushed, up, running, aborter, disturbed, code, paired, prompts>>
    BY <1>1, <1>19 DEF PollGroupGate, RouterDone, gate, source, Gates
  <2> QED BY <1>18, <2>1, <2>2
<1>20. ASSUME NEW w \in Workers, HandlerFails(w) PROVE Gates'
  BY <1>1, <1>2, <1>20 DEF HandlerFails, source, Gates
<1>21. ASSUME NEW w \in Workers, Attachments(w) \/ \E b \in BOOLEAN : Fallback(w, b) PROVE Gates'
  <2>1. work[w].batch # <<>>
    BY <1>21, AtWork DEF Typed, Attachments, Fallback, Working
  <2>2. UNCHANGED <<gate, pushed, up, running, aborter, disturbed>> /\ (Recall(w) \/ UNCHANGED seen)
    BY <1>21 DEF Attachments, Fallback, source
  <2> QED BY <1>1, <1>2, <1>18, <2>1, <2>2 DEF gate, Gates
<1>22. ASSUME NEW w \in Workers, SkipSeen(w) PROVE Gates'
  <2>1. UNCHANGED <<gate, pushed, up, running, aborter, disturbed>>
    BY <1>22 DEF SkipSeen, source
  <2>2. seen' \in Seq(Updates) /\ Len(seen') <= DedupMax
    BY <1>1, <1>22, Touching DEF SkipSeen, Duplicate, Gates
  <2> QED BY <1>1, <2>1, <2>2 DEF gate, Gates
<1>23. CASE UNCHANGED vars
  BY <1>1, <1>2, <1>23 DEF vars, source, Gates
<1> QED BY <1>3, <1>4, <1>5, <1>6, <1>7, <1>8, <1>9, <1>10, <1>11, <1>12, <1>14, <1>16, <1>17, <1>19,
           <1>20, <1>21, <1>22, <1>23 DEF Next

LEMMA TypesInit == Init => Typed
<1> SUFFICES ASSUME Init PROVE Typed
  OBVIOUS
<1>1. <<>> \in Seq(Message) /\ <<>> \in Seq(Updates) /\ Len(<<>>) = 0
  OBVIOUS
<1>2. Reading
  <2>1. saved \in [cursor : 0..MaxUpd, paired : SUBSET Senders, code : BOOLEAN] /\ saved.cursor = 0
    BY Bounds DEF Init
  <2>2. kind \in Kinds /\ log = <<>> /\ cursor = 0 /\ confirmed = 0
    BY DEF Init
  <2> QED BY <1>1, <2>1, <2>2, Bounds DEF Reading
<1>4. Gates
  <2>1. pushed \in [Updates -> 0..MaxDeliver] /\ prompts \in [Senders -> 0..MaxPrompts]
    BY Bounds DEF Init
  <2>2. up = TRUE /\ running = FALSE /\ disturbed = FALSE /\ noticed = FALSE /\ code = FALSE
    BY DEF Init
  <2>3. seen = <<>> /\ paired = {} /\ aborter = {}
    BY DEF Init
  <2>4. seen \in Seq(Updates) /\ Len(seen) <= DedupMax
    <3>1. DedupMax \in Nat
      BY Bounds
    <3> QED BY <1>1, <2>3, <3>1
  <2> QED BY <2>1, <2>2, <2>3, <2>4 DEF Gates
<1>5. Books
  BY Bounds DEF Init, Books
<1>3. Fleet
  BY <1>1, IdleFits DEF Init, Fleet
<1> QED BY <1>2, <1>3, <1>4, <1>5 DEF Typed

LEMMA TypesKeep == Typed /\ [Next]_vars => Typed'
BY FleetKeeps, ReadingKeeps, BooksKeep, GatesKeep DEF Typed

LEMMA Types == Spec => []Typed
BY TypesInit, TypesKeep, PTL DEF Spec

\* Every variable has its type: a batch holds updates the platform has, the
\* filter never outgrows its size, one request at most can be aborted.
THEOREM InboundTypes == Spec => []TypeOK
<1>1. Typed => TypeOK
  <2> SUFFICES ASSUME Typed PROVE TypeOK
    OBVIOUS
  <2>1. ToSet(seen) \subseteq Updates /\ \A w \in Workers : ToSet(work[w].batch) \subseteq Updates
    <3>1. \A s \in Seq(Updates) : ToSet(s) \subseteq Updates
      BY DEF ToSet
    <3> QED BY <3>1 DEF Typed, Gates, Fleet, Fits, Records
  <2>2. Cardinality(aborter) <= 1
    <3>1. CASE aborter = {}
      BY <3>1, FS_EmptySet
    <3>2. ASSUME NEW w \in aborter PROVE Cardinality(aborter) <= 1
      <4>1. aborter = {w}
        BY <3>2 DEF Typed, Gates
      <4>2. Cardinality({w}) = 1
        BY FS_Singleton
      <4> QED BY <4>1, <4>2
    <3> QED BY <3>1, <3>2
  <2>3. \A w \in Workers : work[w].at \in Stages
    BY DEF Typed, Fleet, Records
  <2> QED BY <2>1, <2>2, <2>3 DEF TypeOK, Typed, Reading, Gates, Books, Stages
<1> QED BY <1>1, Types, PTL

-------------------------------------------------------------------------------
(***************************************************************************)
(* Submitted at most once.  While nothing was disturbed a polled channel   *)
(* has one worker, whose record is r, and what was submitted is in the     *)
(* filter, or is being handled, or was evicted from the filter.            *)
(* The loop of Telegram has its offset in the place of the filter: what    *)
(* was submitted is not ahead of it, and the batch begins right after it.  *)
(* Feishu's filter holds an event before its handling begins, so that no   *)
(* two workers are at one event.                                           *)
(***************************************************************************)
Fresh(u) == u \notin evicted

\* At most one worker is busy, and r is its record.
Sole(r) ==
    /\ \A w \in Workers : work[w] \in {Idle, r}
    /\ \A v, w \in Workers : work[v] # Idle /\ work[w] # Idle => v = w
    /\ r # Idle => \E w \in Workers : work[w] = r

PollOnce(r) ==
    \A u \in Updates : Fresh(u) =>
        /\ routed[u] <= 1
        /\ routed[u] > 0 => \/ u \in ToSet(seen)
                            \/ (r.at \in {"router", "fallback"} /\ r.batch[1] = u)
        /\ (r.at = "media" /\ r.batch[1] = u) => routed[u] = 0
PollInv ==
    (kind = "poll" /\ ~disturbed) =>
        \E r \in Records : Sole(r) /\ PollOnce(r)

\* The offset of the loop.
LoopReads(r) ==
    /\ confirmed <= cursor /\ saved.cursor <= cursor /\ r.old = FALSE
    /\ r.at = "fetch" => r.from = cursor
    /\ (r.at = "next" /\ r.batch # <<>>) => r.batch[1] = cursor + 1
    /\ r.at \in Working => r.batch[1] = cursor
LoopOnce(r) ==
    /\ \A u \in Updates : routed[u] <= 1 /\ (routed[u] > 0 => u <= cursor)
    /\ r.at = "media" => routed[cursor] = 0
LoopInv ==
    (kind = "longpoll" /\ ~disturbed) =>
        \E r \in Records : Sole(r) /\ LoopReads(r) /\ LoopOnce(r)

\* A worker is about to submit update u.
At(w, u) == work[w].at = "media" /\ work[w].batch[1] = u
PushOnce(u) ==
    /\ routed[u] <= 1
    /\ routed[u] > 0 => u \in ToSet(seen)
    /\ \A w \in Workers : At(w, u) =>
        /\ u \in ToSet(seen) /\ routed[u] = 0
        /\ \A v \in Workers : At(v, u) => v = w
PushInv == (kind = "feishu" /\ ~disturbed) => \A u \in Updates : Fresh(u) => PushOnce(u)

\* A daemon that is down crashed.
CrashSeen == up \/ disturbed

Inv == Typed /\ CrashSeen /\ PollInv /\ LoopInv /\ PushInv

\* The books only grow.
Grows ==
    /\ \A u \in Updates : routed[u] > 0 => routed'[u] > 0
    /\ answered \subseteq answered' /\ gaveUp \subseteq gaveUp'
    /\ hushed \subseteq hushed' /\ evicted \subseteq evicted'

LEMMA StillHandled ==
    ASSUME Grows
    PROVE  \A u \in Updates : (Handled(u) => Handled(u)') /\ (Fresh(u)' => Fresh(u))
BY DEF Grows, Handled, Fresh

\* The one busy worker goes on to the record n.
LEMMA SoleMoves ==
    ASSUME Typed, NEW r, Sole(r), NEW w \in Workers, NEW n, Moves(w, n), work[w] = r \/ work[w] # Idle
    PROVE  Sole(n)' /\ work[w] = r
<1>1. work[w] = r
  BY DEF Sole
<1>2. \A v \in Workers \ {w} : work[v] = Idle
  BY <1>1 DEF Sole
<1>3. work' = [work EXCEPT ![w] = n] /\ DOMAIN work = Workers
  BY DEF Moves, Typed, Fleet
<1>4. work'[w] = n /\ \A v \in Workers \ {w} : work'[v] = Idle
  BY <1>2, <1>3
<1> QED BY <1>1, <1>4 DEF Sole

LEMMA SoleStays == ASSUME NEW r, Sole(r), work' = work PROVE Sole(r)'
BY DEF Sole

LEMMA SoleIdle == ASSUME \A w \in Workers : work[w] = Idle PROVE Sole(Idle)
BY DEF Sole

\* The update at the head of a batch, and the batch without it.
LEMMA Heads ==
    ASSUME NEW r, NEW n \in Nat, NEW done, Fits(r, n, done), r.batch # <<>>
    PROVE  /\ r.batch[1] \in Updates /\ r.batch[1] \in 1..n
           /\ ToSet(r.batch) \subseteq ToSet(Tail(r.batch)) \cup {r.batch[1]}
           /\ Tail(r.batch) # <<>> => Tail(r.batch)[1] = r.batch[1] + 1
           /\ \A u \in ToSet(r.batch) : r.batch[1] <= u /\ u \in Nat
           /\ r.batch[1] \in ToSet(r.batch)
<1> DEFINE b == r.batch
<1>1. b \in Seq(Updates) /\ b # <<>> /\ \A i \in 1..Len(b) : b[i] = b[1] + (i - 1) /\ b[i] \in 1..n
  BY DEF Fits, Run, Records
<1> HIDE DEF b
<1>2. Len(b) \in Nat \ {0} /\ DOMAIN b = 1..Len(b) /\ b[1] \in Updates /\ b[1] \in 1..n
  BY <1>1
<1>3. /\ Tail(b) \in Seq(Updates) /\ Len(Tail(b)) = Len(b) - 1 /\ DOMAIN Tail(b) = 1..(Len(b) - 1)
      /\ \A i \in 1..(Len(b) - 1) : Tail(b)[i] = b[i + 1]
  BY <1>1
<1>4. \A i \in 1..Len(b) : i = 1 \/ (i - 1 \in 1..(Len(b) - 1) /\ (i - 1) + 1 = i)
  BY <1>2
<1>5. ToSet(b) \subseteq ToSet(Tail(b)) \cup {b[1]}
  <2>1. ASSUME NEW i \in 1..Len(b) PROVE b[i] = b[1] \/ \E j \in 1..(Len(b) - 1) : Tail(b)[j] = b[i]
    BY <1>3, <1>4
  <2>2. ASSUME NEW j \in 1..(Len(b) - 1) PROVE Tail(b)[j] \in ToSet(Tail(b))
    BY <1>3 DEF ToSet
  <2>3. ASSUME NEW u \in ToSet(b) PROVE u \in ToSet(Tail(b)) \cup {b[1]}
    <3>1. PICK i \in 1..Len(b) : u = b[i]
      BY <1>2 DEF ToSet
    <3> QED BY <2>1, <2>2, <3>1
  <2> QED BY <2>3
<1>6. Tail(b) # <<>> => Tail(b)[1] = b[1] + 1
  <2> SUFFICES ASSUME Tail(b) # <<>> PROVE Tail(b)[1] = b[1] + 1
    OBVIOUS
  <2>1. Len(Tail(b)) # 0
    BY <1>3
  <2>2. 1 \in 1..(Len(b) - 1) /\ 2 \in 1..Len(b)
    BY <1>2, <1>3, <2>1
  <2>3. Tail(b)[1] = b[2] /\ b[2] = b[1] + (2 - 1)
    BY <1>1, <1>3, <2>2
  <2>4. b[1] \in Nat
    BY <1>2
  <2> QED BY <2>3, <2>4
<1>7. \A u \in ToSet(b) : b[1] <= u /\ u \in Nat
  <2> TAKE u \in ToSet(b)
  <2>1. PICK i \in 1..Len(b) : b[i] = u
    BY <1>2 DEF ToSet
  <2>2. u = b[1] + (i - 1) /\ u \in 1..n
    BY <1>1, <2>1
  <2>3. i \in Nat /\ i >= 1 /\ b[1] \in Nat
    BY <1>2
  <2> QED BY <2>2, <2>3
<1>8. b[1] \in ToSet(b)
  BY <1>2 DEF ToSet
<1> QED BY <1>2, <1>5, <1>6, <1>7, <1>8 DEF b

-------------------------------------------------------------------------------
(***************************************************************************)
(* WeChat.                                                                 *)
(***************************************************************************)
\* The update at the head is done, and the filter has it now.
PollDone(c) ==
    /\ UNCHANGED routed /\ Grows /\ c \in ToSet(seen')
    /\ ToSet(seen) \subseteq ToSet(seen') \cup evicted'

LEMMA PollPops ==
    ASSUME Typed, NEW r, NEW n, Popped(r, n), PollOnce(r), PollDone(r.batch[1])
    PROVE  PollOnce(n)'
<1> DEFINE c == r.batch[1]
<1>1. n.at = "next"
  BY DEF Popped
<1>2. /\ UNCHANGED routed /\ Grows /\ c \in ToSet(seen')
      /\ ToSet(seen) \subseteq ToSet(seen') \cup evicted'
  BY DEF PollDone
<1> HIDE DEF c
<1>3. \A u \in Updates : Fresh(u)' => Fresh(u)
  BY <1>2, StillHandled
<1>8. ASSUME NEW u \in Updates, Fresh(u)'
      PROVE  routed'[u] <= 1 /\ (routed'[u] > 0 => u \in ToSet(seen'))
  <2>1. Fresh(u) /\ u \notin evicted'
    BY <1>3, <1>8 DEF Fresh
  <2>2. routed[u] <= 1 /\ (routed[u] > 0 => u \in ToSet(seen) \/ u = c)
    BY <2>1 DEF PollOnce, c
  <2> QED BY <1>2, <2>1, <2>2
<1> QED BY <1>1, <1>8 DEF PollOnce

\* Where only the worker's record moves.
LEMMA PollGoes ==
    ASSUME Typed, NEW r, NEW n, PollOnce(r), UNCHANGED <<seen, routed>>, Grows,
           \/ (n.at = r.at \/ n.at = "fallback") /\ n.batch = r.batch
           \/ (n.at = "media" /\ n.batch[1] \notin ToSet(seen) /\ r.at = "next")
           \/ n.at \in {"idle", "fetch", "next"} /\ r.at \notin {"router", "fallback"}
    PROVE  PollOnce(n)'
<1>1. \A u \in Updates : Fresh(u)' => Fresh(u)
  BY StillHandled
<1>5. ASSUME NEW u \in Updates, Fresh(u)
      PROVE  /\ routed[u] <= 1
             /\ routed[u] > 0 => \/ u \in ToSet(seen)
                                 \/ (n.at \in {"router", "fallback"} /\ n.batch[1] = u)
             /\ (n.at = "media" /\ n.batch[1] = u) => routed[u] = 0
  <2>0. routed[u] \in Nat
    BY DEF Typed, Books
  <2>1. CASE (n.at = r.at \/ n.at = "fallback") /\ n.batch = r.batch
    BY <1>5, <2>1 DEF PollOnce
  <2>2. CASE n.at = "media" /\ n.batch[1] \notin ToSet(seen) /\ r.at = "next"
    BY <1>5, <2>0, <2>2 DEF PollOnce
  <2>3. CASE n.at \in {"idle", "fetch", "next"} /\ r.at \notin {"router", "fallback"}
    BY <1>5, <2>3 DEF PollOnce
  <2> QED BY <2>1, <2>2, <2>3
<1> QED BY <1>1, <1>5 DEF PollOnce

\* Where nothing but the platform's log and the gates move.
LEMMA PollStays ==
    ASSUME Typed, NEW r, Sole(r), PollOnce(r), UNCHANGED <<work, seen, history>>
    PROVE  Sole(r)' /\ PollOnce(r)'
<1>1. Grows /\ UNCHANGED routed
  BY DEF Grows, history
<1>3. PollOnce(r)'
  BY <1>1, PollGoes
<1> QED BY <1>3, SoleStays

\* The turn is submitted.
LEMMA PollSubmits ==
    ASSUME Typed, NEW w \in Workers, work[w].at = "media", work[w].batch # <<>>,
           PollOnce(work[w]), Submits(w), UNCHANGED <<gaveUp, hushed>>, answered \subseteq answered'
    PROVE  \E n \in Records : Moves(w, n) /\ PollOnce(n)'
<1> DEFINE c == Current(w)
<1>1. c = work[w].batch[1] /\ c \in Updates
  BY CurrentIs DEF Typed
<1>2. PICK n : /\ Moves(w, n) /\ Staged(work[w], n, "router")
               /\ Fits(n, Len(log), Submitted')
  BY SubmitsMoves DEF Typed
<1>3. n \in Records /\ n.at = "router" /\ n.batch = work[w].batch
  BY <1>2 DEF Fits, Staged
<1>4. /\ \A u \in Updates \ {c} : routed'[u] = routed[u]
      /\ routed[c] = 0 => routed'[c] = 1
      /\ routed'[c] > 0
  BY SubmitsMoves DEF Typed
<1>5. UNCHANGED <<seen, evicted>>
  BY DEF Submits
<1>6. Grows
  BY <1>1, <1>4, <1>5 DEF Grows
<1>7. \A u \in Updates : Fresh(u)' => Fresh(u)
  BY <1>6, StillHandled
<1>10. ASSUME NEW u \in Updates, Fresh(u)'
       PROVE  routed'[u] <= 1 /\ (routed'[u] > 0 => u \in ToSet(seen') \/ u = c)
  <2>1. Fresh(u)
    BY <1>7, <1>10
  <2>2. CASE u = c
    <3>1. routed[c] = 0
      BY <1>1, <2>1, <2>2 DEF PollOnce
    <3> QED BY <1>4, <2>2, <3>1
  <2>3. CASE u # c
    <3>1. routed'[u] = routed[u]
      BY <1>4, <2>3
    <3> QED BY <1>1, <1>5, <2>1, <2>3, <3>1 DEF PollOnce
  <2> QED BY <2>2, <2>3
<1> HIDE DEF c
<1>11. PollOnce(n)'
  BY <1>1, <1>3, <1>10 DEF PollOnce
<1> QED BY <1>2, <1>3, <1>11

\* The steps of a poll that end the handling of one update.
LEMMA PollDoes ==
    ASSUME Typed, NEW w \in Workers, kind = "poll",
           \/ Finishing(w)
           \/ /\ Attachments(w) /\ Finished(w) /\ Recall(w) /\ UNCHANGED routed
              /\ answered' = answered \cup {Current(w)}
    PROVE  PollDone(Current(w)) /\ work[w].batch # <<>>
<1> DEFINE c == Current(w)
<1>1. ASSUME Recall(w), UNCHANGED routed, work[w].batch # <<>>,
             answered \subseteq answered', gaveUp \subseteq gaveUp', hushed \subseteq hushed'
      PROVE  PollDone(c)
  <2>1. /\ c \in ToSet(seen')
        /\ evicted' = evicted \cup ((ToSet(seen) \ ToSet(seen')) \ {c})
    BY <1>1, Recalls
  <2> HIDE DEF c
  <2>2. Grows
    BY <1>1, <2>1 DEF Grows
  <2>3. ToSet(seen) \subseteq ToSet(seen') \cup evicted'
    BY <2>1
  <2> QED BY <1>1, <2>1, <2>2, <2>3 DEF PollDone
<1>2. CASE SkipSeen(w)
  <2>1. /\ UNCHANGED history /\ c \in ToSet(seen) /\ seen' = Touch(seen, c)
        /\ work[w].batch # <<>>
    BY <1>2, AtWork DEF SkipSeen, Duplicate, Typed
  <2> HIDE DEF c
  <2>2. ToSet(seen') = ToSet(seen)
    BY <2>1, Touching DEF Typed, Gates
  <2> QED BY <2>1, <2>2 DEF PollDone, Grows, history, c
<1>3. CASE PollGroupGate(w)
  <2>1. /\ UNCHANGED <<routed, gaveUp>> /\ Recall(w) /\ Tell(w, ~noticed)
        /\ work[w].batch # <<>>
    BY <1>3, AtWork DEF PollGroupGate, Typed
  <2>2. answered \subseteq answered' /\ hushed \subseteq hushed'
    BY <2>1 DEF Tell
  <2> QED BY <1>1, <2>1, <2>2
<1>4. CASE RouterDone(w)
  <2>1. UNCHANGED <<routed, gaveUp, answered, hushed>> /\ Recall(w) /\ work[w].batch # <<>>
    BY <1>4, AtWork DEF RouterDone, Typed, Working
  <2> QED BY <1>1, <2>1
<1>5. ASSUME NEW b \in BOOLEAN, Fallback(w, b) PROVE PollDone(c) /\ work[w].batch # <<>>
  <2>1. /\ UNCHANGED <<routed, hushed>> /\ work[w].batch # <<>> /\ Recall(w)
        /\ answered \subseteq answered' /\ gaveUp \subseteq gaveUp'
    BY <1>5, AtWork DEF Fallback, Typed, Working
  <2> QED BY <1>1, <2>1
<1>6. CASE /\ Attachments(w) /\ Finished(w) /\ Recall(w) /\ UNCHANGED routed
           /\ answered' = answered \cup {Current(w)}
  <2>1. UNCHANGED <<gaveUp, hushed>> /\ work[w].batch # <<>>
    BY <1>6, Attaching DEF Typed
  <2> QED BY <1>1, <1>6, <2>1
<1>7. ~(GroupGate(w) \/ Pair(w) \/ Prompt(w) \/ (HandlerFails(w) /\ kind = "feishu"))
  BY DEF GroupGate, Pair, Prompt, Unpaired
<1> QED BY <1>2, <1>3, <1>4, <1>5, <1>6, <1>7 DEF Finishing

\* The kind of a channel is fixed, and a disturbance is not forgotten.
LEMMA Calm == ASSUME Typed, [Next]_vars PROVE kind' = kind /\ (disturbed => disturbed')
<1>1. CASE Stop \/ Persist \/ Boot \/ UNCHANGED vars \/ \E m \in Message : Arrive(m)
  BY <1>1 DEF Stop, Persist, Boot, vars, source, Arrive
<1>2. CASE Crash
  BY <1>2 DEF Crash, source
<1>3. ASSUME NEW w \in Workers, Start(w) \/ Configure(w) PROVE kind' = kind /\ (disturbed => disturbed')
  <2>1. kind' = kind
    BY <1>3 DEF Start, Configure, source
  <2>2. ASSUME disturbed PROVE disturbed'
    <3>1. CASE Start(w) /\ kind = "longpoll"
      <4>1. disturbed' = (disturbed \/ Busy # {})
        BY <3>1 DEF Start
      <4> QED BY <2>2, <4>1, Zenon
    <3>2. CASE Start(w) /\ kind # "longpoll"
      <4>1. disturbed' = disturbed
        BY <3>2 DEF Start
      <4> QED BY <2>2, <4>1, Zenon
    <3>3. CASE Configure(w)
      BY <2>2, <3>3, ConfigureFits DEF Typed
    <3> QED BY <1>3, <3>1, <3>2, <3>3
  <2> QED BY <2>1, <2>2
<1>4. ASSUME NEW w \in Workers,
             \/ \E u \in Updates : Deliver(u, w)
             \/ PollStart(w) \/ Wake(w) \/ BatchDone(w)
             \/ \E b \in BOOLEAN : Fetched(w, b) \/ FetchFails(w, b) \/ Fallback(w, b)
      PROVE  kind' = kind /\ (disturbed => disturbed')
  <2>1. ASSUME PollStart(w) \/ Wake(w) \/ BatchDone(w) \/ \E u \in Updates : Deliver(u, w)
        PROVE  UNCHANGED <<kind, disturbed>>
    BY <2>1 DEF Deliver, PollStart, Wake, BatchDone, source
  <2>2. ASSUME NEW b \in BOOLEAN, Fetched(w, b) \/ FetchFails(w, b) \/ Fallback(w, b)
        PROVE  UNCHANGED <<kind, disturbed>>
    BY <2>2 DEF Fetched, FetchFails, Fallback, source
  <2> QED BY <1>4, <2>1, <2>2
<1>5. ASSUME NEW w \in Workers,
             \/ SkipSeen(w) \/ PollGroupGate(w) \/ Attachments(w) \/ RouterDone(w) \/ HandlerFails(w)
      PROVE  kind' = kind /\ (disturbed => disturbed')
  BY <1>5 DEF SkipSeen, PollGroupGate, Attachments, RouterDone, HandlerFails, source
<1>6. ASSUME NEW w \in Workers, Malformed(w) \/ GroupGate(w) \/ Pair(w) \/ Prompt(w) \/ Admit(w)
      PROVE  kind' = kind /\ (disturbed => disturbed')
  <2>1. TakeUp(w)
    BY <1>6 DEF Malformed, GroupGate, Pair, Prompt, Admit
  <2> QED BY <2>1 DEF TakeUp, source
<1> QED BY <1>1, <1>2, <1>3, <1>4, <1>5, <1>6 DEF Next

LEMMA PollKeeps ==
    ASSUME Typed, CrashSeen, [Next]_vars, kind = "poll", ~disturbed',
           NEW r \in Records, Sole(r), PollOnce(r)
    PROVE  \E n \in Records : Sole(n)' /\ PollOnce(n)'
<1> DEFINE Goal == \E n \in Records : Sole(n)' /\ PollOnce(n)'
<1>1. ~disturbed /\ up /\ Len(log) \in Nat
  BY Calm DEF CrashSeen, Typed, Reading
<1>2. ASSUME UNCHANGED <<work, seen, history>> PROVE Goal
  BY <1>2, PollStays
<1>3. ASSUME NEW w \in Workers, work[w] = r \/ work[w] # Idle
      PROVE  work[w] = r /\ PollOnce(work[w]) /\ \A n \in Records : Moves(w, n) => Sole(n)'
  <2>1. work[w] = r
    BY <1>3 DEF Sole
  <2>2. \A n \in Records : Moves(w, n) => Sole(n)'
    BY <1>3, SoleMoves
  <2> QED BY <2>1, <2>2
<1>4. ASSUME NEW w \in Workers, work[w] = r \/ work[w] # Idle, NEW n \in Records, Moves(w, n),
             UNCHANGED <<seen, routed>>, Grows,
             \/ (n.at = work[w].at \/ n.at = "fallback") /\ n.batch = work[w].batch
             \/ (n.at = "media" /\ n.batch[1] \notin ToSet(seen) /\ work[w].at = "next")
             \/ n.at \in {"idle", "fetch", "next"} /\ work[w].at \notin {"router", "fallback"}
      PROVE  Goal
  <2>1. work[w] = r /\ Sole(n)'
    BY <1>3, <1>4
  <2>3. PollOnce(n)'
    BY <1>4, <2>1, PollGoes
  <2> QED BY <2>1, <2>3
<1>5. ASSUME Stop \/ Persist \/ UNCHANGED vars \/ \E m \in Message : Arrive(m) PROVE Goal
  <2>1. UNCHANGED <<work, seen, history>>
    BY <1>5 DEF Stop, Persist, vars, Arrive
  <2> QED BY <1>2, <2>1
<1>7. ASSUME Boot \/ Crash PROVE Goal
  BY <1>1, <1>7 DEF Boot, Crash
<1>8. ASSUME NEW w \in Workers, Start(w) PROVE Goal
  <2>1. UNCHANGED <<work, seen, history>>
    BY <1>8 DEF Start
  <2> QED BY <1>2, <2>1
<1>9. ASSUME NEW w \in Workers, Configure(w) \/ \E u \in Updates : Deliver(u, w) PROVE Goal
  BY <1>9 DEF Configure, Deliver, Push
<1>10. ASSUME NEW w \in Workers, PollStart(w) PROVE Goal
  <2>1. /\ work' = Request(work, w, cursor) /\ UNCHANGED <<seen, history>>
        /\ \A v \in Workers : work[v] = Idle
    BY <1>10 DEF PollStart, Busy
  <2>2. PICK n : Moves(w, n) /\ Asks(n, cursor) /\ Fits(n, Len(log), Submitted)
    <3>1. cursor \in 0..MaxUpd /\ cursor <= Len(log)
      BY DEF Typed, Reading
    <3> QED BY <2>1, <3>1, RequestMoves DEF Typed, Moves
  <2>3. n \in Records /\ n.at = "fetch"
    BY <2>2 DEF Fits, Asks
  <2>4. work[w] = r /\ work[w].at = "idle"
    BY <2>1, IdleFits DEF Sole, Idle
  <2>5. Grows /\ UNCHANGED routed
    BY <2>1 DEF Grows, history
  <2> QED BY <1>4, <2>1, <2>2, <2>3, <2>4, <2>5
<1>11. ASSUME NEW w \in Workers, Wake(w) \/ BatchDone(w) PROVE Goal
  <2>1. /\ UNCHANGED <<seen, history>> /\ work[w].at \in {"asleep", "next"}
        /\ LoopAgain(w) \/ Moves(w, Idle)
    BY <1>11 DEF Wake, BatchDone, Moves
  <2>2. PICK n : Moves(w, n) /\ (Asks(n, cursor) \/ n = Idle) /\ Fits(n, Len(log), Submitted)
    BY <1>1, <2>1, AgainMoves, IdleFits DEF Typed
  <2>3. work[w] # Idle
    BY <2>1 DEF Idle
  <2>4. n \in Records /\ n.at \in {"fetch", "idle"}
    BY <2>2, IdleFits DEF Fits, Asks, Idle
  <2>5. Grows /\ UNCHANGED routed
    BY <2>1 DEF Grows, history
  <2> QED BY <1>4, <2>1, <2>2, <2>3, <2>4, <2>5
<1>12. ASSUME NEW w \in Workers, NEW b \in BOOLEAN, Fetched(w, b) \/ FetchFails(w, b) PROVE Goal
  <2>1. work[w].at = "fetch" /\ work[w] # Idle /\ UNCHANGED <<seen, history>>
    BY <1>12 DEF Fetched, FetchFails, Idle
  <2>2. PICK n : Moves(w, n) /\ Fits(n, Len(log), Submitted) /\ (n.at = "next" \/ n = Idle)
    BY <1>12, FetchMoves, FetchFailMoves DEF Typed
  <2>3. n \in Records /\ n.at \in {"idle", "next"}
    BY <2>2, IdleFits DEF Fits
  <2>5. Grows /\ UNCHANGED routed
    BY <2>1 DEF Grows, history
  <2> QED BY <1>4, <2>1, <2>2, <2>3, <2>5
<1>14. ASSUME NEW w \in Workers, Malformed(w) PROVE Goal
  <2>1. /\ work[w].batch # <<>> /\ work[w].at = "next"
        /\ gaveUp' = gaveUp \cup {Current(w)} /\ Moves(w, Idle) /\ TakeUp(w)
        /\ UNCHANGED <<routed, answered, hushed>>
    BY <1>14 DEF Malformed, TakeUp, Has, Moves
  <2>2. UNCHANGED <<seen, evicted>>
    BY <2>1 DEF TakeUp, Forgotten
  <2>3. Grows
    BY <2>1, <2>2 DEF Grows
  <2>5. Idle \in Records /\ Idle.at = "idle" /\ work[w] # Idle /\ work[w].at \notin {"router", "fallback"}
    BY <1>1, <2>1, IdleFits
  <2> QED BY <1>4, <2>1, <2>2, <2>3, <2>5
<1>15. ASSUME NEW w \in Workers, Admit(w) PROVE Goal
  <2>1. /\ work[w].batch # <<>> /\ work[w].at = "next" /\ Goes(w, "media") /\ "media" \in Working
        /\ TakeUp(w) /\ UNCHANGED <<routed, answered, gaveUp, hushed>>
    BY <1>15 DEF Admit, TakeUp, Has, Working
  <2>2. UNCHANGED <<seen, evicted>> /\ Current(w) \notin ToSet(seen)
    BY <2>1 DEF TakeUp, Forgotten, Duplicate
  <2>3. PICK n : Moves(w, n) /\ Staged(work[w], n, "media") /\ Fits(n, Len(log), Submitted)
    BY <2>1, GoesMoves DEF Typed
  <2>4. n \in Records /\ n.at = "media" /\ n.batch[1] = Current(w)
    BY <2>1, <2>3, CurrentIs DEF Typed, Fits, Staged
  <2>5. Grows /\ work[w] # Idle
    BY <2>1, <2>2 DEF Grows, Idle
  <2> QED BY <1>4, <2>1, <2>2, <2>3, <2>4, <2>5
<1>16. ASSUME NEW w \in Workers, HandlerFails(w) PROVE Goal
  <2>1. /\ work[w].batch # <<>> /\ Goes(w, "fallback") /\ "fallback" \in Working
        /\ UNCHANGED <<seen, routed, answered, gaveUp, hushed, evicted>>
    BY <1>16, AtWork DEF HandlerFails, Typed, Working
  <2>2. PICK n : Moves(w, n) /\ Staged(work[w], n, "fallback") /\ Fits(n, Len(log), Submitted)
    BY <2>1, GoesMoves DEF Typed
  <2>3. n \in Records /\ n.at = "fallback" /\ n.batch = work[w].batch
    BY <2>2 DEF Fits, Staged
  <2>4. Grows /\ work[w] # Idle
    BY <2>1, IdleFits, <1>1 DEF Grows
  <2> QED BY <1>4, <2>1, <2>2, <2>3, <2>4
<1>17. ASSUME NEW w \in Workers, Finished(w), NEW c, c = Current(w), PollDone(c), work[w].batch # <<>>
       PROVE  Goal
  <2>1. PICK n : Moves(w, n) /\ Popped(work[w], n) /\ Fits(n, Len(log), Submitted)
    BY <1>17, FinishMoves DEF Typed
  <2>2. work[w] # Idle /\ c = work[w].batch[1]
    BY <1>1, <1>17, CurrentIs, IdleFits DEF Typed
  <2>3. work[w] = r /\ PollOnce(work[w]) /\ Sole(n)' /\ n \in Records
    BY <1>3, <2>1, <2>2 DEF Fits
  <2>4. PollDone(r.batch[1]) /\ Popped(r, n)
    BY <1>17, <2>1, <2>2, <2>3
  <2>5. PollOnce(n)'
    BY <2>4, PollPops
  <2> QED BY <2>3, <2>5
<1>19. ASSUME NEW w \in Workers, Finishing(w) PROVE Goal
  <2>1. PollDone(Current(w)) /\ work[w].batch # <<>> /\ Finished(w)
    BY <1>19, PollDoes, Finishes DEF Typed
  <2> QED BY <1>17, <2>1
<1>20. ASSUME NEW w \in Workers, Attachments(w) PROVE Goal
  <2>1. /\ work[w].batch # <<>> /\ work[w].at = "media" /\ UNCHANGED <<gaveUp, hushed>>
        /\ \/ Submits(w) /\ (answered' = answered \/ answered' = answered \cup {Current(w)})
           \/ /\ Finished(w) /\ Recall(w) /\ UNCHANGED routed
              /\ answered' = answered \cup {Current(w)}
    BY <1>20, Attaching DEF Typed
  <2>2. CASE Submits(w) /\ (answered' = answered \/ answered' = answered \cup {Current(w)})
    <3>1. work[w] # Idle
      BY <2>1 DEF Idle
    <3>2. \E n \in Records : Moves(w, n) /\ PollOnce(n)'
      BY <1>3, <2>1, <2>2, <3>1, PollSubmits
    <3> QED BY <1>3, <3>1, <3>2
  <2>3. CASE /\ Finished(w) /\ Recall(w) /\ UNCHANGED routed
             /\ answered' = answered \cup {Current(w)}
    <3>1. PollDone(Current(w))
      BY <1>20, <2>3, PollDoes
    <3> QED BY <1>17, <2>1, <2>3, <3>1
  <2> QED BY <2>1, <2>2, <2>3
<1> HIDE DEF Goal
<1>21. ASSUME NEW w \in Workers,
              \/ SkipSeen(w) \/ GroupGate(w) \/ PollGroupGate(w) \/ Pair(w) \/ Prompt(w) \/ RouterDone(w)
              \/ \E b \in BOOLEAN : Fallback(w, b)
       PROVE  Goal
  BY <1>19, <1>21 DEF Finishing
<1>22. ASSUME NEW w \in Workers,
              \/ \E u \in Updates : Deliver(u, w)
              \/ Start(w) \/ Configure(w) \/ PollStart(w) \/ Wake(w) \/ BatchDone(w)
              \/ \E b \in BOOLEAN : Fetched(w, b) \/ FetchFails(w, b) \/ Fallback(w, b)
              \/ Malformed(w) \/ Admit(w) \/ Attachments(w) \/ HandlerFails(w)
       PROVE  Goal
  BY <1>8, <1>9, <1>10, <1>11, <1>12, <1>14, <1>15, <1>16, <1>20, <1>21, <1>22
<1>23. Goal
  BY <1>5, <1>7, <1>21, <1>22 DEF Next
<1> QED BY <1>23 DEF Goal

-------------------------------------------------------------------------------
(***************************************************************************)
(* Telegram.                                                               *)
(***************************************************************************)
\* The update at the head is done and the offset is at it.
LoopDone(c) ==
    cursor' = c /\ saved'.cursor <= c /\ UNCHANGED <<confirmed, log, routed>> /\ Grows

LEMMA LoopPops ==
    ASSUME Typed, NEW r, Fits(r, Len(log), Submitted), r.batch # <<>>, NEW n, Popped(r, n),
           r.at \in Working \cup {"next"}, LoopReads(r), LoopOnce(r), LoopDone(r.batch[1])
    PROVE  LoopReads(n)' /\ LoopOnce(n)'
<1> DEFINE c == r.batch[1]
<1>1. c \in Updates /\ (n.batch # <<>> => n.batch[1] = c + 1) /\ n.at = "next" /\ n.old = FALSE
  <2>1. Len(log) \in Nat
    BY DEF Typed, Reading
  <2> QED BY <2>1, Heads DEF Popped, LoopReads
<1>2. cursor' = c /\ saved'.cursor <= c /\ UNCHANGED <<confirmed, log, routed>> /\ Grows
  BY DEF LoopDone
<1>3. cursor \in Nat /\ confirmed \in Nat /\ c \in Nat /\ cursor \in 0..MaxUpd
  BY <1>1, Bounds DEF Typed, Reading, Updates
<1>4. c = cursor \/ (c = cursor + 1 /\ r.at = "next")
  BY DEF LoopReads
<1> HIDE DEF c
<1>5. LoopReads(n)'
  BY <1>1, <1>2, <1>3, <1>4 DEF LoopReads, Working
<1>7. \A u \in Updates : routed'[u] <= 1 /\ (routed'[u] > 0 => u <= cursor')
  <2>1. \A u \in Updates : routed[u] <= 1 /\ (routed[u] > 0 => u <= cursor) /\ u \in Nat
    BY Bounds DEF LoopOnce, Updates
  <2> QED BY <1>2, <1>3, <1>4, <2>1
<1>9. LoopOnce(n)'
  BY <1>1, <1>7 DEF LoopOnce
<1> QED BY <1>5, <1>9

\* Where the offset stays and no update is taken up or finished.
LEMMA LoopGoes ==
    ASSUME Typed, NEW r, NEW n, LoopReads(r), LoopOnce(r), UNCHANGED <<cursor, routed>>, Grows,
           confirmed' <= cursor, saved'.cursor <= cursor, n.old = FALSE,
           n.at = "fetch" => n.from = cursor,
           (n.at = "next" /\ n.batch # <<>>) => n.batch[1] = cursor + 1,
           n.at \in Working <=> r.at \in Working,
           n.at \in Working => n.batch = r.batch,
           n.at = "media" => r.at = "media"
    PROVE  LoopReads(n)' /\ LoopOnce(n)'
<1>1. LoopReads(n)'
  BY DEF LoopReads
<1>5. LoopOnce(n)'
  BY DEF LoopOnce
<1> QED BY <1>1, <1>5

\* The offset moves to the update that is taken up, the first after it.
LEMMA LoopAdmits ==
    ASSUME Typed, NEW r, Fits(r, Len(log), Submitted), r.batch # <<>>, r.at = "next",
           NEW n, Staged(r, n, "media"), LoopReads(r), LoopOnce(r),
           cursor' = r.batch[1], UNCHANGED <<confirmed, saved, routed>>, Grows
    PROVE  LoopReads(n)' /\ LoopOnce(n)'
<1>1. cursor' = cursor + 1 /\ cursor' \in Updates /\ cursor \in Nat /\ cursor' \in Nat
  <2>1. r.batch[1] \in Updates
    BY Heads DEF Typed, Reading
  <2>2. r.batch[1] = cursor + 1 /\ cursor \in Nat
    BY DEF LoopReads, Typed, Reading
  <2> QED BY <2>1, <2>2
<1>2. n.at = "media" /\ n.batch = r.batch /\ n.old = r.old /\ n.at \in Working
  BY DEF Staged, Working
<1>3. confirmed \in Nat /\ saved.cursor \in Nat
  BY DEF Typed, Reading
<1>4. LoopReads(n)'
  <2>1. confirmed <= cursor /\ saved.cursor <= cursor /\ r.old = FALSE
    BY DEF LoopReads
  <2>2. confirmed' <= cursor' /\ saved'.cursor <= cursor'
    BY <1>1, <1>3, <2>1
  <2>3. n.old = FALSE /\ n.at # "fetch" /\ n.at # "next" /\ n.batch[1] = cursor'
    BY <1>2, <2>1
  <2> QED BY <2>2, <2>3 DEF LoopReads
<1>8. \A u \in Updates : routed[u] <= 1 /\ (routed[u] > 0 => u <= cursor) /\ routed[u] \in Nat /\ u \in Nat
  BY Bounds DEF LoopOnce, Typed, Books, Updates
<1>9. routed[cursor'] = 0
  BY <1>1, <1>8
<1>10. \A u \in Updates : routed[u] <= 1 /\ (routed[u] > 0 => u <= cursor')
  BY <1>1, <1>8
<1>11. LoopOnce(n)'
  BY <1>2, <1>9, <1>10 DEF LoopOnce
<1> QED BY <1>4, <1>11

LEMMA LoopSubmits ==
    ASSUME Typed, NEW w \in Workers, work[w].at = "media", work[w].batch # <<>>,
           LoopReads(work[w]), LoopOnce(work[w]), Submits(w),
           UNCHANGED <<cursor, confirmed, saved, gaveUp, hushed>>, answered \subseteq answered'
    PROVE  \E n \in Records : Moves(w, n) /\ LoopReads(n)' /\ LoopOnce(n)'
<1> DEFINE c == Current(w)
<1>1. c = work[w].batch[1] /\ c \in Updates /\ c = cursor
  BY CurrentIs DEF Typed, LoopReads, Working
<1>2. PICK n : /\ Moves(w, n) /\ Staged(work[w], n, "router")
               /\ Fits(n, Len(log), Submitted')
  BY SubmitsMoves DEF Typed
<1>3. n \in Records /\ n.at = "router" /\ n.batch = work[w].batch /\ n.old = work[w].old /\ n.at \in Working
  BY <1>2 DEF Fits, Staged, Working
<1>4. /\ \A u \in Updates \ {c} : routed'[u] = routed[u]
      /\ routed[c] = 0 => routed'[c] = 1
      /\ routed'[c] > 0
  BY SubmitsMoves DEF Typed
<1>5. UNCHANGED evicted
  BY DEF Submits
<1>6. Grows
  BY <1>1, <1>4, <1>5 DEF Grows
<1>8. LoopReads(n)'
  BY <1>1, <1>3 DEF LoopReads
<1>11. ASSUME NEW u \in Updates PROVE routed'[u] <= 1 /\ (routed'[u] > 0 => u <= cursor)
  <2>1. CASE u = c
    <3>1. routed[c] = 0 /\ cursor \in Nat
      BY <1>1 DEF LoopOnce, Typed, Reading
    <3> QED BY <1>1, <1>4, <2>1, <3>1
  <2>2. CASE u # c
    <3>1. routed'[u] = routed[u]
      BY <1>4, <2>2
    <3> QED BY <3>1 DEF LoopOnce
  <2> QED BY <2>1, <2>2
<1> HIDE DEF c
<1>12. LoopOnce(n)'
  BY <1>3, <1>11 DEF LoopOnce
<1> QED BY <1>2, <1>3, <1>8, <1>12

\* The steps of the loop that end the handling of one update.
LEMMA LoopDoes ==
    ASSUME Typed, NEW w \in Workers, kind = "longpoll", LoopReads(work[w]),
           \/ Finishing(w)
           \/ /\ Attachments(w) /\ Finished(w) /\ Recall(w) /\ UNCHANGED routed
              /\ answered' = answered \cup {Current(w)}
    PROVE  LoopDone(Current(w)) /\ work[w].batch # <<>> /\ work[w].at \in Working \cup {"next"}
<1>0. PICK c : c = Current(w)
  OBVIOUS
<1>1. cursor \in Nat /\ saved.cursor \in Nat /\ saved.cursor <= cursor /\ work[w].old = FALSE
  BY DEF Typed, Reading, LoopReads
<1>2. ASSUME TakeUp(w), UNCHANGED routed, answered \subseteq answered', gaveUp \subseteq gaveUp',
             hushed \subseteq hushed', saved' = saved \/ saved'.cursor = cursor'
      PROVE  LoopDone(c) /\ work[w].batch # <<>> /\ work[w].at \in Working \cup {"next"}
  <2>1. /\ work[w].batch # <<>> /\ work[w].at = "next" /\ c \in Updates /\ c = work[w].batch[1]
    BY <1>0, <1>2, CurrentIs DEF TakeUp, Has, Typed
  <2>2. /\ cursor' = c /\ UNCHANGED <<log, confirmed>> /\ evicted \subseteq evicted'
    BY <1>0, <1>1, <1>2 DEF TakeUp, Advance, source
  <2>3. c = cursor + 1
    BY <2>1 DEF LoopReads
  <2>4. saved'.cursor <= c
    BY <1>1, <1>2, <2>2, <2>3
  <2> QED BY <1>2, <2>1, <2>2, <2>4 DEF LoopDone, Grows
<1>3. ASSUME Recall(w) \/ evicted' = evicted, UNCHANGED <<cursor, confirmed, saved, log, routed>>,
             work[w].batch # <<>>, work[w].at \in Working,
             answered \subseteq answered', gaveUp \subseteq gaveUp', hushed \subseteq hushed'
      PROVE  LoopDone(c) /\ work[w].batch # <<>> /\ work[w].at \in Working \cup {"next"}
  <2>1. c = cursor
    BY <1>0, <1>3, CurrentIs DEF LoopReads, Typed
  <2>2. evicted \subseteq evicted'
    BY <1>3 DEF Recall
  <2> QED BY <1>1, <1>3, <2>1, <2>2 DEF LoopDone, Grows
<1>4. ASSUME \/ Malformed(w) /\ kind # "poll"
             \/ GroupGate(w) \/ Pair(w) \/ Prompt(w)
      PROVE  LoopDone(c) /\ work[w].batch # <<>> /\ work[w].at \in Working \cup {"next"}
  <2>1. TakeUp(w) /\ UNCHANGED routed
    BY <1>4 DEF Malformed, GroupGate, Pair, Prompt
  <2>2. answered \subseteq answered' /\ gaveUp \subseteq gaveUp' /\ hushed \subseteq hushed'
    BY <1>4 DEF Malformed, GroupGate, Pair, Prompt, Tell
  <2>3. saved' = saved \/ saved'.cursor = cursor'
    BY <1>4 DEF Malformed, GroupGate, Pair, Prompt
  <2> QED BY <1>2, <2>1, <2>2, <2>3
<1>5. ASSUME RouterDone(w)
      PROVE  LoopDone(c) /\ work[w].batch # <<>> /\ work[w].at \in Working \cup {"next"}
  <2>1. /\ UNCHANGED <<cursor, confirmed, saved, log, routed, gaveUp, answered, hushed>> /\ Recall(w)
        /\ work[w].batch # <<>> /\ work[w].at = "router"
    BY <1>5, AtWork DEF RouterDone, source, Typed, Working
  <2> QED BY <1>3, <2>1 DEF Working
<1>6. ASSUME NEW b \in BOOLEAN, Fallback(w, b)
      PROVE  LoopDone(c) /\ work[w].batch # <<>> /\ work[w].at \in Working \cup {"next"}
  <2>1. /\ UNCHANGED <<cursor, confirmed, saved, log, routed, hushed>> /\ work[w].batch # <<>>
        /\ work[w].at = "fallback" /\ Recall(w)
        /\ answered \subseteq answered' /\ gaveUp \subseteq gaveUp'
    BY <1>6, AtWork DEF Fallback, source, Typed, Working
  <2> QED BY <1>3, <2>1 DEF Working
<1>7. ASSUME /\ Attachments(w) /\ Finished(w) /\ Recall(w) /\ UNCHANGED routed
             /\ answered' = answered \cup {Current(w)}
      PROVE  LoopDone(c) /\ work[w].batch # <<>> /\ work[w].at \in Working \cup {"next"}
  <2>1. /\ UNCHANGED <<cursor, confirmed, saved, log, gaveUp, hushed>> /\ work[w].batch # <<>>
        /\ work[w].at = "media"
    BY <1>7, Attaching DEF Typed
  <2> QED BY <1>3, <1>7, <2>1 DEF Working
<1>8. ~SkipSeen(w) /\ ~PollGroupGate(w) /\ ~(HandlerFails(w) /\ kind = "feishu")
  BY DEF SkipSeen, Duplicate, PollGroupGate
<1> QED BY <1>0, <1>4, <1>5, <1>6, <1>7, <1>8 DEF Finishing

LEMMA LoopKeeps ==
    ASSUME Typed, CrashSeen, [Next]_vars, kind = "longpoll", ~disturbed',
           NEW r \in Records, Sole(r), LoopReads(r), LoopOnce(r)
    PROVE  \E n \in Records : Sole(n)' /\ LoopReads(n)' /\ LoopOnce(n)'
<1> DEFINE Goal == \E n \in Records : Sole(n)' /\ LoopReads(n)' /\ LoopOnce(n)'
<1>1. /\ ~disturbed /\ up /\ Len(log) \in Nat /\ cursor \in Nat /\ confirmed \in Nat
      /\ confirmed <= cursor /\ saved.cursor <= cursor /\ saved.cursor \in Nat
      /\ cursor \in 0..MaxUpd /\ cursor <= Len(log) /\ r.old = FALSE
  BY Calm DEF CrashSeen, Typed, Reading, LoopReads
<1>2. ASSUME NEW w \in Workers, work[w] = r \/ work[w] # Idle
      PROVE  /\ work[w] = r /\ LoopReads(work[w]) /\ LoopOnce(work[w])
             /\ \A n \in Records : Moves(w, n) => Sole(n)'
  <2>1. work[w] = r
    BY <1>2 DEF Sole
  <2>2. \A n \in Records : Moves(w, n) => Sole(n)'
    BY <1>2, SoleMoves
  <2> QED BY <2>1, <2>2
<1>3. ASSUME NEW n \in Records, Sole(n)', UNCHANGED <<cursor, history>>,
             confirmed' = confirmed \/ confirmed' = Bigger(confirmed, cursor),
             saved' = saved \/ saved'.cursor = cursor, n.old = FALSE,
             n.at = "fetch" => n.from = cursor,
             (n.at = "next" /\ n.batch # <<>>) => n.batch[1] = cursor + 1,
             n.at \in Working <=> r.at \in Working,
             n.at \in Working => n.batch = r.batch,
             n.at = "media" => r.at = "media"
      PROVE  Goal
  <2>1. confirmed' <= cursor
    BY <1>1, <1>3 DEF Bigger
  <2>2. saved'.cursor <= cursor
    BY <1>1, <1>3
  <2>3. Grows /\ UNCHANGED routed
    BY <1>3 DEF Grows, history
  <2>4. LoopReads(n)' /\ LoopOnce(n)'
    BY <1>3, <2>1, <2>2, <2>3, LoopGoes
  <2> QED BY <1>3, <2>4
<1>4. ASSUME UNCHANGED <<work, cursor, history, confirmed>>, saved' = saved \/ saved'.cursor = cursor
      PROVE  Goal
  <2>1. Sole(r)'
    BY <1>4, SoleStays
  <2>2. /\ r.at = "fetch" => r.from = cursor
        /\ (r.at = "next" /\ r.batch # <<>>) => r.batch[1] = cursor + 1
    BY DEF LoopReads
  <2> QED BY <1>1, <1>3, <1>4, <2>1, <2>2
\* A record that is not at an update: idle, asking or asleep.
<1>5. ASSUME NEW n \in Records, Sole(n)', UNCHANGED <<cursor, history>>, n = Idle \/ Asks(n, cursor),
             confirmed' = confirmed \/ confirmed' = Bigger(confirmed, cursor),
             saved' = saved \/ saved'.cursor = cursor, r.at \notin Working
      PROVE  Goal
  <2>1. n.old = FALSE /\ n.at \in {"idle", "fetch"} /\ (n.at = "fetch" => n.from = cursor)
    BY <1>5 DEF Idle, Asks
  <2>2. n.at \notin Working /\ n.at # "next" /\ n.at # "media"
    BY <2>1 DEF Working
  <2> QED BY <1>3, <1>5, <2>1, <2>2
<1>6. ASSUME (\E m \in Message : Arrive(m)) \/ Persist \/ UNCHANGED vars PROVE Goal
  <2>1. UNCHANGED <<work, cursor, history, confirmed>>
    BY <1>6 DEF Arrive, Persist, vars
  <2>2. saved' = saved \/ saved'.cursor = cursor
    BY <1>6 DEF Arrive, Persist, vars
  <2> QED BY <1>4, <2>1, <2>2
<1>7. ASSUME Boot \/ Crash PROVE Goal
  BY <1>1, <1>7 DEF Boot, Crash
<1>8. ASSUME NEW w \in Workers, PollStart(w) \/ \E u \in Updates : Deliver(u, w) PROVE Goal
  BY <1>8 DEF PollStart, Deliver, Push
<1>9. ASSUME NEW w \in Workers, Start(w) PROVE Goal
  <2>1. disturbed' = (disturbed \/ Busy # {})
    BY <1>9 DEF Start
  <2>2. Busy = {}
    BY <2>1, Zenon
  <2>3. r = Idle /\ work[w] = r
    BY <2>2 DEF Busy, Sole
  <2>4. /\ work' = Request(work, w, cursor) /\ confirmed' = Bigger(confirmed, cursor)
        /\ UNCHANGED <<cursor, history>>
    BY <1>9 DEF Start
  <2>5. saved' = [saved EXCEPT !.code = code', !.paired = paired, !.cursor = cursor]
    BY <1>9 DEF Start
  <2>6. saved'.cursor = cursor
    BY <2>5 DEF Typed, Reading
  <2>7. PICK n : Moves(w, n) /\ Asks(n, cursor) /\ Fits(n, Len(log), Submitted)
    BY <1>1, <2>4, RequestMoves DEF Typed, Moves
  <2>8. n \in Records /\ Sole(n)'
    BY <1>2, <2>3, <2>7 DEF Fits
  <2>9. r.at \notin Working
    BY <2>3 DEF Idle, Working
  <2> QED BY <1>5, <2>4, <2>6, <2>7, <2>8, <2>9
<1>10. ASSUME Stop PROVE Goal
  <2>1. work' = Aborted(work) /\ UNCHANGED <<cursor, history, confirmed, saved>>
    BY <1>10 DEF Stop
  <2>2. CASE \E w \in aborter : work[w].at = "fetch"
    <3>1. PICK w \in aborter : work[w].at = "fetch"
      BY <2>2
    <3>2. w \in Workers /\ work[w] # Idle
      BY <3>1 DEF Typed, Gates, Idle
    <3>3. work[w] = r /\ \A v \in Workers \ {w} : work[v] = Idle
      BY <3>2 DEF Sole
    <3>4. \A v \in Workers : Aborted(work)[v] = Idle
      BY <3>1, <3>2, <3>3 DEF Aborted
    <3>5. work' = [v \in Workers |-> Idle]
      BY <2>1, <3>4 DEF Aborted
    <3>6. Sole(Idle)'
      BY <3>5 DEF Sole
    <3>7. r.at \notin Working /\ Idle \in Records
      BY <1>1, <3>1, <3>3, IdleFits DEF Working
    <3> QED BY <1>5, <2>1, <3>6, <3>7
  <2>3. CASE ~ \E w \in aborter : work[w].at = "fetch"
    <3>1. \A v \in Workers : Aborted(work)[v] = work[v]
      BY <2>3 DEF Aborted
    <3>2. Aborted(work) = [v \in Workers |-> Aborted(work)[v]] /\ work = [v \in Workers |-> work[v]]
      BY DEF Aborted, Typed, Fleet
    <3>3. work' = work
      BY <2>1, <3>1, <3>2
    <3> QED BY <1>4, <2>1, <3>3
  <2> QED BY <2>2, <2>3
<1>11. ASSUME NEW w \in Workers, Configure(w) PROVE Goal
  <2>1. /\ Asks(work'[w], saved.cursor) /\ cursor <= saved.cursor
        /\ \A v \in Workers \ {w} : work'[v] = Idle
        /\ \A v \in Workers : work[v] = Idle \/ work[v].at = "fetch"
        /\ work' \in [Workers -> Records]
    BY <1>11, ConfigureFits DEF Typed, Fleet
  <2>2. /\ cursor' = saved.cursor /\ confirmed' = Bigger(confirmed, saved.cursor)
        /\ UNCHANGED <<saved, history>>
    BY <1>11 DEF Configure
  <2>3. saved.cursor = cursor
    BY <1>1, <2>1
  <2>4. PICK n : n = work'[w]
    OBVIOUS
  <2>5. n \in Records /\ Sole(n)' /\ Asks(n, cursor)
    BY <2>1, <2>3, <2>4 DEF Sole
  <2>6. r.at \notin Working
    BY <2>1 DEF Sole, Idle, Working
  <2> QED BY <1>5, <2>2, <2>3, <2>5, <2>6
<1>12. ASSUME NEW w \in Workers, Wake(w) \/ BatchDone(w) PROVE Goal
  <2>1. /\ LoopAgain(w) /\ UNCHANGED <<cursor, history, saved>> /\ work[w].at \in {"asleep", "next"}
    BY <1>12 DEF Wake, BatchDone
  <2>2. PICK n : Moves(w, n) /\ (Asks(n, cursor) \/ n = Idle) /\ Fits(n, Len(log), Submitted)
    BY <2>1, AgainMoves DEF Typed
  <2>3. confirmed' = confirmed \/ confirmed' = Bigger(confirmed, cursor)
    BY <2>1 DEF LoopAgain
  <2>4. work[w] # Idle /\ work[w].at \notin Working
    BY <2>1 DEF Idle, Working
  <2>5. n \in Records /\ Sole(n)' /\ work[w] = r
    BY <1>2, <2>2, <2>4 DEF Fits
  <2> QED BY <1>5, <2>1, <2>2, <2>3, <2>4, <2>5
<1>13. ASSUME NEW w \in Workers, NEW b \in BOOLEAN, Fetched(w, b) PROVE Goal
  <2>1. PICK n : /\ Moves(w, n) /\ Fits(n, Len(log), Submitted)
                 /\ n.at = "next" /\ n.from = work[w].from /\ n.old = work[w].old
                 /\ n.batch \in Seq(Updates)
                 /\ \A i \in 1..Len(n.batch) : n.batch[i] = Bigger(work[w].from, confirmed) + i
    BY <1>13, FetchMoves DEF Typed
  <2>2. work[w].at = "fetch" /\ UNCHANGED <<confirmed, saved, history>>
    BY <1>13 DEF Fetched
  <2>8. UNCHANGED cursor
    <3>1. (b => kind = "poll") /\ cursor' = IF b THEN Len(log) ELSE cursor
      BY <1>13 DEF Fetched
    <3>2. ~b
      BY <3>1
    <3> QED BY <3>1, <3>2
  <2>3. cursor' = cursor /\ work[w] # Idle /\ work[w].at \notin Working
    BY <2>2, <2>8 DEF Idle, Working
  <2>4. n \in Records /\ Sole(n)' /\ work[w] = r
    BY <1>2, <2>1, <2>3 DEF Fits
  <2>5. work[w].from = cursor /\ Bigger(work[w].from, confirmed) = cursor
    BY <1>1, <2>2, <2>4 DEF LoopReads, Bigger
  <2>6. n.batch # <<>> => n.batch[1] = cursor + 1
    <3> SUFFICES ASSUME n.batch # <<>> PROVE n.batch[1] = cursor + 1
      OBVIOUS
    <3>1. 1 \in 1..Len(n.batch)
      BY <2>1
    <3> QED BY <2>1, <2>5, <3>1
  <2>7. n.at \notin Working /\ n.at # "fetch" /\ n.at # "media" /\ n.old = FALSE
    BY <1>1, <2>1, <2>4 DEF Working
  <2> QED BY <1>3, <2>2, <2>3, <2>4, <2>6, <2>7
<1>14. ASSUME NEW w \in Workers, NEW b \in BOOLEAN, FetchFails(w, b) PROVE Goal
  <2>1. PICK n : /\ Moves(w, n) /\ Fits(n, Len(log), Submitted)
                 /\ n = Idle \/ (Staged(work[w], n, "asleep") /\ kind = "longpoll")
    BY <1>14, FetchFailMoves DEF Typed
  <2>2. work[w].at = "fetch" /\ UNCHANGED <<cursor, confirmed, saved, history>>
    BY <1>14, FetchFailMoves DEF Typed
  <2>3. work[w] # Idle /\ work[w].at \notin Working
    BY <2>2 DEF Idle, Working
  <2>4. n \in Records /\ Sole(n)' /\ work[w] = r
    BY <1>2, <2>1, <2>3 DEF Fits
  <2>5. n.old = FALSE /\ n.at \in {"idle", "asleep"}
    BY <1>1, <2>1, <2>4 DEF Staged, Idle
  <2>6. n.at \notin Working /\ n.at # "fetch" /\ n.at # "media" /\ n.at # "next"
    BY <2>5 DEF Working
  <2> QED BY <1>3, <2>2, <2>3, <2>4, <2>5, <2>6
<1>15. ASSUME NEW w \in Workers, Admit(w) PROVE Goal
  <2>1. /\ work[w].batch # <<>> /\ work[w].at = "next" /\ Goes(w, "media") /\ "media" \in Working
        /\ TakeUp(w) /\ UNCHANGED <<routed, answered, gaveUp, hushed, saved>>
    BY <1>15 DEF Admit, TakeUp, Has, Working
  <2>2. work[w] # Idle /\ work[w].old = FALSE
    BY <1>1, <1>2, <2>1 DEF Idle
  <2>3. /\ UNCHANGED confirmed /\ evicted \subseteq evicted' /\ cursor' = Current(w)
    BY <2>1, <2>2 DEF TakeUp, Advance
  <2>4. PICK n : Moves(w, n) /\ Staged(work[w], n, "media") /\ Fits(n, Len(log), Submitted)
    BY <2>1, GoesMoves DEF Typed
  <2>5. n \in Records /\ Current(w) = work[w].batch[1] /\ Fits(work[w], Len(log), Submitted)
    BY <2>1, <2>4, CurrentIs DEF Typed, Fleet, Fits
  <2>6. Grows
    BY <2>1, <2>3 DEF Grows
  <2>7. LoopReads(n)' /\ LoopOnce(n)'
    BY <1>2, <2>1, <2>2, <2>3, <2>4, <2>5, <2>6, LoopAdmits
  <2> QED BY <1>2, <2>2, <2>4, <2>5, <2>7
<1>16. ASSUME NEW w \in Workers, HandlerFails(w) PROVE Goal
  <2>1. /\ work[w].batch # <<>> /\ work[w].at \in Working /\ Goes(w, "fallback") /\ "fallback" \in Working
        /\ UNCHANGED <<cursor, confirmed, saved, history>>
    BY <1>16, AtWork DEF HandlerFails, Typed, Working, history
  <2>2. PICK n : Moves(w, n) /\ Staged(work[w], n, "fallback") /\ Fits(n, Len(log), Submitted)
    BY <2>1, GoesMoves DEF Typed
  <2>3. work[w] # Idle
    BY <1>1, <2>1, IdleFits
  <2>4. n \in Records /\ Sole(n)' /\ work[w] = r
    BY <1>2, <2>2, <2>3 DEF Fits
  <2>5. n.at = "fallback" /\ n.batch = r.batch /\ n.old = FALSE
    BY <1>1, <2>2, <2>4 DEF Staged
  <2> QED BY <1>3, <2>1, <2>4, <2>5
<1>17. ASSUME NEW w \in Workers, Finished(w), LoopDone(Current(w)), work[w].batch # <<>>,
              work[w].at \in Working \cup {"next"}
       PROVE  Goal
  <2>1. PICK n : Moves(w, n) /\ Popped(work[w], n) /\ Fits(n, Len(log), Submitted)
    BY <1>17, FinishMoves DEF Typed
  <2>2. work[w] # Idle /\ Current(w) = work[w].batch[1] /\ Fits(work[w], Len(log), Submitted)
    BY <1>1, <1>17, CurrentIs, IdleFits DEF Typed, Fleet
  <2>3. LoopReads(work[w]) /\ LoopOnce(work[w]) /\ work[w] = r
    BY <1>2, <2>2
  <2>4. r.batch # <<>> /\ r.at \in Working \cup {"next"} /\ Popped(r, n) /\ Fits(r, Len(log), Submitted)
    BY <1>17, <2>1, <2>2, <2>3
  <2>5. PICK c : c = Current(w)
    OBVIOUS
  <2>6. LoopDone(c)
    BY <1>17, <2>5 DEF LoopDone
  <2>7. c = r.batch[1]
    BY <2>2, <2>3, <2>5
  <2>8. LoopReads(n)' /\ LoopOnce(n)'
    BY <2>4, <2>6, <2>7, LoopPops
  <2>9. n \in Records /\ Sole(n)'
    BY <1>2, <2>1, <2>2 DEF Fits
  <2> QED BY <2>8, <2>9
<1>18. ASSUME NEW w \in Workers, work[w].batch # <<>> PROVE LoopReads(work[w]) /\ LoopOnce(work[w])
  <2>1. work[w] # Idle
    BY <1>1, <1>18, IdleFits
  <2> QED BY <1>2, <2>1
<1>19. ASSUME NEW w \in Workers, Finishing(w) PROVE Goal
  <2>1. work[w].batch # <<>> /\ Finished(w)
    BY <1>19, Finishes DEF Typed
  <2>2. LoopDone(Current(w)) /\ work[w].at \in Working \cup {"next"}
    BY <1>18, <1>19, <2>1, LoopDoes
  <2> QED BY <1>17, <2>1, <2>2
<1>20. ASSUME NEW w \in Workers, Attachments(w) PROVE Goal
  <2>1. /\ work[w].batch # <<>> /\ work[w].at = "media"
        /\ UNCHANGED <<cursor, confirmed, saved, gaveUp, hushed>>
        /\ \/ Submits(w) /\ (answered' = answered \/ answered' = answered \cup {Current(w)})
           \/ /\ Finished(w) /\ Recall(w) /\ UNCHANGED routed
              /\ answered' = answered \cup {Current(w)}
    BY <1>20, Attaching DEF Typed
  <2>2. CASE Submits(w) /\ (answered' = answered \/ answered' = answered \cup {Current(w)})
    <3>1. work[w] # Idle
      BY <2>1 DEF Idle
    <3>2. \E n \in Records : Moves(w, n) /\ LoopReads(n)' /\ LoopOnce(n)'
      BY <1>18, <2>1, <2>2, LoopSubmits
    <3> QED BY <1>2, <3>1, <3>2
  <2>3. CASE /\ Finished(w) /\ Recall(w) /\ UNCHANGED routed
             /\ answered' = answered \cup {Current(w)}
    <3>1. LoopDone(Current(w)) /\ work[w].at \in Working \cup {"next"}
      BY <1>18, <1>20, <2>1, <2>3, LoopDoes
    <3> QED BY <1>17, <2>1, <2>3, <3>1
  <2> QED BY <2>1, <2>2, <2>3
<1> HIDE DEF Goal
<1>21. ASSUME NEW w \in Workers,
              \/ SkipSeen(w) \/ Malformed(w) \/ GroupGate(w) \/ PollGroupGate(w) \/ Pair(w) \/ Prompt(w)
              \/ RouterDone(w) \/ \E b \in BOOLEAN : Fallback(w, b)
       PROVE  Goal
  BY <1>19, <1>21 DEF Finishing
<1>22. ASSUME NEW w \in Workers,
              \/ \E u \in Updates : Deliver(u, w)
              \/ Start(w) \/ Configure(w) \/ PollStart(w) \/ Wake(w) \/ BatchDone(w)
              \/ \E b \in BOOLEAN : Fetched(w, b) \/ FetchFails(w, b) \/ Fallback(w, b)
              \/ Admit(w) \/ Attachments(w) \/ HandlerFails(w)
       PROVE  Goal
  BY <1>8, <1>9, <1>11, <1>12, <1>13, <1>14, <1>15, <1>16, <1>20, <1>21, <1>22
<1>23. Goal
  BY <1>6, <1>7, <1>10, <1>21, <1>22 DEF Next
<1> QED BY <1>23 DEF Goal

-------------------------------------------------------------------------------
(***************************************************************************)
(* Feishu.                                                                 *)
(***************************************************************************)
Once == \A u \in Updates : Fresh(u) => PushOnce(u)

\* No worker comes to the point of submitting, and the filter forgets only
\* what is booked as evicted.
LEMMA PushGoes ==
    ASSUME Typed, Once, Grows, UNCHANGED routed, ToSet(seen) \subseteq ToSet(seen') \cup evicted',
           \A v \in Workers : \A u \in Updates : At(v, u)' => At(v, u)
    PROVE  Once'
<1> SUFFICES ASSUME NEW u \in Updates, Fresh(u)' PROVE PushOnce(u)'
  BY DEF Once
<1>1. Fresh(u) /\ u \notin evicted'
  BY StillHandled DEF Fresh
<1>2. PushOnce(u)
  BY <1>1 DEF Once
<1>3. u \in ToSet(seen) => u \in ToSet(seen')
  BY <1>1
<1> QED BY <1>2, <1>3 DEF PushOnce

LEMMA NotAt ==
    ASSUME Typed, NEW w \in Workers, NEW n, Moves(w, n), n.at # "media"
    PROVE  \A v \in Workers : \A u \in Updates : At(v, u)' => At(v, u)
<1>1. work'[w] = n /\ \A v \in Workers \ {w} : work'[v] = work[v]
  BY DEF Moves, Typed, Fleet
<1> QED BY <1>1 DEF At

\* An event that passes the filter is at one worker, and was not submitted.
LEMMA PushAdmits ==
    ASSUME Typed, Once, kind = "feishu", NEW w \in Workers, Admit(w)
    PROVE  Once'
<1>1. /\ work[w].batch # <<>> /\ Goes(w, "media") /\ "media" \in Working
      /\ TakeUp(w) /\ UNCHANGED <<routed, answered, gaveUp, hushed>>
  BY DEF Admit, TakeUp, Has, Working
<1>2. PICK c : c = Current(w)
  OBVIOUS
<1>3. /\ c \in Updates /\ c \notin ToSet(seen) /\ c \in ToSet(seen')
      /\ evicted' = evicted \cup (ToSet(seen) \ ToSet(seen'))
  BY <1>1, <1>2, TakesUp
<1>4. PICK n : Moves(w, n) /\ Staged(work[w], n, "media")
  BY <1>1, GoesMoves DEF Typed
<1>5. n.at = "media" /\ n.batch[1] = c
  BY <1>1, <1>2, <1>4, CurrentIs DEF Staged, Typed
<1>6. work'[w] = n /\ \A v \in Workers \ {w} : work'[v] = work[v]
  BY <1>4 DEF Moves, Typed, Fleet
<1>7. Grows
  BY <1>1, <1>3 DEF Grows
<1> SUFFICES ASSUME NEW u \in Updates, Fresh(u)' PROVE PushOnce(u)'
  BY DEF Once
<1>8. Fresh(u) /\ u \notin evicted'
  BY <1>7, StillHandled DEF Fresh
<1>9. PushOnce(u)
  BY <1>8 DEF Once
<1>10. CASE u = c
  <2>1. routed[u] = 0
    <3>1. routed[u] \in Nat
      BY DEF Typed, Books
    <3> QED BY <1>3, <1>9, <1>10, <3>1 DEF PushOnce
  <2>2. \A v \in Workers : ~At(v, u)
    BY <1>3, <1>9, <1>10 DEF PushOnce
  <2>3. \A v \in Workers : At(v, u)' => v = w
    BY <1>6, <2>2 DEF At
  <2> QED BY <1>1, <1>3, <1>10, <2>1, <2>3 DEF PushOnce
<1>11. CASE u # c
  <2>1. \A v \in Workers : At(v, u)' => At(v, u)
    BY <1>5, <1>6, <1>11 DEF At
  <2>2. u \in ToSet(seen) => u \in ToSet(seen')
    BY <1>3, <1>8
  <2> QED BY <1>1, <1>9, <2>1, <2>2 DEF PushOnce
<1> QED BY <1>10, <1>11

\* The turn of an event is submitted by the one worker that is at it.
LEMMA PushSubmits ==
    ASSUME Typed, Once, NEW w \in Workers, work[w].at = "media", work[w].batch # <<>>, Submits(w),
           UNCHANGED <<gaveUp, hushed>>, answered \subseteq answered'
    PROVE  Once'
<1>1. PICK c : c = Current(w)
  OBVIOUS
<1>2. c = work[w].batch[1] /\ c \in Updates /\ At(w, c)
  BY <1>1, CurrentIs DEF Typed, At
<1>3. PICK n : Moves(w, n) /\ Staged(work[w], n, "router")
  BY SubmitsMoves DEF Typed
<1>4. /\ \A u \in Updates \ {c} : routed'[u] = routed[u]
      /\ routed[c] = 0 => routed'[c] = 1
      /\ routed'[c] > 0
  BY <1>1, SubmitsMoves DEF Typed
<1>5. UNCHANGED <<seen, evicted>>
  BY DEF Submits
<1>6. Grows
  BY <1>2, <1>4, <1>5 DEF Grows
<1>7. work'[w] = n /\ (\A v \in Workers \ {w} : work'[v] = work[v]) /\ n.at = "router"
  BY <1>3 DEF Moves, Typed, Fleet, Staged
<1> SUFFICES ASSUME NEW u \in Updates, Fresh(u)' PROVE PushOnce(u)'
  BY DEF Once
<1>8. Fresh(u)
  BY <1>6, StillHandled
<1>9. PushOnce(u)
  BY <1>8 DEF Once
<1>10. CASE u = c
  <2>1. routed[u] = 0 /\ u \in ToSet(seen) /\ \A v \in Workers : At(v, u) => v = w
    BY <1>2, <1>9, <1>10 DEF PushOnce
  <2>2. routed'[u] = 1
    BY <1>4, <1>10, <2>1
  <2>3. \A v \in Workers : ~At(v, u)'
    BY <1>7, <2>1 DEF At
  <2> QED BY <1>5, <2>1, <2>2, <2>3 DEF PushOnce
<1>11. CASE u # c
  <2>1. \A v \in Workers : At(v, u)' => At(v, u)
    BY <1>7 DEF At
  <2>2. routed'[u] = routed[u]
    BY <1>4, <1>11
  <2> QED BY <1>5, <1>9, <2>1, <2>2 DEF PushOnce
<1> QED BY <1>10, <1>11

\* What the steps that finish an update do to filter and books.
LEMMA PushDoes ==
    ASSUME Typed, NEW w \in Workers, kind = "feishu",
           \/ Finishing(w)
           \/ /\ Attachments(w) /\ Finished(w) /\ Recall(w) /\ UNCHANGED routed
              /\ answered' = answered \cup {Current(w)}
    PROVE  Grows /\ UNCHANGED routed /\ ToSet(seen) \subseteq ToSet(seen') \cup evicted'
<1>1. ASSUME SkipSeen(w)
      PROVE  Grows /\ UNCHANGED routed /\ ToSet(seen) \subseteq ToSet(seen') \cup evicted'
  <2>1. UNCHANGED <<seen, history>>
    BY <1>1 DEF SkipSeen
  <2> QED BY <2>1 DEF Grows, history
<1>2. ASSUME (Malformed(w) /\ kind # "poll") \/ GroupGate(w) \/ Prompt(w) \/ Pair(w)
      PROVE  Grows /\ UNCHANGED routed /\ ToSet(seen) \subseteq ToSet(seen') \cup evicted'
  <2>1. TakeUp(w) /\ UNCHANGED routed
    BY <1>2 DEF Malformed, GroupGate, Pair, Prompt
  <2>2. /\ answered \subseteq answered' /\ gaveUp \subseteq gaveUp' /\ hushed \subseteq hushed'
    BY <1>2 DEF Malformed, GroupGate, Pair, Prompt, Tell
  <2>3. evicted' = evicted \cup (ToSet(seen) \ ToSet(seen'))
    BY <2>1, TakesUp
  <2> QED BY <2>1, <2>2, <2>3 DEF Grows
<1>3. ASSUME \/ /\ Recall(w) /\ UNCHANGED <<routed, hushed>>
                /\ answered \subseteq answered' /\ gaveUp \subseteq gaveUp'
             \/ UNCHANGED <<seen, evicted, routed, answered, hushed>> /\ gaveUp \subseteq gaveUp'
      PROVE  Grows /\ UNCHANGED routed /\ ToSet(seen) \subseteq ToSet(seen') \cup evicted'
  <2>1. seen' = seen /\ evicted \subseteq evicted'
    BY <1>3 DEF Recall
  <2> QED BY <1>3, <2>1 DEF Grows
<1>4. ASSUME RouterDone(w) \/ HandlerFails(w)
      PROVE  Grows /\ UNCHANGED routed /\ ToSet(seen) \subseteq ToSet(seen') \cup evicted'
  <2>1. \/ Recall(w) /\ UNCHANGED <<routed, gaveUp, hushed, answered>>
        \/ UNCHANGED <<seen, evicted, routed, answered, hushed>> /\ gaveUp \subseteq gaveUp'
    BY <1>4 DEF RouterDone, HandlerFails
  <2> QED BY <1>3, <2>1
<1>5. ASSUME NEW b \in BOOLEAN, Fallback(w, b)
      PROVE  Grows /\ UNCHANGED routed /\ ToSet(seen) \subseteq ToSet(seen') \cup evicted'
  <2>1. /\ Recall(w) /\ UNCHANGED <<routed, hushed>>
        /\ answered \subseteq answered' /\ gaveUp \subseteq gaveUp'
    BY <1>5 DEF Fallback
  <2> QED BY <1>3, <2>1
<1>6. ASSUME /\ Attachments(w) /\ Finished(w) /\ Recall(w) /\ UNCHANGED routed
             /\ answered' = answered \cup {Current(w)}
      PROVE  Grows /\ UNCHANGED routed /\ ToSet(seen) \subseteq ToSet(seen') \cup evicted'
  <2>1. UNCHANGED <<gaveUp, hushed>>
    BY <1>6 DEF Attachments
  <2> QED BY <1>3, <1>6, <2>1
<1>7. ~PollGroupGate(w)
  BY DEF PollGroupGate
<1> QED BY <1>1, <1>2, <1>4, <1>5, <1>6, <1>7 DEF Finishing

LEMMA PushKeeps ==
    ASSUME Typed, CrashSeen, [Next]_vars, kind = "feishu", ~disturbed', Once
    PROVE  Once'
<1>1. ~disturbed /\ up /\ Len(log) \in Nat
  BY Calm DEF CrashSeen, Typed, Reading
<1>2. ASSUME UNCHANGED <<seen, history>>, \A v \in Workers : \A u \in Updates : At(v, u)' => At(v, u)
      PROVE  Once'
  <2>1. Grows /\ UNCHANGED routed
    BY <1>2 DEF Grows, history
  <2> QED BY <1>2, <2>1, PushGoes
<1>3. ASSUME UNCHANGED <<work, seen, history>> PROVE Once'
  BY <1>2, <1>3 DEF At
<1>4. ASSUME (\E m \in Message : Arrive(m)) \/ Persist \/ UNCHANGED vars \/ Stop PROVE Once'
  BY <1>3, <1>4 DEF Arrive, Persist, vars, Stop
<1>5. ASSUME Boot \/ Crash PROVE Once'
  BY <1>1, <1>5 DEF Boot, Crash
<1>6. ASSUME NEW w \in Workers, Start(w) PROVE Once'
  BY <1>3, <1>6 DEF Start
<1>7. ASSUME NEW w \in Workers, PollStart(w) \/ Configure(w) PROVE Once'
  BY <1>7 DEF PollStart, Configure
<1>8. ASSUME NEW w \in Workers, NEW u \in Updates, Deliver(u, w) PROVE Once'
  <2> DEFINE n == [Idle EXCEPT !.at = "next", !.batch = <<u>>]
  <2>1. Moves(w, n) /\ UNCHANGED <<seen, history>>
    BY <1>8 DEF Deliver, Moves
  <2>2. n.at = "next"
    BY DEF Idle
  <2> HIDE DEF n
  <2> QED BY <1>2, <2>1, <2>2, NotAt
<1>9. ASSUME NEW w \in Workers, Wake(w) \/ BatchDone(w) PROVE Once'
  <2>1. (LoopAgain(w) \/ Moves(w, Idle)) /\ UNCHANGED <<seen, history>>
    BY <1>9 DEF Wake, BatchDone, Moves
  <2>2. PICK n : Moves(w, n) /\ (Asks(n, cursor) \/ n = Idle)
    BY <2>1, AgainMoves DEF Typed
  <2>3. n.at # "media"
    BY <2>2 DEF Asks, Idle
  <2> QED BY <1>2, <2>1, <2>2, <2>3, NotAt
<1>10. ASSUME NEW w \in Workers, NEW b \in BOOLEAN, Fetched(w, b) \/ FetchFails(w, b) PROVE Once'
  <2>1. UNCHANGED <<seen, history>>
    BY <1>10 DEF Fetched, FetchFails
  <2>2. \E n : Moves(w, n) /\ n.at # "media"
    <3>1. CASE Fetched(w, b)
      BY <3>1, FetchMoves DEF Typed
    <3>2. CASE FetchFails(w, b)
      BY <3>2, FetchFailMoves DEF Typed, Staged, Idle
    <3> QED BY <1>10, <3>1, <3>2
  <2> QED BY <1>2, <2>1, <2>2, NotAt
<1>11. ASSUME NEW w \in Workers, work[w].batch # <<>>, Finished(w), Grows, UNCHANGED routed,
              ToSet(seen) \subseteq ToSet(seen') \cup evicted'
       PROVE  Once'
  <2>1. PICK n : Moves(w, n) /\ Popped(work[w], n)
    BY <1>11, FinishMoves DEF Typed
  <2>2. n.at # "media"
    BY <2>1 DEF Popped
  <2> QED BY <1>11, <2>1, <2>2, NotAt, PushGoes
<1>12. ASSUME NEW w \in Workers, Finishing(w) PROVE Once'
  <2>1. work[w].batch # <<>> /\ Finished(w)
    BY <1>12, Finishes DEF Typed
  <2> QED BY <1>11, <1>12, <2>1, PushDoes
<1>13. ASSUME NEW w \in Workers, Admit(w) PROVE Once'
  BY <1>13, PushAdmits
<1>14. ASSUME NEW w \in Workers, Attachments(w) PROVE Once'
  <2>1. /\ work[w].batch # <<>> /\ work[w].at = "media" /\ UNCHANGED <<gaveUp, hushed>>
        /\ \/ Submits(w) /\ (answered' = answered \/ answered' = answered \cup {Current(w)})
           \/ /\ Finished(w) /\ Recall(w) /\ UNCHANGED routed
              /\ answered' = answered \cup {Current(w)}
    BY <1>14, Attaching DEF Typed
  <2>2. CASE Submits(w) /\ (answered' = answered \/ answered' = answered \cup {Current(w)})
    BY <2>1, <2>2, PushSubmits
  <2>3. CASE /\ Finished(w) /\ Recall(w) /\ UNCHANGED routed
             /\ answered' = answered \cup {Current(w)}
    <3>1. Grows /\ UNCHANGED routed /\ ToSet(seen) \subseteq ToSet(seen') \cup evicted'
      BY <1>14, <2>3, PushDoes
    <3> QED BY <1>11, <2>1, <2>3, <3>1
  <2> QED BY <2>1, <2>2, <2>3
<1>15. ASSUME NEW w \in Workers,
              \/ SkipSeen(w) \/ Malformed(w) \/ GroupGate(w) \/ PollGroupGate(w) \/ Pair(w) \/ Prompt(w)
              \/ RouterDone(w) \/ HandlerFails(w) \/ \E b \in BOOLEAN : Fallback(w, b)
       PROVE  Once'
  BY <1>12, <1>15 DEF Finishing
<1>16. ASSUME NEW w \in Workers,
              \/ \E u \in Updates : Deliver(u, w)
              \/ Start(w) \/ Configure(w) \/ PollStart(w) \/ Wake(w) \/ BatchDone(w)
              \/ \E b \in BOOLEAN : Fetched(w, b) \/ FetchFails(w, b) \/ Fallback(w, b)
              \/ Admit(w) \/ Attachments(w)
       PROVE  Once'
  BY <1>6, <1>7, <1>8, <1>9, <1>10, <1>13, <1>14, <1>15, <1>16
<1> QED BY <1>4, <1>5, <1>15, <1>16 DEF Next

-------------------------------------------------------------------------------
(***************************************************************************)
(* The whole invariant.                                                    *)
(***************************************************************************)
LEMMA InvInit == Init => Inv
<1> SUFFICES ASSUME Init PROVE Inv
  OBVIOUS
<1>1. Typed
  BY TypesInit
<1>2. /\ up = TRUE /\ cursor = 0 /\ confirmed = 0 /\ saved = [cursor |-> 0, paired |-> {}, code |-> FALSE]
      /\ seen = <<>> /\ work = [w \in Workers |-> Idle] /\ routed = [u \in Updates |-> 0]
  BY DEF Init
<1>3. Sole(Idle) /\ Idle \in Records
  <2>1. Len(log) \in Nat
    BY <1>1 DEF Typed, Reading
  <2> QED BY <1>2, <2>1, SoleIdle, IdleFits
<1>4. Idle.at = "idle" /\ Idle.old = FALSE /\ ToSet(seen) = {} /\ 1..cursor = {} /\ saved.cursor = 0
  BY <1>2 DEF Idle, ToSet
<1>5. \A u \in Updates : routed[u] = 0
  BY <1>2
<1>6. PollOnce(Idle)
  BY <1>4, <1>5 DEF PollOnce
<1>7. LoopReads(Idle) /\ LoopOnce(Idle)
  BY <1>2, <1>4, <1>5 DEF LoopReads, LoopOnce, Working
<1>8. \A u \in Updates : PushOnce(u)
  <2>1. \A w \in Workers : work[w].at = "idle"
    BY <1>2, <1>4
  <2> QED BY <1>5, <2>1 DEF PushOnce, At
<1> QED BY <1>1, <1>2, <1>3, <1>6, <1>7, <1>8 DEF Inv, CrashSeen, PollInv, LoopInv, PushInv

LEMMA CrashSeenKeeps == ASSUME Typed, CrashSeen, [Next]_vars PROVE CrashSeen'
<1>1. CASE Crash
  BY <1>1 DEF Crash, CrashSeen
<1>2. CASE Boot
  BY <1>2 DEF Boot, CrashSeen
<1>3. ASSUME up' = up PROVE CrashSeen'
  BY <1>3, Calm DEF CrashSeen
<1>4. CASE Stop \/ Persist \/ UNCHANGED vars \/ \E m \in Message : Arrive(m)
  BY <1>3, <1>4 DEF Stop, Persist, vars, Arrive
<1>5. ASSUME NEW w \in Workers,
             \/ \E u \in Updates : Deliver(u, w)
             \/ Start(w) \/ Configure(w) \/ PollStart(w) \/ Wake(w) \/ BatchDone(w)
      PROVE  CrashSeen'
  BY <1>3, <1>5 DEF Deliver, Start, Configure, PollStart, Wake, BatchDone
<1>6. ASSUME NEW w \in Workers, NEW b \in BOOLEAN, Fetched(w, b) \/ FetchFails(w, b) \/ Fallback(w, b)
      PROVE  CrashSeen'
  BY <1>3, <1>6 DEF Fetched, FetchFails, Fallback
<1>7. ASSUME NEW w \in Workers,
             SkipSeen(w) \/ PollGroupGate(w) \/ Attachments(w) \/ RouterDone(w) \/ HandlerFails(w)
      PROVE  CrashSeen'
  BY <1>3, <1>7 DEF SkipSeen, PollGroupGate, Attachments, RouterDone, HandlerFails
<1>8. ASSUME NEW w \in Workers, Malformed(w) \/ GroupGate(w) \/ Pair(w) \/ Prompt(w) \/ Admit(w)
      PROVE  CrashSeen'
  <2>1. TakeUp(w)
    BY <1>8 DEF Malformed, GroupGate, Pair, Prompt, Admit
  <2> QED BY <1>3, <2>1 DEF TakeUp
<1> QED BY <1>1, <1>2, <1>4, <1>5, <1>6, <1>7, <1>8 DEF Next

LEMMA InvKeeps == Inv /\ [Next]_vars => Inv'
<1> SUFFICES ASSUME Inv, [Next]_vars PROVE Inv'
  OBVIOUS
<1>1. Typed /\ CrashSeen /\ PollInv /\ LoopInv /\ PushInv
  BY DEF Inv
<1>2. Typed'
  BY <1>1, TypesKeep
<1>3. CrashSeen'
  BY <1>1, CrashSeenKeeps
<1>4. kind' = kind /\ (~disturbed' => ~disturbed)
  BY <1>1, Calm
<1>5. ASSUME kind = "poll", ~disturbed' PROVE \E r \in Records : Sole(r)' /\ PollOnce(r)'
  <2>1. PICK r \in Records : Sole(r) /\ PollOnce(r)
    BY <1>1, <1>4, <1>5 DEF PollInv
  <2> QED BY <1>1, <1>5, <2>1, PollKeeps
<1>6. ASSUME kind = "longpoll", ~disturbed' PROVE \E r \in Records : Sole(r)' /\ LoopReads(r)' /\ LoopOnce(r)'
  <2>1. PICK r \in Records : Sole(r) /\ LoopReads(r) /\ LoopOnce(r)
    BY <1>1, <1>4, <1>6 DEF LoopInv
  <2> QED BY <1>1, <1>6, <2>1, LoopKeeps
<1>7. ASSUME kind = "feishu", ~disturbed' PROVE Once'
  <2>1. Once
    BY <1>1, <1>4, <1>7 DEF PushInv, Once
  <2> QED BY <1>1, <1>7, <2>1, PushKeeps
<1>8. PollInv'
  BY <1>4, <1>5 DEF PollInv
<1>9. LoopInv'
  BY <1>4, <1>6 DEF LoopInv
<1>10. PushInv'
  BY <1>4, <1>7 DEF PushInv, Once
<1> QED BY <1>2, <1>3, <1>8, <1>9, <1>10 DEF Inv

LEMMA Invariant == Spec => []Inv
BY InvInit, InvKeeps, PTL DEF Spec

\* Between crashes an update becomes a turn at most once, however often it is
\* fetched or pushed, as long as the filter remembers it (the offset of
\* Telegram, the LRU tracker of WeChat, Feishu's own filter).
THEOREM UpdatesBecomeOneTurn == Spec => []RoutedOnce
<1>1. Inv => RoutedOnce
  <2> SUFFICES ASSUME Inv, NEW u \in Updates, routed[u] > 1, ~disturbed, kind # "dingtalk",
                      u \notin evicted
               PROVE  FALSE
    BY DEF RoutedOnce
  <2>1. Fresh(u) /\ routed[u] \in 0..2
    BY DEF Fresh, Inv, Typed, Books
  <2>2. kind \in {"poll", "longpoll", "feishu", "dingtalk"}
    BY KindsAssumption DEF Inv, Typed, Reading
  <2>3. routed[u] <= 1
    <3>1. CASE kind = "poll"
      BY <2>1, <3>1 DEF Inv, PollInv, PollOnce
    <3>2. CASE kind = "longpoll"
      BY <3>2 DEF Inv, LoopInv, LoopOnce
    <3>3. CASE kind = "feishu"
      BY <2>1, <3>3 DEF Inv, PushInv, PushOnce
    <3> QED BY <2>2, <3>1, <3>2, <3>3
  <2> QED BY <2>1, <2>3
<1> QED BY <1>1, Invariant, PTL

-------------------------------------------------------------------------------
(***************************************************************************)
(* Never lost.  An update that was begun, that is, pushed, or at or before *)
(* some position a fetch may start from or the cursor may be set to, is    *)
(* safe: handled, dropped with a worker that was cut off, or in a worker's *)
(* hands.  What the filter holds is safe without the batch in which a      *)
(* worker may be about to skip it.                                         *)
(***************************************************************************)
Sure(u) ==
    \/ Handled(u) \/ u \in dropped
    \/ \E w \in Workers : work[w].at \in Working /\ work[w].batch[1] = u
Safe(u) == Handled(u) \/ u \in InHand \cup dropped

Marks == {cursor, confirmed, saved.cursor} \cup {work[w].from : w \in Workers}
         \cup (IF Push THEN {} ELSE InHand)
Begun(u) == pushed[u] > 0 \/ \E m \in Marks : u <= m

Kept == \A u \in Updates : (Begun(u) => Safe(u)) /\ (u \in ToSet(seen) => Sure(u))

\* The books never lose an entry.
LEMMA BooksGrow ==
    ASSUME Typed, [Next]_vars
    PROVE  kind' = kind /\ dropped \subseteq dropped' /\ \A u \in Updates : Handled(u) => Handled(u)'
<1> DEFINE Goal == dropped \subseteq dropped' /\ \A u \in Updates : Handled(u) => Handled(u)'
<1>1. ASSUME UNCHANGED routed, answered \subseteq answered', gaveUp \subseteq gaveUp',
             hushed \subseteq hushed', dropped \subseteq dropped'
      PROVE  Goal
  BY <1>1 DEF Handled
<1>2. ASSUME UNCHANGED history PROVE Goal
  BY <1>2 DEF history, Handled
<1> HIDE DEF Goal
<1>3. ASSUME Stop \/ Persist \/ Boot \/ UNCHANGED vars \/ \E m \in Message : Arrive(m) PROVE Goal
  BY <1>2, <1>3 DEF Stop, Persist, Boot, vars, Arrive
<1>4. ASSUME Crash PROVE Goal
  BY <1>1, <1>4 DEF Crash
<1>5. ASSUME NEW w \in Workers,
             \/ \E u \in Updates : Deliver(u, w)
             \/ Start(w) \/ Configure(w) \/ PollStart(w) \/ Wake(w) \/ BatchDone(w) \/ SkipSeen(w)
             \/ \E b \in BOOLEAN : Fetched(w, b) \/ FetchFails(w, b)
      PROVE  Goal
  BY <1>2, <1>5 DEF Deliver, Start, Configure, PollStart, Wake, BatchDone, SkipSeen, Fetched, FetchFails
<1>6. ASSUME NEW w \in Workers,
             \/ Malformed(w) \/ GroupGate(w) \/ PollGroupGate(w) \/ Pair(w) \/ Prompt(w) \/ Admit(w)
             \/ RouterDone(w) \/ HandlerFails(w) \/ \E b \in BOOLEAN : Fallback(w, b)
      PROVE  Goal
  <2>1. ASSUME Malformed(w) \/ Admit(w) \/ RouterDone(w) \/ HandlerFails(w) \/ Pair(w)
        PROVE  Goal
    <3>1. /\ UNCHANGED routed /\ answered \subseteq answered' /\ gaveUp \subseteq gaveUp'
          /\ hushed \subseteq hushed' /\ dropped \subseteq dropped'
      BY <2>1 DEF Malformed, Admit, RouterDone, HandlerFails, Pair
    <3> QED BY <1>1, <3>1
  <2>2. ASSUME GroupGate(w) \/ PollGroupGate(w) \/ Prompt(w) \/ \E b \in BOOLEAN : Fallback(w, b)
        PROVE  Goal
    <3>1. /\ UNCHANGED routed /\ answered \subseteq answered' /\ gaveUp \subseteq gaveUp'
          /\ hushed \subseteq hushed' /\ dropped \subseteq dropped'
      BY <2>2 DEF GroupGate, PollGroupGate, Prompt, Fallback, Tell
    <3> QED BY <1>1, <3>1
  <2> QED BY <1>6, <2>1, <2>2
<1>7. ASSUME NEW w \in Workers, Attachments(w) PROVE Goal
  <2>1. /\ work[w].batch # <<>> /\ UNCHANGED <<gaveUp, hushed, dropped>> /\ answered \subseteq answered'
        /\ Submits(w) \/ UNCHANGED routed
    BY <1>7, Attaching DEF Typed
  <2>2. CASE UNCHANGED routed
    BY <1>1, <2>1, <2>2
  <2>3. CASE Submits(w)
    <3>1. \A u \in Updates : routed[u] > 0 => routed'[u] > 0
      BY <2>1, <2>3, SubmitsMoves DEF Typed
    <3> QED BY <2>1, <3>1 DEF Handled, Goal
  <2> QED BY <2>1, <2>2, <2>3
<1>8. Goal
  BY <1>3, <1>4, <1>5, <1>6, <1>7 DEF Next
<1> QED BY <1>8, Calm DEF Goal

\* The books of a step, and how far it moved the positions.
LEMMA KeptStep ==
    ASSUME Kept,
           \A u \in Updates : Sure(u) => Sure(u)',
           \A u \in Updates : Safe(u) => Safe(u)',
           \A u \in Updates : Begun(u)' => Begun(u) \/ Safe(u)',
           \A u \in Updates : u \in ToSet(seen') => u \in ToSet(seen) \/ Sure(u)'
    PROVE  Kept'
BY DEF Kept

\* A position an update is at or before.
LEMMA BegunIs ==
    ASSUME NEW u \in Updates
    PROVE  Begun(u) <=> \/ pushed[u] > 0 \/ u <= cursor \/ u <= confirmed \/ u <= saved.cursor
                        \/ \E w \in Workers : u <= work[w].from
                        \/ ~Push /\ \E w \in Workers : \E x \in ToSet(work[w].batch) : u <= x
<1>1. (\E m \in InHand : u <= m) <=> \E w \in Workers : \E x \in ToSet(work[w].batch) : u <= x
  BY DEF InHand
<1>2. (\E m \in {work[w].from : w \in Workers} : u <= m) <=> \E w \in Workers : u <= work[w].from
  OBVIOUS
<1>3. (\E m \in Marks : u <= m) <=> \/ u <= cursor \/ u <= confirmed \/ u <= saved.cursor
                                    \/ \E m \in {work[w].from : w \in Workers} : u <= m
                                    \/ ~Push /\ \E m \in InHand : u <= m
  BY DEF Marks
<1> QED BY <1>1, <1>2, <1>3 DEF Begun

LEMMA SafeIs ==
    \A u : Safe(u) <=> Handled(u) \/ u \in dropped \/ \E w \in Workers : u \in ToSet(work[w].batch)
BY DEF Safe, InHand

\* What a worker is working on is in its hands.
LEMMA HeadInHand ==
    ASSUME Fleet, Reading, NEW w \in Workers, work[w].at \in Working
    PROVE  work[w].batch[1] \in ToSet(work[w].batch)
<1>1. work[w].batch # <<>> /\ Fits(work[w], Len(log), Submitted) /\ Len(log) \in Nat
  BY AtWork DEF Fleet, Reading
<1> QED BY <1>1, Heads

\* A worker w whose record becomes n.  What leaves its hands is handled, dropped,
\* or sure by someone else; what it was working on goes on or is handled; and no
\* position passes an update that is neither begun nor in the worker's hands.
LEMMA KeptMoves ==
    ASSUME Typed, Kept, [Next]_vars, NEW w \in Workers, NEW n, Moves(w, n),
           \A x \in ToSet(work[w].batch) :
               \/ x \in ToSet(n.batch) \/ Handled(x)' \/ x \in dropped'
               \/ work[w].at \notin Working /\ Sure(x),
           \A x : work[w].at \in Working /\ work[w].batch[1] = x =>
               (n.at \in Working /\ n.batch[1] = x) \/ Handled(x)',
           \A u \in Updates :
               (\/ u <= cursor' \/ u <= confirmed' \/ u <= saved'.cursor \/ u <= n.from \/ pushed'[u] > 0
                \/ ~Push /\ \E x \in ToSet(n.batch) : u <= x)
               => Begun(u) \/ u \in ToSet(n.batch),
           \A u \in ToSet(seen') :
               u \in ToSet(seen) \/ Handled(u)' \/ (n.at \in Working /\ n.batch[1] = u)
    PROVE  Kept'
<1>1. work'[w] = n /\ \A v \in Workers \ {w} : work'[v] = work[v]
  BY DEF Moves, Typed, Fleet
<1>2. /\ kind' = kind /\ dropped \subseteq dropped' /\ \A u \in Updates : Handled(u) => Handled(u)'
  BY BooksGrow
<1>3. ASSUME NEW u \in Updates, Sure(u) PROVE Sure(u)'
  <2>1. CASE Handled(u) \/ u \in dropped
    BY <1>2, <2>1 DEF Sure
  <2>2. ASSUME NEW v \in Workers, work[v].at \in Working, work[v].batch[1] = u PROVE Sure(u)'
    <3>1. CASE v = w
      <4>1. (n.at \in Working /\ n.batch[1] = u) \/ Handled(u)'
        BY <2>2, <3>1
      <4> QED BY <1>1, <4>1 DEF Sure
    <3>2. CASE v # w
      BY <1>1, <2>2, <3>2 DEF Sure
    <3> QED BY <3>1, <3>2
  <2> QED BY <1>3, <2>1, <2>2 DEF Sure
<1>4. ASSUME NEW u \in Updates, Safe(u) PROVE Safe(u)'
  <2>1. CASE Handled(u) \/ u \in dropped
    BY <1>2, <2>1 DEF Safe
  <2>2. ASSUME NEW v \in Workers \ {w}, u \in ToSet(work[v].batch) PROVE Safe(u)'
    BY <1>1, <2>2 DEF Safe, InHand
  <2>3. CASE u \in ToSet(work[w].batch)
    <3>1. CASE u \in ToSet(n.batch)
      BY <1>1, <3>1 DEF Safe, InHand
    <3>2. CASE Handled(u)' \/ u \in dropped'
      BY <3>2 DEF Safe
    <3>3. CASE work[w].at \notin Working /\ Sure(u)
      <4>1. ASSUME NEW v \in Workers, work[v].at \in Working, work[v].batch[1] = u PROVE Safe(u)'
        <5>1. v \in Workers \ {w}
          BY <3>3, <4>1
        <5>2. u \in ToSet(work[v].batch)
          BY <4>1, HeadInHand DEF Typed
        <5> QED BY <2>2, <5>1, <5>2
      <4> QED BY <2>1, <3>3, <4>1 DEF Sure
    <3> QED BY <2>3, <3>1, <3>2, <3>3
  <2>4. Handled(u) \/ u \in dropped \/ \E v \in Workers : u \in ToSet(work[v].batch)
    BY <1>4, SafeIs
  <2> QED BY <2>1, <2>2, <2>3, <2>4
<1>5. ASSUME NEW u \in Updates, Begun(u)' PROVE Begun(u) \/ Safe(u)'
  <2>1. u \in ToSet(n.batch) => Safe(u)'
    BY <1>1 DEF Safe, InHand
  <2>2. Push' = Push
    BY <1>2 DEF Push
  <2>3. CASE pushed'[u] > 0 \/ u <= cursor' \/ u <= confirmed' \/ u <= saved'.cursor
    BY <2>1, <2>3
  <2>4. ASSUME NEW v \in Workers, u <= work'[v].from PROVE Begun(u) \/ Safe(u)'
    <3>1. CASE v = w
      BY <1>1, <2>1, <2>4, <3>1
    <3>2. CASE v # w
      BY <1>1, <2>4, <3>2, BegunIs
    <3> QED BY <3>1, <3>2
  <2>5. ASSUME ~Push, NEW v \in Workers, NEW x \in ToSet(work'[v].batch), u <= x
        PROVE  Begun(u) \/ Safe(u)'
    <3>1. CASE v = w
      BY <1>1, <2>1, <2>5, <3>1
    <3>2. CASE v # w
      BY <1>1, <2>5, <3>2, BegunIs
    <3> QED BY <3>1, <3>2
  <2>6. \/ pushed'[u] > 0 \/ u <= cursor' \/ u <= confirmed' \/ u <= saved'.cursor
        \/ \E v \in Workers : u <= work'[v].from
        \/ ~Push /\ \E v \in Workers : \E x \in ToSet(work'[v].batch) : u <= x
    <3>1. pushed'[u] > 0 \/ \E m \in Marks' : u <= m
      BY <1>5 DEF Begun
    <3>2. ASSUME NEW m \in Marks', u <= m
          PROVE  \/ u <= cursor' \/ u <= confirmed' \/ u <= saved'.cursor
                 \/ \E v \in Workers : u <= work'[v].from
                 \/ ~Push /\ \E v \in Workers : \E x \in ToSet(work'[v].batch) : u <= x
      <4>1. \/ m \in {cursor', confirmed', saved'.cursor}
            \/ m \in {work'[v].from : v \in Workers}
            \/ ~Push /\ m \in UNION {ToSet(work'[v].batch) : v \in Workers}
        BY <2>2, <3>2 DEF Marks, InHand
      <4> QED BY <3>2, <4>1
    <3> QED BY <3>1, <3>2
  <2> QED BY <2>3, <2>4, <2>5, <2>6
<1>6. ASSUME NEW u \in Updates, u \in ToSet(seen') PROVE u \in ToSet(seen) \/ Sure(u)'
  BY <1>1, <1>6 DEF Sure
<1> QED BY <1>3, <1>4, <1>5, <1>6, KeptStep

\* Where no update is taken up, finished or pushed: the workers keep their
\* batches, or have none and ask from a position there was before.
LEMMA KeptRests ==
    ASSUME Typed, Kept, [Next]_vars, UNCHANGED <<history, seen, pushed>>,
           cursor' \in {cursor, saved.cursor}, confirmed' \in {confirmed, cursor, saved.cursor},
           saved'.cursor \in {saved.cursor, cursor},
           \A v \in Workers :
               \/ /\ work'[v].at = work[v].at /\ work'[v].batch = work[v].batch
                  /\ work'[v].from = work[v].from
               \/ /\ work[v].batch = <<>> /\ work'[v].batch = <<>>
                  /\ work'[v].from \in {0, cursor, saved.cursor, work[v].from}
    PROVE  Kept'
<1>1. \A u : Handled(u)' <=> Handled(u)
  BY DEF history, Handled
<1>2. dropped' = dropped /\ kind' = kind
  BY BooksGrow DEF history
<1>3. ToSet(<<>>) = {}
  BY DEF ToSet
<1>4. \A v \in Workers : ToSet(work'[v].batch) = ToSet(work[v].batch)
  OBVIOUS
<1>5. InHand' = InHand
  BY <1>4 DEF InHand
<1>6. ASSUME NEW u \in Updates, Sure(u) PROVE Sure(u)'
  <2>1. ASSUME NEW v \in Workers, work[v].at \in Working, work[v].batch[1] = u
        PROVE  work'[v].at \in Working /\ work'[v].batch[1] = u
    <3>1. work[v].batch # <<>>
      BY <2>1, AtWork DEF Typed
    <3> QED BY <2>1, <3>1
  <2> QED BY <1>1, <1>2, <1>6, <2>1 DEF Sure
<1>7. \A u \in Updates : Safe(u) => Safe(u)'
  BY <1>1, <1>2, <1>5 DEF Safe
<1>8. ASSUME NEW u \in Updates, Begun(u)' PROVE Begun(u)
  <2>1. Push' = Push
    BY <1>2 DEF Push
  <2>2. ASSUME NEW m \in Marks', u <= m PROVE Begun(u)
    <3>1. \/ m \in {cursor', confirmed', saved'.cursor}
          \/ m \in {work'[v].from : v \in Workers}
          \/ ~Push /\ m \in InHand
      BY <1>5, <2>1, <2>2 DEF Marks
    <3>2. CASE m \in {cursor', confirmed', saved'.cursor}
      BY <2>2, <3>2, BegunIs
    <3>3. ASSUME NEW v \in Workers, m = work'[v].from PROVE Begun(u)
      <4>1. m \in {0, cursor, saved.cursor, work[v].from}
        BY <3>3
      <4>2. m # 0
        BY <2>2, Bounds DEF Updates
      <4> QED BY <2>2, <4>1, <4>2, BegunIs
    <3>4. CASE ~Push /\ m \in InHand
      BY <2>2, <3>4, BegunIs DEF InHand
    <3> QED BY <3>1, <3>2, <3>3, <3>4
  <2> QED BY <1>8, <2>2 DEF Begun
<1> QED BY <1>6, <1>7, <1>8, KeptStep

LEMMA KeptAsks ==
    ASSUME Typed, Kept, [Next]_vars, UNCHANGED <<history, seen, pushed, cursor>>,
           confirmed' \in {confirmed, cursor}, saved'.cursor \in {saved.cursor, cursor},
           NEW w \in Workers, NEW n, Moves(w, n), work[w].batch = <<>>, n.batch = <<>>,
           n.from \in {0, cursor, work[w].from}
    PROVE  Kept'
<1>1. work'[w] = n /\ \A v \in Workers \ {w} : work'[v] = work[v]
  BY DEF Moves, Typed, Fleet
<1> QED BY <1>1, KeptRests

\* How far the positions move over an update that is taken up, c.
Passes(c) ==
    /\ cursor' = cursor \/ (kind = "longpoll" /\ cursor' = c)
    /\ UNCHANGED <<confirmed, pushed>> /\ saved'.cursor \in {saved.cursor, cursor, cursor'}

LEMMA PassesBegun ==
    ASSUME Typed, NEW w \in Workers, work[w].batch # <<>>, NEW c, c = Current(w), Passes(c),
           NEW b, ToSet(b) \subseteq ToSet(work[w].batch), NEW f, f = work[w].from,
           NEW u \in Updates,
           \/ u <= cursor' \/ u <= confirmed' \/ u <= saved'.cursor \/ u <= f \/ pushed'[u] > 0
           \/ ~Push /\ \E x \in ToSet(b) : u <= x
    PROVE  Begun(u)
<1>1. c \in ToSet(work[w].batch)
  <2>1. Len(log) \in Nat /\ Fits(work[w], Len(log), Submitted) /\ c = work[w].batch[1]
    BY CurrentIs DEF Typed, Reading, Fleet
  <2> QED BY <2>1, Heads
<1>2. kind = "longpoll" => ~Push
  BY DEF Push
<1>3. CASE u <= c /\ kind = "longpoll"
  BY <1>1, <1>2, <1>3, BegunIs
<1>4. CASE \/ u <= cursor \/ u <= confirmed \/ u <= saved.cursor \/ u <= f \/ pushed[u] > 0
           \/ ~Push /\ \E x \in ToSet(b) : u <= x
  BY <1>4, BegunIs
<1> QED BY <1>3, <1>4 DEF Passes

\* The update at the head is finished.
LEMMA KeptPops ==
    ASSUME Typed, Kept, [Next]_vars, NEW w \in Workers, work[w].batch # <<>>, Finished(w),
           NEW c, c = Current(w), Handled(c)' \/ (work[w].at = "next" /\ Sure(c)), Passes(c),
           \A u \in ToSet(seen') : u \in ToSet(seen) \/ (u = c /\ Handled(c)')
    PROVE  Kept'
<1>1. PICK n : Moves(w, n) /\ Popped(work[w], n)
  BY FinishMoves DEF Typed
<1>2. n.batch = Tail(work[w].batch) /\ n.from = work[w].from /\ c = work[w].batch[1]
  BY <1>1, CurrentIs DEF Popped, Typed
<1>3. ToSet(work[w].batch) \subseteq ToSet(n.batch) \cup {c} /\ ToSet(n.batch) \subseteq ToSet(work[w].batch)
  <2>1. Len(log) \in Nat /\ Fits(work[w], Len(log), Submitted) /\ work[w].batch \in Seq(Updates)
    BY CurrentIs DEF Typed, Reading, Fleet
  <2>2. ToSet(work[w].batch) \subseteq ToSet(Tail(work[w].batch)) \cup {work[w].batch[1]}
    BY <2>1, Heads
  <2>3. \A q \in Seq(Updates) : q # <<>> => ToSet(Tail(q)) \subseteq ToSet(q)
    <3> TAKE q \in Seq(Updates)
    <3> HAVE q # <<>>
    <3>1. /\ DOMAIN q = 1..Len(q) /\ DOMAIN Tail(q) = 1..(Len(q) - 1)
          /\ \A i \in 1..(Len(q) - 1) : Tail(q)[i] = q[i + 1] /\ i + 1 \in 1..Len(q)
      OBVIOUS
    <3> QED BY <3>1 DEF ToSet
  <2> QED BY <1>2, <2>1, <2>2, <2>3
<1>4. "next" \notin Working
  BY DEF Working
<1>5. \A x \in ToSet(work[w].batch) :
          \/ x \in ToSet(n.batch) \/ Handled(x)' \/ x \in dropped'
          \/ work[w].at \notin Working /\ Sure(x)
  <2> TAKE x \in ToSet(work[w].batch)
  <2>1. CASE x = c
    <3>1. Handled(c)' => Handled(x)'
      BY <2>1
    <3> QED BY <1>4, <2>1, <3>1
  <2>2. CASE x # c
    BY <1>3, <2>2
  <2> QED BY <2>1, <2>2
<1>6. \A x : work[w].at \in Working /\ work[w].batch[1] = x =>
          (n.at \in Working /\ n.batch[1] = x) \/ Handled(x)'
  BY <1>2, <1>4
<1>7. \A u \in Updates :
          (\/ u <= cursor' \/ u <= confirmed' \/ u <= saved'.cursor \/ u <= n.from \/ pushed'[u] > 0
           \/ ~Push /\ \E x \in ToSet(n.batch) : u <= x)
          => Begun(u) \/ u \in ToSet(n.batch)
  BY <1>2, <1>3, PassesBegun
<1>8. \A u \in ToSet(seen') :
          u \in ToSet(seen) \/ Handled(u)' \/ (n.at \in Working /\ n.batch[1] = u)
  OBVIOUS
<1> QED BY <1>1, <1>5, <1>6, <1>7, <1>8, KeptMoves

\* The update at the head is worked on.
LEMMA KeptGoes ==
    ASSUME Typed, Kept, [Next]_vars, NEW w \in Workers, work[w].batch # <<>>, NEW n, Moves(w, n),
           NEW to \in Working, Staged(work[w], n, to), NEW c, c = Current(w), Passes(c),
           \A u \in ToSet(seen') : u \in ToSet(seen) \/ u = c
    PROVE  Kept'
<1>1. n.at \in Working /\ n.batch = work[w].batch /\ n.from = work[w].from /\ c = work[w].batch[1]
  BY CurrentIs DEF Staged, Typed
<1>2. \A u \in Updates :
          (\/ u <= cursor' \/ u <= confirmed' \/ u <= saved'.cursor \/ u <= n.from \/ pushed'[u] > 0
           \/ ~Push /\ \E x \in ToSet(n.batch) : u <= x)
          => Begun(u) \/ u \in ToSet(n.batch)
  BY <1>1, PassesBegun
<1> QED BY <1>1, <1>2, KeptMoves

\* What a step that ends the handling of an update makes of it.
LEMMA KeptFinishes ==
    ASSUME Typed, Kept, [Next]_vars, NEW w \in Workers, Finishing(w)
    PROVE  Kept'
<1>1. work[w].batch # <<>> /\ Finished(w)
  BY Finishes DEF Typed
<1>2. PICK c : c = Current(w)
  OBVIOUS
<1>3. c \in Updates /\ c = work[w].batch[1]
  BY <1>1, <1>2, CurrentIs DEF Typed
<1>4. ASSUME Handled(c)', cursor' = cursor \/ (kind = "longpoll" /\ cursor' = c),
             UNCHANGED <<confirmed, pushed>>, saved'.cursor \in {saved.cursor, cursor, cursor'},
             \A u \in ToSet(seen') : u \in ToSet(seen) \/ u = c
      PROVE  Kept'
  BY <1>1, <1>2, <1>4, KeptPops DEF Passes
<1>5. CASE SkipSeen(w)
  <2>1. /\ UNCHANGED <<pushed, cursor, confirmed, saved>> /\ c \in ToSet(seen) /\ work[w].at = "next"
        /\ seen' = seen \/ seen' = Touch(seen, c)
    BY <1>2, <1>5 DEF SkipSeen, Has, Duplicate, source
  <2>2. ToSet(seen') = ToSet(seen)
    BY <2>1, Touching DEF Typed, Gates
  <2>3. Sure(c)
    BY <1>3, <2>1 DEF Kept
  <2> QED BY <1>1, <1>2, <2>1, <2>2, <2>3, KeptPops DEF Passes
<1>6. ASSUME TakeUp(w), UNCHANGED routed, c \in answered' \cup gaveUp' \cup hushed',
             saved' = saved \/ saved'.cursor = cursor'
      PROVE  Kept'
  <2>1. cursor' = cursor \/ (kind = "longpoll" /\ cursor' = c)
    BY <1>2, <1>6, TakesUp
  <2>2. UNCHANGED <<confirmed, pushed>> /\ \A u \in ToSet(seen') : u \in ToSet(seen) \/ u = c
    BY <1>2, <1>6, TakesUp DEF source
  <2>3. Handled(c)'
    BY <1>6 DEF Handled
  <2> QED BY <1>4, <1>6, <2>1, <2>2, <2>3
<1>7. CASE (Malformed(w) /\ kind # "poll") \/ GroupGate(w) \/ Pair(w) \/ Prompt(w)
  <2>1. TakeUp(w) /\ UNCHANGED routed
    BY <1>7 DEF Malformed, GroupGate, Pair, Prompt
  <2>2. c \in answered' \cup gaveUp' \cup hushed'
    BY <1>2, <1>7 DEF Malformed, GroupGate, Pair, Prompt, Tell
  <2>3. saved' = saved \/ saved'.cursor = cursor'
    BY <1>7 DEF Malformed, GroupGate, Pair, Prompt
  <2> QED BY <1>6, <2>1, <2>2, <2>3
<1>8. ASSUME Handled(c)', UNCHANGED <<cursor, confirmed, saved, pushed>>, Recall(w) \/ UNCHANGED seen
      PROVE  Kept'
  <2>1. \A u \in ToSet(seen') : u \in ToSet(seen) \/ u = c
    BY <1>1, <1>2, <1>8, Recalls
  <2> QED BY <1>4, <1>8, <2>1
<1>9. CASE PollGroupGate(w)
  <2>1. UNCHANGED <<cursor, confirmed, saved, pushed>> /\ Recall(w) /\ Tell(w, ~noticed)
    BY <1>9 DEF PollGroupGate, source
  <2>2. Handled(c)'
    BY <1>2, <2>1 DEF Tell, Handled
  <2> QED BY <1>8, <2>1, <2>2
<1>10. CASE RouterDone(w)
  <2>1. UNCHANGED <<cursor, confirmed, saved, pushed, routed>> /\ Recall(w) /\ work[w].at = "router"
    BY <1>10 DEF RouterDone, source
  <2>2. c \in Submitted
    BY <1>3, <2>1 DEF Typed, Fleet, Fits
  <2>3. Handled(c)'
    BY <2>1, <2>2 DEF Submitted, Handled
  <2> QED BY <1>8, <2>1, <2>3
<1>11. CASE HandlerFails(w) /\ kind = "feishu"
  <2>1. UNCHANGED <<cursor, confirmed, saved, pushed, seen>> /\ gaveUp' = gaveUp \cup {c}
    BY <1>2, <1>11 DEF HandlerFails, source
  <2>2. Handled(c)'
    BY <2>1 DEF Handled
  <2> QED BY <1>8, <2>1, <2>2
<1>12. ASSUME NEW b \in BOOLEAN, Fallback(w, b) PROVE Kept'
  <2>1. UNCHANGED <<cursor, confirmed, saved, pushed>> /\ Recall(w) /\ c \in answered' \cup gaveUp'
    BY <1>2, <1>12 DEF Fallback, source
  <2>2. Handled(c)'
    BY <2>1 DEF Handled
  <2> QED BY <1>8, <2>1, <2>2
<1> QED BY <1>5, <1>7, <1>9, <1>10, <1>11, <1>12 DEF Finishing

\* An update is taken into the pipeline, goes on in it, or becomes a turn.
LEMMA KeptWorks ==
    ASSUME Typed, Kept, [Next]_vars, NEW w \in Workers,
           Admit(w) \/ Attachments(w) \/ (HandlerFails(w) /\ kind # "feishu")
    PROVE  Kept'
<1>1. PICK c : c = Current(w)
  OBVIOUS
<1>2. CASE Admit(w)
  <2>1. TakeUp(w) /\ UNCHANGED saved /\ Goes(w, "media") /\ "media" \in Working
    BY <1>2 DEF Admit, Working
  <2>2. /\ work[w].batch # <<>> /\ UNCHANGED <<confirmed, pushed>>
        /\ cursor' = cursor \/ (kind = "longpoll" /\ cursor' = c)
        /\ \A u \in ToSet(seen') : u \in ToSet(seen) \/ u = c
    BY <1>1, <2>1, TakesUp DEF source
  <2>3. PICK n : Moves(w, n) /\ Staged(work[w], n, "media")
    BY <2>1, <2>2, GoesMoves DEF Typed
  <2> QED BY <1>1, <2>1, <2>2, <2>3, KeptGoes DEF Passes
<1>3. CASE HandlerFails(w) /\ kind # "feishu"
  <2>1. /\ UNCHANGED <<cursor, confirmed, saved, pushed, seen>> /\ work[w].batch # <<>>
        /\ Goes(w, "fallback") /\ "fallback" \in Working
    BY <1>3, AtWork DEF HandlerFails, source, Working, Typed
  <2>3. PICK n : Moves(w, n) /\ Staged(work[w], n, "fallback")
    BY <2>1, GoesMoves DEF Typed
  <2> QED BY <1>1, <2>1, <2>3, KeptGoes DEF Passes
<1>4. CASE Attachments(w)
  <2>1. /\ work[w].batch # <<>> /\ UNCHANGED <<cursor, confirmed, saved, pushed>>
        /\ \/ Submits(w)
           \/ Finished(w) /\ Recall(w) /\ answered' = answered \cup {Current(w)}
    BY <1>4, Attaching DEF Typed
  <2>2. CASE Submits(w)
    <3>1. PICK n : Moves(w, n) /\ Staged(work[w], n, "router")
      BY <2>1, <2>2, SubmitsMoves DEF Typed
    <3>2. "router" \in Working /\ seen' = seen
      BY <2>2 DEF Working, Submits
    <3> QED BY <1>1, <2>1, <3>1, <3>2, KeptGoes DEF Passes
  <2>3. CASE Finished(w) /\ Recall(w) /\ answered' = answered \cup {Current(w)}
    <3>1. Handled(c)'
      BY <1>1, <2>3 DEF Handled
    <3>2. \A u \in ToSet(seen') : u \in ToSet(seen) \/ u = c
      BY <1>1, <2>1, <2>3, Recalls
    <3> QED BY <1>1, <2>1, <2>3, <3>1, <3>2, KeptPops DEF Passes
  <2> QED BY <2>1, <2>2, <2>3
<1> QED BY <1>2, <1>3, <1>4

\* A fetch: the batch is all there is behind the position it started from.
LEMMA KeptFetches ==
    ASSUME Typed, Kept, [Next]_vars, NEW w \in Workers, NEW b \in BOOLEAN, Fetched(w, b)
    PROVE  Kept'
<1>1. PICK f \in Nat : f = IF kind = "longpoll" THEN Bigger(work[w].from, confirmed) ELSE work[w].from
  BY FetchMoves DEF Typed
<1>2. PICK n : /\ Moves(w, n) /\ n.at = "next" /\ n.from = work[w].from
               /\ n.batch \in Seq(Updates) /\ Len(n.batch) = Len(log) - f
               /\ \A i \in 1..Len(n.batch) : n.batch[i] = f + i
  BY <1>1, FetchMoves DEF Typed
<1>3. /\ work[w].at = "fetch" /\ f <= Len(log) /\ (cursor' = Len(log) \/ cursor' = cursor)
      /\ UNCHANGED <<confirmed, saved, seen, pushed>>
  BY <1>1, FetchMoves DEF Typed, Fetched, source
<1>4. /\ Len(log) \in Nat /\ work[w].batch = <<>> /\ work[w].at \notin Working
  BY <1>3 DEF Typed, Reading, Fleet, Fits, Working
<1>5. ASSUME NEW u \in Updates, u <= Len(log) PROVE Begun(u) \/ u \in ToSet(n.batch)
  <2>1. u \in Nat
    BY Bounds DEF Updates
  <2>2. CASE u <= f
    <3>1. f = work[w].from \/ f = confirmed
      BY <1>1 DEF Bigger
    <3> QED BY <2>2, <3>1, BegunIs
  <2>3. CASE ~(u <= f)
    <3>1. u - f \in 1..Len(n.batch) /\ f + (u - f) = u
      BY <1>2, <1>4, <1>5, <2>1, <2>3
    <3>2. PICK i \in 1..Len(n.batch) : f + i = u
      BY <3>1
    <3>3. n.batch[i] = u /\ DOMAIN n.batch = 1..Len(n.batch)
      BY <1>2, <3>2
    <3> QED BY <3>3 DEF ToSet
  <2> QED BY <2>2, <2>3
<1>6. \A x \in ToSet(n.batch) : x \in Nat /\ x <= Len(log)
  <2>1. DOMAIN n.batch = 1..Len(n.batch)
    BY <1>2
  <2>2. \A i \in 1..Len(n.batch) : n.batch[i] \in Nat /\ n.batch[i] <= Len(log)
    BY <1>2, <1>3, <1>4
  <2> QED BY <2>1, <2>2 DEF ToSet
<1>7. ToSet(<<>>) = {}
  BY DEF ToSet
<1>8. \A u \in Updates :
          (\/ u <= cursor' \/ u <= confirmed' \/ u <= saved'.cursor \/ u <= n.from \/ pushed'[u] > 0
           \/ ~Push /\ \E x \in ToSet(n.batch) : u <= x)
          => Begun(u) \/ u \in ToSet(n.batch)
  <2> TAKE u \in Updates
  <2>1. u \in Nat
    BY Bounds DEF Updates
  <2>2. CASE u <= Len(log)
    BY <1>5, <2>2
  <2>3. CASE ~(u <= Len(log))
    <3>1. ~ \E x \in ToSet(n.batch) : u <= x
      BY <1>4, <1>6, <2>1, <2>3
    <3>2. (\/ u <= cursor \/ u <= confirmed \/ u <= saved.cursor \/ u <= work[w].from \/ pushed[u] > 0)
          => Begun(u)
      BY BegunIs
    <3> QED BY <1>2, <1>3, <2>3, <3>1, <3>2
  <2> QED BY <2>2, <2>3
<1> QED BY <1>2, <1>3, <1>4, <1>7, <1>8, KeptMoves

\* A malformed update ends the poll, and the rest of its batch is dropped.
LEMMA KeptBreaks ==
    ASSUME Typed, Kept, [Next]_vars, NEW w \in Workers, Malformed(w), kind = "poll"
    PROVE  Kept'
<1>1. PICK c : c = Current(w)
  OBVIOUS
<1>2. /\ TakeUp(w) /\ Moves(w, Idle) /\ gaveUp' = gaveUp \cup {c} /\ UNCHANGED saved
      /\ dropped' = dropped \cup ToSet(Tail(work[w].batch))
  BY <1>1 DEF Malformed, Moves
<1>3. /\ work[w].batch # <<>> /\ UNCHANGED <<cursor, confirmed, seen, pushed>> /\ work[w].at = "next"
  BY <1>2, TakesUp DEF source, TakeUp, Has
<1>4. ToSet(work[w].batch) \subseteq ToSet(Tail(work[w].batch)) \cup {c}
  <2>1. Len(log) \in Nat /\ Fits(work[w], Len(log), Submitted) /\ c = work[w].batch[1]
    BY <1>1, <1>3, CurrentIs DEF Typed, Reading, Fleet
  <2> QED BY <1>3, <2>1, Heads
<1>5. Handled(c)'
  BY <1>2 DEF Handled
<1>6. \A x \in ToSet(work[w].batch) :
          \/ x \in ToSet(Idle.batch) \/ Handled(x)' \/ x \in dropped'
          \/ work[w].at \notin Working /\ Sure(x)
  <2> TAKE x \in ToSet(work[w].batch)
  <2>1. CASE x = c
    <3>1. Handled(c)' => Handled(x)'
      BY <2>1
    <3> QED BY <1>5, <3>1
  <2>2. CASE x # c
    BY <1>2, <1>4, <2>2
  <2> QED BY <2>1, <2>2
<1>7. work[w].at \notin Working /\ Idle.from = 0 /\ Idle.batch = <<>> /\ ToSet(<<>>) = {}
  BY <1>3 DEF Working, Idle, ToSet
<1>8. \A u \in Updates :
          (\/ u <= cursor' \/ u <= confirmed' \/ u <= saved'.cursor \/ u <= Idle.from \/ pushed'[u] > 0
           \/ ~Push /\ \E x \in ToSet(Idle.batch) : u <= x)
          => Begun(u) \/ u \in ToSet(Idle.batch)
  <2> TAKE u \in Updates
  <2>1. ~(u <= 0)
    BY Bounds DEF Updates
  <2> QED BY <1>2, <1>3, <1>7, <2>1, BegunIs
<1> QED BY <1>2, <1>3, <1>6, <1>7, <1>8, KeptMoves

\* An event is pushed into the hands of a worker.
LEMMA KeptDelivers ==
    ASSUME Typed, Kept, [Next]_vars, NEW w \in Workers, NEW e \in Updates, Deliver(e, w)
    PROVE  Kept'
<1> DEFINE n == [Idle EXCEPT !.at = "next", !.batch = <<e>>]
<1>1. /\ Moves(w, n) /\ UNCHANGED <<cursor, confirmed, saved, seen>> /\ Push /\ work[w] = Idle
      /\ pushed' = [pushed EXCEPT ![e] = pushed[e] + 1]
  BY DEF Deliver, Moves
<1>2. n.batch = <<e>> /\ n.from = 0 /\ Idle.batch = <<>> /\ Idle.at = "idle" /\ "idle" \notin Working
  BY DEF Idle, Working
<1> HIDE DEF n
<1>3. ToSet(<<>>) = {} /\ e \in ToSet(<<e>>)
  BY DEF ToSet
<1>4. \A u \in Updates :
          (\/ u <= cursor' \/ u <= confirmed' \/ u <= saved'.cursor \/ u <= n.from \/ pushed'[u] > 0
           \/ ~Push /\ \E x \in ToSet(n.batch) : u <= x)
          => Begun(u) \/ u \in ToSet(n.batch)
  <2> TAKE u \in Updates
  <2>1. ~(u <= 0)
    BY Bounds DEF Updates
  <2>2. u # e => pushed'[u] = pushed[u]
    BY <1>1 DEF Typed, Gates
  <2> QED BY <1>1, <1>2, <1>3, <2>1, <2>2, BegunIs
<1> QED BY <1>1, <1>2, <1>3, <1>4, KeptMoves

\* What was in a worker's hands when the daemon died is dropped.
LEMMA KeptCrashes ==
    ASSUME Typed, Kept, [Next]_vars, Crash
    PROVE  Kept'
<1>1. /\ work' = [w \in Workers |-> Idle] /\ seen' = <<>> /\ dropped' = dropped \cup InHand
      /\ UNCHANGED <<kind, pushed, cursor, confirmed, saved, routed, answered, gaveUp, hushed>>
  BY DEF Crash, source
<1>2. \A u : Handled(u)' <=> Handled(u)
  BY <1>1 DEF Handled
<1>3. /\ \A v \in Workers : work'[v].from = 0 /\ work'[v].batch = <<>>
      /\ ToSet(<<>>) = {}
  BY <1>1 DEF Idle, ToSet
<1>4. InHand' = {}
  BY <1>3 DEF InHand
<1>5. \A u \in Updates : Safe(u) => Safe(u)'
  BY <1>1, <1>2 DEF Safe
<1>6. ASSUME NEW u \in Updates, Sure(u) PROVE Sure(u)'
  <2>1. ASSUME NEW v \in Workers, work[v].at \in Working, work[v].batch[1] = u PROVE u \in InHand
    BY <2>1, HeadInHand DEF Typed, InHand
  <2> QED BY <1>1, <1>2, <1>6, <2>1 DEF Sure
<1>7. ASSUME NEW u \in Updates, Begun(u)' PROVE Begun(u)
  <2>1. Push' = Push
    BY <1>1 DEF Push
  <2>2. ASSUME NEW m \in Marks', u <= m PROVE Begun(u)
    <3>1. m \in {cursor, confirmed, saved.cursor} \/ \E v \in Workers : m = 0
      BY <1>1, <1>3, <1>4, <2>1, <2>2 DEF Marks
    <3>2. m # 0
      BY <2>2, Bounds DEF Updates
    <3> QED BY <2>2, <3>1, <3>2, BegunIs
  <2> QED BY <1>1, <1>7, <2>2 DEF Begun
<1>8. \A u \in Updates : u \in ToSet(seen') => u \in ToSet(seen) \/ Sure(u)'
  BY <1>1, <1>3
<1> QED BY <1>5, <1>6, <1>7, <1>8, KeptStep

\* Starting, stopping, saving, asking: no update changes hands.
LEMMA KeptTurns ==
    ASSUME Typed, Kept, [Next]_vars,
           \/ Stop \/ Persist \/ Boot \/ UNCHANGED vars \/ \E m \in Message : Arrive(m)
           \/ \E w \in Workers : \/ Start(w) \/ Configure(w) \/ PollStart(w) \/ Wake(w) \/ BatchDone(w)
                                 \/ \E b \in BOOLEAN : FetchFails(w, b)
    PROVE  Kept'
<1>0. /\ Len(log) \in Nat /\ cursor \in 0..MaxUpd /\ cursor <= Len(log)
      /\ saved.cursor \in 0..MaxUpd /\ saved.cursor <= Len(log)
  BY DEF Typed, Reading
<1>1. CASE Persist \/ Boot \/ UNCHANGED vars \/ \E m \in Message : Arrive(m)
  <2>1. /\ UNCHANGED <<history, seen, pushed, work, confirmed>>
        /\ cursor' = cursor \/ cursor' = saved.cursor
    BY <1>1 DEF Persist, Boot, vars, Arrive, source
  <2>2. saved' = saved \/ saved' = [cursor |-> cursor, paired |-> paired, code |-> code]
    BY <1>1 DEF Persist, Boot, vars, Arrive
  <2> QED BY <2>1, <2>2, KeptRests
<1>2. CASE Stop
  <2>1. /\ UNCHANGED <<history, seen, pushed, cursor, confirmed, saved>>
        /\ work' = Aborted(work) \/ work' = work
    BY <1>2 DEF Stop, source
  <2>2. \A v \in Workers :
            \/ /\ work'[v].at = work[v].at /\ work'[v].batch = work[v].batch
               /\ work'[v].from = work[v].from
            \/ /\ work[v].batch = <<>> /\ work'[v].batch = <<>>
               /\ work'[v].from \in {0, cursor, saved.cursor, work[v].from}
    <3> TAKE v \in Workers
    <3>1. CASE work'[v] = work[v]
      BY <3>1
    <3>2. CASE work'[v] # work[v]
      <4>1. work'[v] = Idle /\ work[v].at = "fetch"
        BY <2>1, <3>2 DEF Aborted
      <4>2. work[v].batch = <<>>
        BY <4>1 DEF Typed, Fleet, Fits
      <4> QED BY <4>1, <4>2 DEF Idle
    <3> QED BY <3>1, <3>2
  <2> QED BY <2>1, <2>2, KeptRests
<1>3. ASSUME NEW w \in Workers, Configure(w) PROVE Kept'
  <2> DEFINE rest == [v \in Workers |-> IF Aborted(work)[v] = Idle THEN Idle
                                        ELSE [work[v] EXCEPT !.old = TRUE]]
  <2>1. /\ UNCHANGED <<history, seen, pushed, saved>> /\ cursor' = saved.cursor
        /\ confirmed' = Bigger(confirmed, saved.cursor)
        /\ work' = Request(rest, w, saved.cursor) /\ rest[w] = Idle
    BY <1>3 DEF Configure, source
  <2>2. confirmed' \in {confirmed, saved.cursor}
    BY <2>1 DEF Bigger
  <2>3. \A v \in Workers :
            \/ /\ rest[v].at = work[v].at /\ rest[v].batch = work[v].batch
               /\ rest[v].from = work[v].from
            \/ rest[v] = Idle /\ work[v].batch = <<>>
    <3> TAKE v \in Workers
    <3>1. work[v] \in Records /\ Fits(work[v], Len(log), Submitted)
      BY DEF Typed, Fleet
    <3>2. CASE Aborted(work)[v] = Idle
      <4>1. work[v] = Idle \/ work[v].at = "fetch"
        BY <3>2 DEF Aborted
      <4>2. work[v].batch = <<>>
        BY <3>1, <4>1 DEF Fits, Idle
      <4> QED BY <3>2, <4>2
    <3>3. CASE Aborted(work)[v] # Idle
      <4>1. rest[v] = [work[v] EXCEPT !.old = TRUE]
        BY <3>3
      <4>2. /\ [work[v] EXCEPT !.old = TRUE].at = work[v].at
            /\ [work[v] EXCEPT !.old = TRUE].batch = work[v].batch
            /\ [work[v] EXCEPT !.old = TRUE].from = work[v].from
        BY <3>1 DEF Records
      <4> QED BY <4>1, <4>2
    <3> QED BY <3>2, <3>3
  <2>4. rest = [v \in Workers |-> rest[v]]
    OBVIOUS
  <2>5. rest[w] = Idle => work[w].batch = <<>>
    <3>1. work[w] \in Records
      BY DEF Typed, Fleet
    <3>2. rest[w] = Idle => Aborted(work)[w] = Idle
      <4>1. [work[w] EXCEPT !.old = TRUE].old # Idle.old
        BY <3>1 DEF Records, Idle
      <4> QED BY <4>1
    <3>3. Aborted(work)[w] = Idle => work[w] = Idle \/ work[w].at = "fetch"
      BY DEF Aborted
    <3> QED BY <3>2, <3>3 DEF Typed, Fleet, Fits, Idle
  <2> HIDE DEF rest
  <2>6. PICK n : work' = [rest EXCEPT ![w] = n] /\ Asks(n, saved.cursor)
    BY <1>0, <2>1, RequestMoves DEF Typed
  <2>7. work'[w] = n /\ \A v \in Workers \ {w} : work'[v] = rest[v]
    BY <2>4, <2>6
  <2>8. n.batch = <<>> /\ n.from = saved.cursor /\ Idle.batch = <<>> /\ Idle.from = 0
    BY <2>6 DEF Asks, Idle
  <2>9. \A v \in Workers :
            \/ /\ work'[v].at = work[v].at /\ work'[v].batch = work[v].batch
               /\ work'[v].from = work[v].from
            \/ /\ work[v].batch = <<>> /\ work'[v].batch = <<>>
               /\ work'[v].from \in {0, cursor, saved.cursor, work[v].from}
    <3> TAKE v \in Workers
    <3>1. CASE v = w
      BY <2>1, <2>5, <2>7, <2>8, <3>1
    <3>2. CASE v # w
      BY <2>3, <2>7, <2>8, <3>2
    <3> QED BY <3>1, <3>2
  <2> QED BY <2>1, <2>2, <2>9, KeptRests
<1>4. ASSUME NEW w \in Workers, Start(w) PROVE Kept'
  <2>1. /\ UNCHANGED <<history, seen, pushed, cursor>> /\ work[w] = Idle
        /\ saved' = [saved EXCEPT !.code = code', !.paired = paired, !.cursor = cursor]
    BY <1>4 DEF Start, source
  <2>2. saved'.cursor = cursor
    BY <2>1 DEF Typed, Reading
  <2>3. CASE kind # "longpoll"
    <3>1. UNCHANGED <<work, confirmed>>
      BY <1>4, <2>3 DEF Start
    <3> QED BY <2>1, <2>2, <3>1, KeptRests
  <2>4. CASE kind = "longpoll"
    <3>1. work' = Request(work, w, cursor) /\ confirmed' = Bigger(confirmed, cursor)
      BY <1>4, <2>4 DEF Start
    <3>2. PICK n : Moves(w, n) /\ Asks(n, cursor)
      BY <1>0, <3>1, RequestMoves DEF Typed, Moves
    <3>3. n.batch = <<>> /\ n.from = cursor /\ work[w].batch = <<>> /\ confirmed' \in {confirmed, cursor}
      BY <2>1, <3>1, <3>2 DEF Asks, Idle, Bigger
    <3> QED BY <2>1, <2>2, <3>2, <3>3, KeptAsks
  <2> QED BY <2>3, <2>4
<1>5. ASSUME NEW w \in Workers, PollStart(w) PROVE Kept'
  <2>1. /\ work' = Request(work, w, cursor) /\ UNCHANGED <<history, seen, pushed, cursor, confirmed, saved>>
        /\ work[w] = Idle
    BY <1>5 DEF PollStart, Busy, source
  <2>2. PICK n : Moves(w, n) /\ Asks(n, cursor)
    BY <1>0, <2>1, RequestMoves DEF Typed, Moves
  <2>3. n.batch = <<>> /\ n.from = cursor /\ work[w].batch = <<>>
    BY <2>1, <2>2 DEF Asks, Idle
  <2> QED BY <2>1, <2>2, <2>3, KeptAsks
<1>6. ASSUME NEW w \in Workers, Wake(w) \/ BatchDone(w) PROVE Kept'
  <2>1. /\ UNCHANGED <<history, seen, pushed, cursor>> /\ (LoopAgain(w) \/ (Moves(w, Idle) /\ UNCHANGED confirmed))
        /\ work[w].at = "asleep" \/ work[w].batch = <<>>
    BY <1>6 DEF Wake, BatchDone, source, Moves
  <2>2. saved' = saved \/ saved' = [cursor |-> cursor, paired |-> paired, code |-> code]
    BY <1>6 DEF Wake, BatchDone
  <2>3. confirmed' \in {confirmed, cursor}
    BY <2>1 DEF LoopAgain, Bigger
  <2>4. PICK n : Moves(w, n) /\ (Asks(n, cursor) \/ n = Idle)
    BY <2>1, AgainMoves DEF Typed
  <2>5. n.batch = <<>> /\ n.from \in {0, cursor} /\ work[w].batch = <<>>
    BY <2>1, <2>4 DEF Asks, Idle, Typed, Fleet, Fits
  <2> QED BY <2>1, <2>2, <2>3, <2>4, <2>5, KeptAsks
<1>7. ASSUME NEW w \in Workers, NEW b \in BOOLEAN, FetchFails(w, b) PROVE Kept'
  <2>1. /\ UNCHANGED <<history, seen, pushed, cursor, confirmed, saved>> /\ work[w].at = "fetch"
    BY <1>7 DEF FetchFails, source
  <2>2. PICK n : Moves(w, n) /\ (n = Idle \/ Staged(work[w], n, "asleep"))
    BY <1>7, FetchFailMoves DEF Typed
  <2>3. work[w].batch = <<>>
    BY <2>1 DEF Typed, Fleet, Fits
  <2>4. n.batch = <<>> /\ n.from \in {0, work[w].from}
    BY <2>2, <2>3 DEF Staged, Idle
  <2> QED BY <2>1, <2>2, <2>3, <2>4, KeptAsks
<1> QED BY <1>1, <1>2, <1>3, <1>4, <1>5, <1>6, <1>7

LEMMA KeptInit == Init => Kept
<1> SUFFICES ASSUME Init PROVE Kept
  OBVIOUS
<1>1. /\ cursor = 0 /\ confirmed = 0 /\ saved.cursor = 0 /\ pushed = [u \in Updates |-> 0] /\ seen = <<>>
      /\ work = [w \in Workers |-> Idle]
  BY DEF Init
<1>2. ToSet(<<>>) = {} /\ Idle.batch = <<>> /\ Idle.from = 0
  BY DEF ToSet, Idle
<1>3. ASSUME NEW u \in Updates PROVE ~Begun(u)
  <2>1. ~(u <= 0)
    BY Bounds DEF Updates
  <2> QED BY <1>1, <1>2, <2>1, BegunIs
<1> QED BY <1>1, <1>2, <1>3 DEF Kept

LEMMA KeptKeeps == Typed /\ Kept /\ [Next]_vars => Kept'
<1> SUFFICES ASSUME Typed, Kept, [Next]_vars PROVE Kept'
  OBVIOUS
<1>1. CASE Stop \/ Persist \/ Boot \/ UNCHANGED vars \/ \E m \in Message : Arrive(m)
  BY <1>1, KeptTurns
<1>2. CASE Crash
  BY <1>2, KeptCrashes
<1>3. ASSUME NEW w \in Workers,
             \/ \E u \in Updates : Deliver(u, w)
             \/ Start(w) \/ Configure(w) \/ PollStart(w) \/ Wake(w) \/ BatchDone(w)
             \/ \E b \in BOOLEAN : Fetched(w, b) \/ FetchFails(w, b) \/ Fallback(w, b)
      PROVE  Kept'
  BY <1>3, KeptDelivers, KeptTurns, KeptFetches, KeptFinishes DEF Finishing
<1>4. ASSUME NEW w \in Workers,
             \/ SkipSeen(w) \/ Malformed(w) \/ GroupGate(w) \/ PollGroupGate(w) \/ Pair(w) \/ Prompt(w)
             \/ Admit(w) \/ Attachments(w) \/ RouterDone(w) \/ HandlerFails(w)
      PROVE  Kept'
  BY <1>4, KeptFinishes, KeptBreaks, KeptWorks DEF Finishing
<1> QED BY <1>1, <1>2, <1>3, <1>4 DEF Next

\* An update the cursor or the offset has passed, or that was pushed, is not
\* lost through stops, reconfigurations, crashes, overlapping loops and failing
\* handlers: it became a turn, its sender was told something or nothing on
\* purpose, or its failure was booked; or it is in a worker's hands, or was
\* when that worker was cut off.
THEOREM NothingIsLost == Spec => []NothingVanishes
<1>1. Kept => NothingVanishes
  BY BegunIs DEF Kept, NothingVanishes, Safe
<1>2. Spec => []Kept
  BY TypesInit, TypesKeep, KeptInit, KeptKeeps, PTL DEF Spec
<1> QED BY <1>1, <1>2, PTL

===============================================================================
