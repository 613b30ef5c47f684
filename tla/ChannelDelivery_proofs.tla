----------------------- MODULE ChannelDelivery_proofs -----------------------
(***************************************************************************)
(* What holds of ChannelDelivery for every set of channels and keys, every *)
(* limit of the queue and any number of replies, acknowledgements and      *)
(* restarts: its types, one drain per channel, no double send, what is     *)
(* shed, and the contract of each reply (ReplyContract).                   *)
(***************************************************************************)
EXTENDS ChannelDelivery, FiniteSetTheorems, WellFoundedInduction, TLAPS

---------------------------------------------------------------------------
(* Least elements.                                                          *)

(* A non-empty set of naturals has a least element, so Min is one of its    *)
(* members.                                                                 *)
LEMMA LeastExists ==
  ASSUME NEW S, S \subseteq Nat, S # {}
  PROVE  \E x \in S : \A y \in S : x <= y
<1>1. PICK x \in S : \A y \in S : ~ (<<y, x>> \in OpToRel(<, Nat))
  BY WFMin, NatLessThanWellFounded
<1>2. \A y \in S : ~ (y < x)
  BY <1>1 DEF OpToRel
<1> QED BY <1>2

LEMMA MinIsMember ==
  ASSUME NEW S, S \subseteq Nat, S # {}
  PROVE  Min(S) \in S
BY LeastExists DEF Min

(* A bounded set of naturals has a greatest element, which is its Max.      *)
LEMMA MaxIsGreatest ==
  ASSUME NEW S, S \subseteq Nat, 0 \in S, NEW b \in Nat, \A y \in S : y <= b
  PROVE  Max(S) \in S /\ \A y \in S : y <= Max(S)
<1> DEFINE Bounds == {u \in Nat : \A y \in S : y <= u}
<1>1. PICK m \in Bounds : \A u \in Bounds : m <= u
  <2>1. b \in Bounds
    OBVIOUS
  <2> QED BY <2>1, LeastExists
<1>2. m \in S
  <2>1. SUFFICES ASSUME m \notin S PROVE FALSE
    OBVIOUS
  <2>2. m # 0 /\ m - 1 \in Nat
    BY <2>1
  <2>3. \A y \in S : y <= m - 1
    BY <2>1, <2>2
  <2> QED BY <1>1, <2>2, <2>3
<1>3. \A y \in S : m >= y
  BY <1>1
<1>4. \E x \in S : \A y \in S : x >= y
  BY <1>2, <1>3
<1> QED BY <1>4 DEF Max

---------------------------------------------------------------------------
(* What the operators of the queue preserve.                                *)

(* Positions are counted in finite sets of ids.                             *)
LEMMA CountsAreNat ==
  ASSUME NEW x, IsQueue(x), NEW S, S \subseteq DOMAIN x.entries, NEW T
  PROVE  IsFiniteSet(S) /\ Cardinality(S \ T) \in Nat
<1>1. IsFiniteSet(1 .. x.nextId - 1)
  BY FS_Interval DEF IsQueue
<1>2. S \subseteq 1 .. x.nextId - 1
  BY DEF IsQueue, IsEntries
<1>3. IsFiniteSet(S)
  BY <1>1, <1>2, FS_Subset
<1>4. IsFiniteSet(S \ T)
  BY <1>3, FS_Subset
<1> QED BY <1>3, <1>4, FS_CardinalityType

(* Queue y is what x may become: ids are handed out upwards, no entry       *)
(* changes its channel, and none that was decided is pending again.         *)
Evolves(x, y) ==
  /\ y.nextId >= x.nextId
  /\ \A i \in DOMAIN y.entries :
       /\ i \in DOMAIN x.entries =>
            /\ y.entries[i].channel = x.entries[i].channel
            /\ IsPending(y.entries[i]) => IsPending(x.entries[i])
       /\ i \notin DOMAIN x.entries => i >= x.nextId

LEMMA EvolvesTransitive ==
  ASSUME NEW x, NEW y, NEW z, IsQueue(x), IsQueue(y), IsQueue(z),
         Evolves(x, y), Evolves(y, z)
  PROVE  Evolves(x, z)
BY DEF Evolves, IsQueue, IsEntries

LEMMA EvolvesReflexive ==
  ASSUME NEW x, IsQueue(x)
  PROVE  Evolves(x, x)
BY DEF Evolves, IsQueue

(* An entry at another position is an entry of the same channel and fate.   *)
LEMMA EntryAtPosition ==
  ASSUME NEW n, NEW e, IsEntry(n, e), NEW a \in Nat
  PROVE  LET f == [e EXCEPT !.at = a]
         IN  IsEntry(n, f) /\ f.channel = e.channel /\ (IsPending(f) <=> IsPending(e))
<1> DEFINE f == [e EXCEPT !.at = a]
<1>1. e = [key |-> e.key, channel |-> e.channel, notice |-> e.notice, status |-> e.status,
           acked |-> e.acked, attempts |-> e.attempts, due |-> e.due, at |-> e.at]
  BY DEF IsEntry
<1>2. f = [key |-> e.key, channel |-> e.channel, notice |-> e.notice, status |-> e.status,
           acked |-> e.acked, attempts |-> e.attempts, due |-> e.due, at |-> a]
  BY <1>1
<1> HIDE DEF f
<1>3. /\ f.key = e.key /\ f.channel = e.channel /\ f.notice = e.notice /\ f.status = e.status
      /\ f.acked = e.acked /\ f.attempts = e.attempts /\ f.due = e.due /\ f.at = a
  BY <1>2
<1>4. f = [key |-> f.key, channel |-> f.channel, notice |-> f.notice, status |-> f.status,
           acked |-> f.acked, attempts |-> f.attempts, due |-> f.due, at |-> f.at]
  BY <1>2, <1>3
<1>5. IsEntry(n, f)
  BY <1>3, <1>4 DEF IsEntry
<1> QED BY <1>3, <1>5 DEF f, IsPending

(* Keeping some entries at new positions.                                   *)
IsMoved(x, y, S) ==
  /\ y = [entries |-> y.entries, nextId |-> y.nextId]
  /\ y.nextId = x.nextId
  /\ y.entries = [i \in S |-> y.entries[i]]
  /\ \A i \in S : \E a \in Nat : y.entries[i] = [x.entries[i] EXCEPT !.at = a]

LEMMA MovedIsQueue ==
  ASSUME NEW x, IsQueue(x), NEW S, S \subseteq DOMAIN x.entries,
         NEW y, IsMoved(x, y, S)
  PROVE  IsQueue(y) /\ Evolves(x, y) /\ DOMAIN y.entries = S /\ y.nextId = x.nextId
<1>1. /\ y = [entries |-> y.entries, nextId |-> y.nextId]
      /\ y.nextId = x.nextId
      /\ y.entries = [i \in S |-> y.entries[i]]
  BY DEF IsMoved
<1>2. DOMAIN y.entries = S
  BY <1>1
<1>3. \A i \in S : IsEntry(i, x.entries[i])
  BY DEF IsQueue, IsEntries
<1>4. \A i \in S : /\ IsEntry(i, y.entries[i])
                   /\ y.entries[i].channel = x.entries[i].channel
                   /\ IsPending(y.entries[i]) <=> IsPending(x.entries[i])
  <2>1. TAKE i \in S
  <2>2. PICK a \in Nat : y.entries[i] = [x.entries[i] EXCEPT !.at = a]
    BY DEF IsMoved
  <2> QED BY <1>3, <2>2, EntryAtPosition
<1>5. IsQueue(y)
  BY <1>1, <1>2, <1>4 DEF IsQueue, IsEntries
<1>6. Evolves(x, y)
  BY <1>1, <1>2, <1>4 DEF Evolves, IsQueue
<1> QED BY <1>1, <1>2, <1>5, <1>6

LEMMA RestrictedIsQueue ==
  ASSUME NEW x, IsQueue(x), NEW S, S \subseteq DOMAIN x.entries
  PROVE  /\ IsQueue(Restricted(x, S))
         /\ Evolves(x, Restricted(x, S))
         /\ DOMAIN Restricted(x, S).entries = S
         /\ Restricted(x, S).nextId = x.nextId
<1> DEFINE y == Restricted(x, S)
           pos(i) == Cardinality(S \ After(x, S, i))
<1>1. \A i \in S : pos(i) \in Nat
  BY CountsAreNat
<1>2. IsMoved(x, y, S)
  <2>1. /\ y = [entries |-> y.entries, nextId |-> y.nextId]
        /\ y.nextId = x.nextId
        /\ y.entries = [i \in S |-> [x.entries[i] EXCEPT !.at = pos(i)]]
    <3> DEFINE es == [i \in S |-> [x.entries[i] EXCEPT !.at = pos(i)]]
    <3>1. y = [x EXCEPT !.entries = es]
      BY Zenon DEF Restricted
    <3>2. x = [entries |-> x.entries, nextId |-> x.nextId]
      BY Zenon DEF IsQueue
    <3> HIDE DEF es, y
    <3>3. y = [entries |-> es, nextId |-> x.nextId]
      BY <3>1, <3>2
    <3>4. y.entries = es /\ y.nextId = x.nextId
      BY <3>3
    <3>5. y = [entries |-> y.entries, nextId |-> y.nextId]
      BY <3>3, <3>4
    <3> QED BY <3>4, <3>5 DEF es
  <2> HIDE DEF pos, y
  <2> QED BY <1>1, <2>1 DEF IsMoved
<1> HIDE DEF y
<1>3. IsQueue(y) /\ Evolves(x, y) /\ DOMAIN y.entries = S /\ y.nextId = x.nextId
  BY <1>2, MovedIsQueue
<1> QED BY <1>3 DEF y

(* Changing one entry, without reviving it.                                 *)
LEMMA UpdatedIsQueue ==
  ASSUME NEW x, IsQueue(x), NEW k \in DOMAIN x.entries,
         NEW e, IsEntry(k, e), e.channel = x.entries[k].channel,
         IsPending(e) => IsPending(x.entries[k])
  PROVE  LET y == [x EXCEPT !.entries[k] = e]
         IN  /\ IsQueue(y) /\ Evolves(x, y)
             /\ DOMAIN y.entries = DOMAIN x.entries /\ y.nextId = x.nextId
             /\ y.entries[k] = e
<1> DEFINE y == [x EXCEPT !.entries[k] = e]
<1>1. x = [entries |-> x.entries, nextId |-> x.nextId]
  BY Zenon DEF IsQueue
<1>2. /\ y.nextId = x.nextId
      /\ y.entries = [x.entries EXCEPT ![k] = e]
      /\ y = [entries |-> y.entries, nextId |-> y.nextId]
  BY <1>1
<1> HIDE DEF y
<1>3. x.entries = [i \in DOMAIN x.entries |-> x.entries[i]]
  BY DEF IsQueue, IsEntries
<1>4. /\ DOMAIN y.entries = DOMAIN x.entries
      /\ y.entries = [i \in DOMAIN x.entries |-> y.entries[i]]
      /\ y.entries[k] = e
      /\ \A i \in DOMAIN x.entries \ {k} : y.entries[i] = x.entries[i]
  BY <1>2, <1>3
<1>5. IsQueue(y)
  BY <1>2, <1>4 DEF IsQueue, IsEntries
<1>6. Evolves(x, y)
  BY <1>2, <1>4 DEF Evolves, IsQueue
<1> QED BY <1>2, <1>4, <1>5, <1>6 DEF y

(* A key that may be enqueued, and the notice of a reply handed out before. *)
IsKey(n, key, notice) ==
  /\ notice \in BOOLEAN
  /\ IF notice THEN \E i \in 1 .. n - 1 : key = NoticeKey(i)
               ELSE key \in HostKeys \cup PollKeys \cup InboundKeys

LEMMA NewEntryIsEntry ==
  ASSUME NEW x, IsQueue(x), NEW c \in Channels, NEW key, NEW notice, IsKey(x.nextId, key, notice)
  PROVE  /\ IsEntry(x.nextId, NewEntry(x, key, c, notice))
         /\ NewEntry(x, key, c, notice).channel = c
<1>1. Cardinality(DOMAIN x.entries) \in Nat
  <2>1. Cardinality(DOMAIN x.entries \ {}) \in Nat
    BY CountsAreNat
  <2>2. DOMAIN x.entries \ {} = DOMAIN x.entries
    OBVIOUS
  <2> QED BY <2>1, <2>2
<1> DEFINE a == Cardinality(DOMAIN x.entries) + 1
<1>2. a \in Nat
  BY <1>1
<1> HIDE DEF a
<1>3. NewEntry(x, key, c, notice) =
        [key |-> key, channel |-> c, notice |-> notice, status |-> "queued", acked |-> FALSE,
         attempts |-> 0, due |-> TRUE, at |-> a]
  BY Zenon DEF NewEntry, a
<1> QED BY <1>2, <1>3 DEF IsEntry, IsKey, Status

LEMMA PushedIsQueue ==
  ASSUME NEW x, IsQueue(x), NEW e, IsEntry(x.nextId, e)
  PROVE  /\ IsQueue(Pushed(x, e)) /\ Evolves(x, Pushed(x, e))
         /\ DOMAIN Pushed(x, e).entries = DOMAIN x.entries \cup {x.nextId}
         /\ Pushed(x, e).nextId = x.nextId + 1
         /\ Pushed(x, e).entries[x.nextId] = e
<1> DEFINE y == Pushed(x, e)
<1>1. /\ y.nextId = x.nextId + 1
      /\ y.entries = [i \in DOMAIN x.entries \cup {x.nextId} |->
                        IF i = x.nextId THEN e ELSE x.entries[i]]
      /\ y = [entries |-> y.entries, nextId |-> y.nextId]
  BY DEF Pushed
<1> HIDE DEF y
<1>2. x.nextId \in Nat \ {0} /\ DOMAIN x.entries \subseteq 1 .. x.nextId - 1
  BY DEF IsQueue, IsEntries
<1>3. /\ DOMAIN y.entries = DOMAIN x.entries \cup {x.nextId}
      /\ y.entries = [i \in DOMAIN y.entries |-> y.entries[i]]
      /\ y.entries[x.nextId] = e
      /\ \A i \in DOMAIN x.entries : i # x.nextId /\ y.entries[i] = x.entries[i]
  BY <1>1, <1>2
<1>4. \A i \in DOMAIN y.entries : IsEntry(i, y.entries[i])
  BY <1>3 DEF IsQueue, IsEntries
<1>5. IsQueue(y)
  BY <1>1, <1>2, <1>3, <1>4 DEF IsQueue, IsEntries
<1>6. Evolves(x, y)
  BY <1>1, <1>2, <1>3 DEF Evolves
<1> QED BY <1>1, <1>3, <1>5, <1>6 DEF y

(* enqueue hands out at most one id, to an entry of the channel it is for.  *)
LEMMA EnqueueIsQueue ==
  ASSUME NEW x, IsQueue(x), NEW c \in Channels, NEW key, NEW notice, IsKey(x.nextId, key, notice)
  PROVE  LET y == Enqueue(x, key, c, notice)
         IN  /\ IsQueue(y) /\ Evolves(x, y)
             /\ \A i \in DOMAIN y.entries \ DOMAIN x.entries : y.entries[i].channel = c
<1> DEFINE e == NewEntry(x, key, c, notice)
           p == Pushed(x, e)
           y == Enqueue(x, key, c, notice)
<1>1. CASE Duplicate(x, key)
  <2>1. y = x
    BY <1>1 DEF Enqueue
  <2> QED BY <2>1, EvolvesReflexive
<1>2. CASE ~Duplicate(x, key)
  <2>1. y = Restricted(p, DOMAIN p.entries \ Overflow(p))
    BY <1>2 DEF Enqueue, ShedActive
  <2>2. IsEntry(x.nextId, e) /\ e.channel = c
    BY NewEntryIsEntry
  <2> HIDE DEF e
  <2>3. /\ IsQueue(p) /\ Evolves(x, p)
        /\ DOMAIN p.entries = DOMAIN x.entries \cup {x.nextId}
        /\ p.entries[x.nextId] = e
    BY <2>2, PushedIsQueue
  <2> HIDE DEF p
  <2>4. /\ IsQueue(y) /\ Evolves(p, y)
        /\ DOMAIN y.entries = DOMAIN p.entries \ Overflow(p)
    BY <2>1, <2>3, RestrictedIsQueue
  <2> HIDE DEF y
  <2>5. Evolves(x, y)
    BY <2>3, <2>4, EvolvesTransitive
  <2>6. \A i \in DOMAIN y.entries \ DOMAIN x.entries : y.entries[i].channel = c
    <3>1. TAKE i \in DOMAIN y.entries \ DOMAIN x.entries
    <3>2. i = x.nextId /\ i \in DOMAIN p.entries
      BY <2>3, <2>4
    <3>3. y.entries[i].channel = p.entries[i].channel
      BY <2>4, <3>2 DEF Evolves
    <3> QED BY <2>2, <2>3, <3>2, <3>3
  <2> QED BY <2>4, <2>5, <2>6 DEF y
<1> QED BY <1>1, <1>2

(* prune only leaves terminal entries out, and moves the others.            *)
LEMMA PruneIsQueue ==
  ASSUME NEW x, IsQueue(x)
  PROVE  /\ IsQueue(Prune(x)) /\ Evolves(x, Prune(x))
         /\ DOMAIN Prune(x).entries \subseteq DOMAIN x.entries
         /\ Prune(x).nextId = x.nextId
<1> DEFINE kept == Active(x) \cup LastTerminal(x, MaxTerminal)
           Before(i) == {j \in kept : IF i \in Terminal(x) /\ j \notin Terminal(x) THEN TRUE
                                      ELSE /\ i \in Terminal(x) <=> j \in Terminal(x)
                                           /\ x.entries[j].at < x.entries[i].at}
           pos(i) == Cardinality(Before(i)) + 1
           es == [i \in kept |-> [x.entries[i] EXCEPT !.at = pos(i)]]
           y  == Prune(x)
<1>1. CASE Cardinality(Terminal(x)) <= MaxTerminal
  <2>1. y = x
    BY <1>1 DEF Prune
  <2> QED BY <2>1, EvolvesReflexive
<1>2. CASE ~(Cardinality(Terminal(x)) <= MaxTerminal)
  <2>1. y = [x EXCEPT !.entries = es]
    BY <1>2, Zenon DEF Prune
  <2>2. kept \subseteq DOMAIN x.entries
    BY DEF Active, LastTerminal, Terminal
  <2>3. \A i \in kept : pos(i) \in Nat
    <3>1. TAKE i \in kept
    <3>2. Before(i) \subseteq kept
      OBVIOUS
    <3> HIDE DEF Before, kept
    <3>3. IsFiniteSet(kept)
      BY <2>2, CountsAreNat
    <3>4. Cardinality(Before(i)) \in Nat
      BY <3>2, <3>3, FS_Subset, FS_CardinalityType
    <3> QED BY <3>4
  <2>4. x = [entries |-> x.entries, nextId |-> x.nextId]
    BY Zenon DEF IsQueue
  <2>5. IsMoved(x, y, kept)
    <3> HIDE DEF es, y
    <3>1. y = [entries |-> es, nextId |-> x.nextId]
      BY <2>1, <2>4
    <3>2. y.entries = es /\ y.nextId = x.nextId
      BY <3>1
    <3>3. y = [entries |-> y.entries, nextId |-> y.nextId]
      BY <3>1, <3>2
    <3>4. y.entries = [i \in kept |-> [x.entries[i] EXCEPT !.at = pos(i)]]
      BY <3>2 DEF es
    <3> HIDE DEF pos, kept
    <3> QED BY <2>3, <3>2, <3>3, <3>4 DEF IsMoved
  <2> HIDE DEF y, kept
  <2>6. IsQueue(y) /\ Evolves(x, y) /\ DOMAIN y.entries = kept /\ y.nextId = x.nextId
    BY <2>2, <2>5, MovedIsQueue
  <2> QED BY <2>2, <2>6 DEF y
<1> QED BY <1>1, <1>2

(* The record an entry becomes when its outcome changes.                    *)
Revised(o, s, k, n, u) ==
  [key |-> o.key, channel |-> o.channel, notice |-> o.notice, status |-> s,
   acked |-> k, attempts |-> n, due |-> u, at |-> o.at]

LEMMA RevisedIsEntry ==
  ASSUME NEW i, NEW o, IsEntry(i, o), NEW s \in Status, NEW k \in BOOLEAN, NEW n \in Nat,
         NEW u \in BOOLEAN, s = "delivered" => k, s = "failed" => n >= MaxAttempts
  PROVE  IsEntry(i, Revised(o, s, k, n, u)) /\ Revised(o, s, k, n, u).channel = o.channel
BY DEF IsEntry, Revised

LEMMA EntryDelivered ==
  ASSUME NEW i, NEW o, IsEntry(i, o)
  PROVE  LET e == [o EXCEPT !.status = "delivered", !.acked = TRUE]
         IN  IsEntry(i, e) /\ e.channel = o.channel /\ ~IsPending(e)
<1> DEFINE e == [o EXCEPT !.status = "delivered", !.acked = TRUE]
<1>1. o = [key |-> o.key, channel |-> o.channel, notice |-> o.notice, status |-> o.status,
           acked |-> o.acked, attempts |-> o.attempts, due |-> o.due, at |-> o.at]
  BY DEF IsEntry
<1> DEFINE e1 == [o EXCEPT !.status = "delivered"]
<1>2. e = Revised(o, "delivered", TRUE, o.attempts, o.due)
  <2>1. e = [e1 EXCEPT !.acked = TRUE]
    BY Zenon
  <2>2. e1 = Revised(o, "delivered", o.acked, o.attempts, o.due)
    BY <1>1 DEF Revised
  <2> HIDE DEF e, e1
  <2> QED BY <2>1, <2>2 DEF Revised
<1> HIDE DEF e, e1
<1>3. "delivered" \in Status /\ o.attempts \in Nat /\ o.due \in BOOLEAN
  BY DEF IsEntry, Status, TerminalStatus
<1>4. ~IsPending(Revised(o, "delivered", TRUE, o.attempts, o.due))
  BY DEF Revised, IsPending
<1>5. IsEntry(i, e) /\ e.channel = o.channel /\ ~IsPending(e)
  BY <1>2, <1>3, <1>4, RevisedIsEntry
<1> QED BY <1>5 DEF e

(* A delivered (or acknowledged) entry is not pending, if it is kept.       *)
LEMMA MarkDeliveredIsQueue ==
  ASSUME NEW x, IsQueue(x), NEW k \in DOMAIN x.entries
  PROVE  LET y == MarkDelivered(x, k)
         IN  /\ IsQueue(y) /\ Evolves(x, y)
             /\ DOMAIN y.entries \subseteq DOMAIN x.entries /\ y.nextId = x.nextId
             /\ k \in DOMAIN y.entries => ~IsPending(y.entries[k])
<1> DEFINE e == [x.entries[k] EXCEPT !.status = "delivered", !.acked = TRUE]
           z == [x EXCEPT !.entries[k] = e]
           y == MarkDelivered(x, k)
<1>1. y = Prune(z)
  <2>1. [x EXCEPT !.entries[k] = [@ EXCEPT !.status = "delivered", !.acked = TRUE]] = z
    OBVIOUS
  <2> QED BY <2>1 DEF MarkDelivered
<1>2. IsEntry(k, x.entries[k])
  BY DEF IsQueue, IsEntries
<1>3. IsEntry(k, e) /\ e.channel = x.entries[k].channel /\ ~IsPending(e)
  BY <1>2, EntryDelivered
<1> HIDE DEF e
<1>4. /\ IsQueue(z) /\ Evolves(x, z)
      /\ DOMAIN z.entries = DOMAIN x.entries /\ z.nextId = x.nextId /\ z.entries[k] = e
  BY <1>3, UpdatedIsQueue
<1> HIDE DEF z
<1>5. /\ IsQueue(y) /\ Evolves(z, y)
      /\ DOMAIN y.entries \subseteq DOMAIN z.entries /\ y.nextId = z.nextId
  BY <1>1, <1>4, PruneIsQueue
<1> HIDE DEF y
<1>6. Evolves(x, y)
  BY <1>4, <1>5, EvolvesTransitive
<1>7. k \in DOMAIN y.entries => ~IsPending(y.entries[k])
  BY <1>3, <1>4, <1>5 DEF Evolves
<1> QED BY <1>4, <1>5, <1>6, <1>7 DEF y

(* A failed attempt leaves the entry pending or gives it up.                *)
LEMMA EntryAttempted ==
  ASSUME NEW i, NEW o, IsEntry(i, o),
         NEW n, n = o.attempts + 1
  PROVE  LET e == [o EXCEPT !.attempts = n,
                            !.status   = IF n >= MaxAttempts THEN "failed" ELSE "retrying",
                            !.due      = n <= 1 \/ n >= MaxAttempts]
         IN  /\ IsEntry(i, e) /\ e.channel = o.channel
             /\ IsPending(e) => IsPending(o)
<1> DEFINE s  == IF n >= MaxAttempts THEN "failed" ELSE "retrying"
           u  == n <= 1 \/ n >= MaxAttempts
           e1 == [o EXCEPT !.attempts = n]
           e2 == [e1 EXCEPT !.status = s]
           e  == [o EXCEPT !.attempts = n, !.status = s, !.due = u]
<1>1. e = [e2 EXCEPT !.due = u]
  BY Zenon
<1>2. o = [key |-> o.key, channel |-> o.channel, notice |-> o.notice, status |-> o.status,
           acked |-> o.acked, attempts |-> o.attempts, due |-> o.due, at |-> o.at]
  BY DEF IsEntry
<1>3. /\ s \in Status /\ u \in BOOLEAN /\ n \in Nat /\ o.acked \in BOOLEAN
      /\ s # "delivered"
      /\ s = "failed" => n >= MaxAttempts
      /\ s = "retrying" => ~(n >= MaxAttempts)
  BY DEF IsEntry, Status, TerminalStatus
<1> HIDE DEF s, u, e, e2
<1>4. e1 = Revised(o, o.status, o.acked, n, o.due)
  BY <1>2 DEF Revised
<1> HIDE DEF e1
<1>5. e2 = Revised(o, s, o.acked, n, o.due)
  BY <1>4 DEF Revised, e2
<1> HIDE DEF e2
<1>6. e = Revised(o, s, o.acked, n, u)
  BY <1>1, <1>5 DEF Revised
<1>7. IsEntry(i, e) /\ e.channel = o.channel
  BY <1>3, <1>6, RevisedIsEntry
<1>8. ASSUME IsPending(e) PROVE IsPending(o)
  <2>1. ~o.acked /\ s \in {"queued", "retrying"}
    BY <1>6, <1>8 DEF IsPending, Revised
  <2>2. s = "retrying"
    BY <2>1 DEF s
  <2>3. o.status \notin TerminalStatus
    BY <1>3, <2>1, <2>2, QueueAssumption DEF IsEntry, TerminalStatus
  <2> QED BY <2>1, <2>3 DEF IsPending, IsEntry, Status
<1> QED BY <1>7, <1>8 DEF e, s, u

LEMMA MarkFailedIsQueue ==
  ASSUME NEW x, IsQueue(x), NEW k \in DOMAIN x.entries
  PROVE  LET y == MarkFailed(x, k)
         IN  /\ IsQueue(y) /\ Evolves(x, y)
             /\ DOMAIN y.entries \subseteq DOMAIN x.entries /\ y.nextId = x.nextId
<1> DEFINE n == x.entries[k].attempts + 1
           e == [x.entries[k] EXCEPT !.attempts = n,
                                     !.status   = IF n >= MaxAttempts THEN "failed" ELSE "retrying",
                                     !.due      = n <= 1 \/ n >= MaxAttempts]
           z == Attempted(x, k)
           y == MarkFailed(x, k)
<1>1. z = [x EXCEPT !.entries[k] = e]
  BY Zenon DEF Attempted
<1>2. IsEntry(k, x.entries[k])
  BY DEF IsQueue, IsEntries
<1>3. IsEntry(k, e) /\ e.channel = x.entries[k].channel /\ (IsPending(e) => IsPending(x.entries[k]))
  BY <1>2, EntryAttempted
<1> HIDE DEF e
<1>4. /\ IsQueue(z) /\ Evolves(x, z)
      /\ DOMAIN z.entries = DOMAIN x.entries /\ z.nextId = x.nextId
  BY <1>1, <1>3, UpdatedIsQueue
<1>5. y = z \/ y = Prune(z)
  BY DEF MarkFailed
<1> HIDE DEF y, z
<1>6. CASE y = z
  BY <1>4, <1>6 DEF y
<1>7. CASE y = Prune(z)
  <2>1. /\ IsQueue(y) /\ Evolves(z, y)
        /\ DOMAIN y.entries \subseteq DOMAIN z.entries /\ y.nextId = z.nextId
    BY <1>4, <1>7, PruneIsQueue
  <2>2. Evolves(x, y)
    BY <1>4, <2>1, EvolvesTransitive
  <2> QED BY <1>4, <2>1, <2>2 DEF y
<1> QED BY <1>5, <1>6, <1>7

(* A retry whose backoff is over.                                           *)
LEMMA DueAgainIsQueue ==
  ASSUME NEW x, IsQueue(x), NEW k \in DOMAIN x.entries
  PROVE  LET y == [x EXCEPT !.entries[k].due = TRUE]
         IN  /\ IsQueue(y) /\ Evolves(x, y)
             /\ DOMAIN y.entries = DOMAIN x.entries /\ y.nextId = x.nextId
<1> DEFINE o == x.entries[k]
           e == [x.entries[k] EXCEPT !.due = TRUE]
           y == [x EXCEPT !.entries[k] = e]
<1>1. IsEntry(k, o)
  BY DEF IsQueue, IsEntries
<1> HIDE DEF o
<1>2. e = Revised(o, o.status, o.acked, o.attempts, TRUE)
  <2>1. o = [key |-> o.key, channel |-> o.channel, notice |-> o.notice, status |-> o.status,
             acked |-> o.acked, attempts |-> o.attempts, due |-> o.due, at |-> o.at]
    BY <1>1 DEF IsEntry
  <2>2. e = [o EXCEPT !.due = TRUE]
    BY Zenon DEF o
  <2> HIDE DEF e
  <2> QED BY <2>1, <2>2 DEF Revised
<1> HIDE DEF e
<1>3. /\ o.status \in Status /\ o.acked \in BOOLEAN /\ o.attempts \in Nat
      /\ o.status = "delivered" => o.acked
      /\ o.status = "failed" => o.attempts >= MaxAttempts
  BY <1>1 DEF IsEntry
<1>4. IsEntry(k, e) /\ e.channel = o.channel /\ (IsPending(e) => IsPending(o))
  BY <1>1, <1>2, <1>3, RevisedIsEntry DEF Revised, IsPending
<1>5. [x EXCEPT !.entries[k].due = TRUE] = y
  BY SMT DEF e
<1> HIDE DEF y
<1>6. IsQueue(y) /\ Evolves(x, y) /\ DOMAIN y.entries = DOMAIN x.entries /\ y.nextId = x.nextId
  BY <1>4, UpdatedIsQueue DEF o, y
<1> QED BY <1>5, <1>6

(* What is saved has ids of the queue, and what is restored is a queue.     *)
LEMMA SnapshotIsEntries ==
  ASSUME NEW x, IsQueue(x)
  PROVE  IsEntries(PersistSnapshot(x), x.nextId)
<1> DEFINE S == Active(x) \cup LastTerminal(x, MaxPersisted)
<1>1. S \subseteq DOMAIN x.entries
  BY DEF Active, LastTerminal, Terminal
<1> HIDE DEF S
<1>2. IsQueue(Restricted(x, S)) /\ Restricted(x, S).nextId = x.nextId
  BY <1>1, RestrictedIsQueue
<1> QED BY <1>2 DEF IsQueue, PersistSnapshot, S

LEMMA RestoredIsQueue ==
  ASSUME NEW es, NEW n \in Nat \ {0}, IsEntries(es, n)
  PROVE  IsQueue(Restored(es)) /\ Restored(es).entries = es
<1> DEFINE S == {0} \cup DOMAIN es
<1>1. S \subseteq Nat /\ 0 \in S /\ \A i \in S : i <= n
  BY DEF IsEntries
<1>2. Max(S) \in S /\ \A i \in S : i <= Max(S)
  BY <1>1, MaxIsGreatest
<1>3. Restored(es) = [entries |-> es, nextId |-> Max(S) + 1]
  BY Zenon DEF Restored
<1> DEFINE m == Max(S)
<1> HIDE DEF m
<1>4. m \in Nat /\ DOMAIN es \subseteq 1 .. (m + 1) - 1
  <2>1. m \in S /\ \A i \in S : i <= m
    BY <1>2 DEF m
  <2>2. DOMAIN es \subseteq Nat \ {0}
    BY DEF IsEntries
  <2>3. m \in Nat /\ \A i \in DOMAIN es : i \in Nat \ {0} /\ i <= m
    BY <1>1, <2>1, <2>2
  <2> HIDE DEF S
  <2> QED BY <2>3
<1> HIDE DEF S
<1>5. IsEntries(es, m + 1)
  BY <1>4 DEF IsEntries
<1> QED BY <1>3, <1>4, <1>5 DEF IsQueue, m

---------------------------------------------------------------------------
(* What the steps of a drain preserve.                                      *)

LEMMA EntriesMonotone ==
  ASSUME NEW es, NEW n \in Nat, NEW m \in Nat, n <= m, IsEntries(es, n)
  PROVE  IsEntries(es, m)
BY DEF IsEntries

LEMMA DueAreIds ==
  ASSUME NEW x, IsQueue(x), NEW c
  PROVE  /\ Due(x, c) \subseteq DOMAIN x.entries
         /\ Due(x, c) \subseteq Nat \ {0}
         /\ \A i \in Due(x, c) : /\ i < x.nextId
                                 /\ IsPending(x.entries[i])
                                 /\ x.entries[i].channel = c
BY DEF Due, Pending, IsQueue, IsEntries

(* What a drain has still to render.                                        *)
Left(d) == d.todo \cup (IF d.stage = "render" THEN {d.current} ELSE {})

LEMMA AtIsDrain ==
  ASSUME NEW d \in Drain, NEW todo, todo \subseteq Nat \ {0}
  PROVE  /\ At(d, todo) \in Drain
         /\ At(d, todo).channel = d.channel /\ At(d, todo).rearm = d.rearm
         /\ At(d, todo).stage \in {"render", "persist"}
         /\ At(d, todo).stage = "persist" => At(d, todo).todo = {}
         /\ At(d, todo).current \notin At(d, todo).todo
         /\ Left(At(d, todo)) = todo
<1>1. d = [channel |-> d.channel, rearm |-> d.rearm, stage |-> d.stage,
           todo |-> d.todo, current |-> d.current]
  BY DEF Drain
<1>2. ASSUME NEW s, NEW t, NEW i
      PROVE  [d EXCEPT !.stage = s, !.todo = t, !.current = i] =
               [channel |-> d.channel, rearm |-> d.rearm, stage |-> s, todo |-> t, current |-> i]
  <2> DEFINE d1 == [d EXCEPT !.stage = s]
             d2 == [d1 EXCEPT !.todo = t]
  <2>1. [d EXCEPT !.stage = s, !.todo = t, !.current = i] = [d2 EXCEPT !.current = i]
    BY Zenon
  <2>2. d1 = [channel |-> d.channel, rearm |-> d.rearm, stage |-> s,
              todo |-> d.todo, current |-> d.current]
    BY <1>1
  <2> HIDE DEF d1
  <2>3. d2 = [channel |-> d.channel, rearm |-> d.rearm, stage |-> s,
              todo |-> t, current |-> d.current]
    BY <2>2
  <2> HIDE DEF d2
  <2> QED BY <2>1, <2>3
<1>3. CASE todo = {}
  <2>1. At(d, todo) = [channel |-> d.channel, rearm |-> d.rearm, stage |-> "persist",
                       todo |-> {}, current |-> 0]
    BY <1>2, <1>3 DEF At
  <2> QED BY <1>3, <2>1 DEF Drain, Left
<1>4. CASE todo # {}
  <2>1. Min(todo) \in todo
    BY <1>4, MinIsMember
  <2>2. At(d, todo) = [channel |-> d.channel, rearm |-> d.rearm, stage |-> "render",
                       todo |-> todo \ {Min(todo)}, current |-> Min(todo)]
    BY <1>2, <1>4 DEF At
  <2> DEFINE m == Min(todo)
  <2> HIDE DEF m
  <2>3. m \in todo /\ At(d, todo) = [channel |-> d.channel, rearm |-> d.rearm, stage |-> "render",
                       todo |-> todo \ {m}, current |-> m]
    BY <2>1, <2>2 DEF m
  <2> QED BY <2>3 DEF Drain, Left
<1> QED BY <1>3, <1>4

LEMMA StartedIsDrain ==
  ASSUME NEW c \in Channels, NEW rearm \in BOOLEAN, NEW todo, todo \subseteq Nat \ {0}
  PROVE  /\ StartedDrain(c, rearm, todo) \in Drain
         /\ StartedDrain(c, rearm, todo).channel = c
         /\ StartedDrain(c, rearm, todo).stage \in {"render", "persist"}
         /\ StartedDrain(c, rearm, todo).stage = "persist" => StartedDrain(c, rearm, todo).todo = {}
         /\ StartedDrain(c, rearm, todo).current \notin StartedDrain(c, rearm, todo).todo
         /\ Left(StartedDrain(c, rearm, todo)) = todo
<1> DEFINE d == [channel |-> c, rearm |-> rearm, stage |-> "persist", todo |-> {}, current |-> 0]
<1>1. d \in Drain /\ d.channel = c
  BY DEF Drain
<1>2. StartedDrain(c, rearm, todo) = At(d, todo)
  BY Zenon DEF StartedDrain
<1> HIDE DEF d
<1> DEFINE e == At(d, todo)
<1>3. /\ e \in Drain /\ e.channel = d.channel
      /\ e.stage \in {"render", "persist"} /\ (e.stage = "persist" => e.todo = {})
      /\ e.current \notin e.todo /\ Left(e) = todo
  BY <1>1, AtIsDrain
<1> HIDE DEF e
<1>4. StartedDrain(c, rearm, todo) = e
  BY <1>2 DEF e
<1> QED BY <1>1, <1>3, <1>4

(* The types of everything but the queue and the history, after a step that *)
(* leaves the queue with n as its next id.                                  *)
DrainTypes(ds, on, again, armed) ==
  ds \subseteq Drain /\ on \subseteq Channels /\ again \subseteq Channels /\ armed \subseteq PushChannels

SavingType(s, n) == s # NotSaving => IsEntries(s, n)

LEMMA ScheduledType ==
  ASSUME NEW armed, armed \subseteq PushChannels, NEW c, NEW x
  PROVE  Scheduled(armed, c, x) \subseteq PushChannels
BY DEF Scheduled

LEMMA SavedByType ==
  ASSUME NEW x, IsQueue(x), NEW d, NEW save, SavingType(save, x.nextId)
  PROVE  SavingType(SavedBy(d, x, save), x.nextId)
<1>1. SavingType(PersistSnapshot(x), x.nextId)
  BY SnapshotIsEntries DEF SavingType
<1> QED BY <1>1 DEF SavedBy

LEMMA SavingLasts ==
  ASSUME TypeOK, NEW n \in Nat, n >= q.nextId
  PROVE  SavingType(saving, n)
BY EntriesMonotone DEF TypeOK, IsQueue, SavingType

LEMMA DeliverQueuedType ==
  ASSUME TypeOK, NEW c \in Channels, NEW rearm \in BOOLEAN, NEW x, IsQueue(x),
         NEW save, SavingType(save, x.nextId), NEW armed, armed \subseteq PushChannels,
         DeliverQueued(c, rearm, x, armed, save)
  PROVE  DrainTypes(drains', delivering', deliverPending', timers') /\ SavingType(saving', x.nextId)
<1>1. CASE c \notin bound \/ c \in delivering
  BY <1>1, ScheduledType DEF DeliverQueued, TypeOK, DrainTypes
<1>2. CASE ~(c \notin bound \/ c \in delivering)
  <2> DEFINE d == StartedDrain(c, rearm, Due(x, c))
  <2>1. d \in Drain
    BY DueAreIds, StartedIsDrain
  <2>2. SavingType(SavedBy(d, x, save), x.nextId)
    BY SavedByType
  <2> HIDE DEF d
  <2>3. /\ delivering' = delivering \cup {c}
        /\ deliverPending' = deliverPending \ {c}
        /\ drains' = drains \cup {d}
        /\ saving' = SavedBy(d, x, save)
        /\ timers' = armed
    BY <1>2 DEF DeliverQueued, d
  <2> QED BY <2>1, <2>2, <2>3 DEF TypeOK, DrainTypes
<1> QED BY <1>1, <1>2

LEMMA ContinuesType ==
  ASSUME TypeOK, NEW d \in drains, NEW x, IsQueue(x), x.nextId >= q.nextId,
         NEW armed, armed \subseteq PushChannels, Continues(d, x, armed)
  PROVE  /\ drains' \subseteq Drain /\ delivering' \subseteq Channels /\ timers' \subseteq PushChannels
         /\ SavingType(saving', x.nextId)
<1> DEFINE n == At(d, d.todo)
<1>1. n \in Drain
  BY AtIsDrain DEF TypeOK, Drain
<1>2. SavingType(SavedBy(n, x, saving), x.nextId)
  BY SavedByType, SavingLasts DEF IsQueue
<1> HIDE DEF n
<1>3. /\ drains' = (drains \ {d}) \cup {n} /\ delivering' = delivering
      /\ saving' = SavedBy(n, x, saving) /\ timers' = armed
  BY DEF Continues, n
<1> QED BY <1>1, <1>2, <1>3 DEF TypeOK

LEMMA EndedType ==
  ASSUME TypeOK, NEW d \in drains, NEW x, NEW armed, armed \subseteq PushChannels, Ended(d, x, armed)
  PROVE  drains' \subseteq Drain /\ delivering' \subseteq Channels /\ timers' \subseteq PushChannels
BY ScheduledType DEF TypeOK, Ended

---------------------------------------------------------------------------
(* Every variable has its type, and an id is never handed out twice: the    *)
(* next one is beyond every id in the queue, in a save and on disk.         *)

LEMMA TypeInit == Init => TypeOK
<1> SUFFICES ASSUME Init PROVE TypeOK
  OBVIOUS
<1>1. EmptyQueue.entries = [i \in {} |-> {}] /\ EmptyQueue.nextId = 1
  BY DEF EmptyQueue
<1>2. IsEntries(EmptyQueue.entries, 1)
  BY <1>1 DEF IsEntries
<1>3. IsQueue(EmptyQueue)
  BY <1>2 DEF IsQueue, EmptyQueue
<1> QED BY <1>1, <1>2, <1>3, BoundAssumption DEF Init, TypeOK

LEMMA EnqueuedType ==
  ASSUME TypeOK, NEW c \in Channels, NEW k \in HostKeys \cup PollKeys \cup InboundKeys,
         q' = Enqueue(q, k, c, FALSE)
  PROVE  IsQueue(q') /\ q'.nextId >= q.nextId
<1>1. IsKey(q.nextId, k, FALSE)
  BY DEF IsKey
<1> QED BY <1>1, EnqueueIsQueue DEF TypeOK, Evolves

(* The queue after a failed render, without and with its notice.            *)
LEMMA NoticeIsQueue ==
  ASSUME NEW x, IsQueue(x), NEW i \in DOMAIN x.entries, NEW c \in Channels
  PROVE  LET y == MarkFailed(x, i)
             z == Enqueue(y, NoticeKey(i), c, TRUE)
         IN  /\ IsQueue(z) /\ Evolves(x, z)
             /\ \A j \in DOMAIN z.entries \ DOMAIN x.entries : z.entries[j].channel = c
<1> DEFINE y == MarkFailed(x, i)
           z == Enqueue(y, NoticeKey(i), c, TRUE)
<1>1. IsQueue(y) /\ Evolves(x, y) /\ DOMAIN y.entries \subseteq DOMAIN x.entries /\ y.nextId = x.nextId
  BY MarkFailedIsQueue
<1>2. i \in 1 .. x.nextId - 1
  BY DEF IsQueue, IsEntries
<1> HIDE DEF y
<1>3. IsKey(y.nextId, NoticeKey(i), TRUE)
  BY <1>1, <1>2 DEF IsKey
<1>4. /\ IsQueue(z) /\ Evolves(y, z)
      /\ \A j \in DOMAIN z.entries \ DOMAIN y.entries : z.entries[j].channel = c
  <2> DEFINE key == NoticeKey(i)
  <2> HIDE DEF key
  <2>1. IsQueue(y) /\ IsKey(y.nextId, key, TRUE)
    BY <1>1, <1>3 DEF key
  <2>2. PICK b \in BOOLEAN : b = TRUE
    OBVIOUS
  <2>3. z = Enqueue(y, key, c, b) /\ IsKey(y.nextId, key, b)
    BY <2>1, <2>2 DEF key
  <2> HIDE DEF z
  <2> QED BY <2>1, <2>3, EnqueueIsQueue
<1> HIDE DEF z
<1>5. Evolves(x, z)
  BY <1>1, <1>4, EvolvesTransitive
<1>6. \A j \in DOMAIN z.entries \ DOMAIN x.entries : z.entries[j].channel = c
  BY <1>1, <1>4
<1> QED BY <1>4, <1>5, <1>6 DEF z, y

LEMMA TypeStep == TypeOK /\ [Next]_vars => TypeOK'
<1> SUFFICES ASSUME TypeOK, [Next]_vars PROVE TypeOK'
  OBVIOUS
<1> USE DEF DrainTypes, SavingType
<1>0. q.nextId \in Nat \ {0}
  BY DEF TypeOK, IsQueue
<1>disk. ASSUME q'.nextId \in Nat, q'.nextId >= q.nextId PROVE IsEntries(disk, q'.nextId)
  BY <1>0, <1>disk, EntriesMonotone DEF TypeOK
<1>1. ASSUME NEW c \in Channels, NEW k \in KeysOf(c), HostReply(c, k) PROVE TypeOK'
  <2>1. IsQueue(q') /\ q'.nextId >= q.nextId
    <3>1. k \in HostKeys \cup PollKeys \cup InboundKeys /\ q' = Enqueue(q, k, c, FALSE)
      BY <1>1 DEF HostReply, KeysOf
    <3> QED BY <3>1, EnqueuedType
  <2>2. /\ DrainTypes(drains', delivering', deliverPending', timers')
        /\ SavingType(saving', q'.nextId)
    <3>1. SavingType(PersistSnapshot(q'), q'.nextId)
      BY <2>1, SnapshotIsEntries
    <3>2. CASE c \in PushChannels
      <4>1. DeliverQueued(c, TRUE, q', timers, PersistSnapshot(q'))
        BY <1>1, <3>2 DEF HostReply
      <4> QED BY <2>1, <3>1, <4>1, DeliverQueuedType DEF TypeOK
    <3>3. CASE c \notin PushChannels
      <4>1. saving' = PersistSnapshot(q') /\ UNCHANGED <<drains, delivering, deliverPending, timers>>
        BY <1>1, <3>3 DEF HostReply, drainVars
      <4> QED BY <3>1, <4>1 DEF TypeOK
    <3> QED BY <3>2, <3>3
  <2>3. IsEntries(disk, q'.nextId)
    BY <1>disk, <2>1 DEF IsQueue
  <2> QED BY <1>1, <2>1, <2>2, <2>3 DEF HostReply, TypeOK, linkVars, boundVars
<1>2. ASSUME NEW c \in Channels, NEW k \in InboundKeys, InboundReply(c, k) PROVE TypeOK'
  <2>1. IsQueue(q') /\ q'.nextId >= q.nextId
    BY <1>2, EnqueuedType DEF InboundReply
  <2>2. /\ DrainTypes(drains', delivering', deliverPending', timers')
        /\ SavingType(saving', q'.nextId)
    <3>1. SavingType(saving, q'.nextId)
      BY <2>1, SavingLasts DEF IsQueue
    <3>2. CASE c \in PushChannels
      <4>1. DeliverQueued(c, FALSE, q', timers, saving)
        BY <1>2, <3>2 DEF InboundReply
      <4> QED BY <2>1, <3>1, <4>1, DeliverQueuedType DEF TypeOK
    <3>3. CASE c \notin PushChannels
      <4>1. UNCHANGED <<drains, delivering, deliverPending, timers, saving>>
        BY <1>2, <3>3 DEF InboundReply, drainVars
      <4> QED BY <3>1, <4>1 DEF TypeOK
    <3> QED BY <3>2, <3>3
  <2>3. IsEntries(disk, q'.nextId)
    BY <1>disk, <2>1 DEF IsQueue
  <2> QED BY <1>2, <2>1, <2>2, <2>3 DEF InboundReply, TypeOK, linkVars, boundVars
<1>3. ASSUME NEW c \in PollChannels, PollDrains(c) PROVE TypeOK'
  <2>1. DeliverQueued(c, FALSE, q, timers, saving) /\ c \in Channels
    BY <1>3 DEF PollDrains, Channels
  <2>2. /\ DrainTypes(drains', delivering', deliverPending', timers')
        /\ SavingType(saving', q.nextId)
    <3>1. IsQueue(q) /\ SavingType(saving, q.nextId) /\ timers \subseteq PushChannels
      BY DEF TypeOK
    <3> QED BY <2>1, <3>1, DeliverQueuedType
  <2> QED BY <1>3, <2>2 DEF PollDrains, TypeOK, queueVars, linkVars, boundVars
<1>poll. ASSUME NEW c \in PollChannels, PollTick(c) \/ PollFails(c) PROVE TypeOK'
  BY <1>poll DEF PollTick, PollFails, TypeOK, queueVars, drainVars, storeVars, linkVars, boundVars
<1>bind. ASSUME NEW c \in Channels, Rebinds(c) PROVE TypeOK'
  <2>1. rebinds' \in 0 .. MaxRebinds
    BY <1>bind, BoundAssumption DEF Rebinds, TypeOK
  <2> QED BY <1>bind, <2>1 DEF Rebinds, TypeOK, queueVars, drainVars, storeVars
<1>4. ASSUME NEW c \in PushChannels, TimerFires(c) PROVE TypeOK'
  <2>1. DeliverQueued(c, TRUE, q, timers \ {c}, saving) /\ c \in Channels
    BY <1>4 DEF TimerFires, Channels
  <2>2. /\ DrainTypes(drains', delivering', deliverPending', timers')
        /\ SavingType(saving', q.nextId)
    <3>1. IsQueue(q) /\ SavingType(saving, q.nextId) /\ timers \ {c} \subseteq PushChannels
      BY DEF TypeOK
    <3> QED BY <2>1, <3>1, DeliverQueuedType
  <2> QED BY <1>4, <2>2 DEF TimerFires, TypeOK, queueVars, linkVars, boundVars
<1>5. ASSUME NEW d \in drains, RenderOk(d) PROVE TypeOK'
  <2>1. sent' \subseteq Nat /\ resent' \subseteq sent'
    BY <1>5 DEF RenderOk, TypeOK, Drain
  <2>2. CASE d.current \in DOMAIN q.entries
    <3>1. q' = MarkDelivered(q, d.current) /\ Continues(d, q', timers)
      BY <1>5, <2>2 DEF RenderOk
    <3>2. IsQueue(q') /\ q'.nextId = q.nextId
      BY <2>2, <3>1, MarkDeliveredIsQueue DEF TypeOK
    <3>3. /\ drains' \subseteq Drain /\ delivering' \subseteq Channels /\ timers' \subseteq PushChannels
          /\ SavingType(saving', q'.nextId)
      BY <1>0, <3>1, <3>2, ContinuesType DEF TypeOK
    <3> QED BY <1>5, <2>1, <3>2, <3>3 DEF RenderOk, TypeOK, linkVars, boundVars
  <2>3. CASE d.current \notin DOMAIN q.entries
    <3>1. Ended(d, q, timers) /\ UNCHANGED <<q, saving>>
      BY <1>5, <2>3 DEF RenderOk
    <3>2. drains' \subseteq Drain /\ delivering' \subseteq Channels /\ timers' \subseteq PushChannels
      BY <3>1, EndedType DEF TypeOK
    <3> QED BY <1>5, <2>1, <3>1, <3>2 DEF RenderOk, TypeOK, linkVars, boundVars
  <2> QED BY <2>2, <2>3
<1>6. ASSUME NEW d \in drains, RenderFails(d) PROVE TypeOK'
  <2> DEFINE i == d.current
             c == d.channel
             x == MarkFailed(q, i)
  <2>1. c \in Channels
    BY DEF TypeOK, Drain
  <2>2. CASE i \notin DOMAIN q.entries
    <3>1. Ended(d, q, timers) /\ UNCHANGED <<q, saving, deliverPending>>
      BY <1>6, <2>2 DEF RenderFails
    <3>2. drains' \subseteq Drain /\ delivering' \subseteq Channels /\ timers' \subseteq PushChannels
      BY <3>1, EndedType DEF TypeOK
    <3> QED BY <1>6, <3>1, <3>2 DEF RenderFails, TypeOK, linkVars, boundVars
  <2>3. CASE i \in DOMAIN q.entries /\ ~Notifies(i, x)
    <3>1. q' = x /\ Continues(d, q', timers) /\ UNCHANGED deliverPending
      BY <1>6, <2>3 DEF RenderFails
    <3>2. IsQueue(q') /\ q'.nextId = q.nextId
      BY <2>3, <3>1, MarkFailedIsQueue DEF TypeOK
    <3>3. /\ drains' \subseteq Drain /\ delivering' \subseteq Channels /\ timers' \subseteq PushChannels
          /\ SavingType(saving', q'.nextId)
      BY <1>0, <3>1, <3>2, ContinuesType DEF TypeOK
    <3> QED BY <1>6, <3>1, <3>2, <3>3 DEF RenderFails, TypeOK, linkVars, boundVars
  <2>4. CASE i \in DOMAIN q.entries /\ Notifies(i, x)
    <3>1. /\ q' = Enqueue(x, NoticeKey(i), c, TRUE)
          /\ Continues(d, q', Scheduled(timers, c, q'))
          /\ deliverPending' = IF c \in PushChannels \cap bound THEN deliverPending \cup {c} ELSE deliverPending
      BY <1>6, <2>4 DEF RenderFails
    <3>2. IsQueue(q') /\ q'.nextId >= q.nextId
      BY <2>1, <2>4, <3>1, NoticeIsQueue DEF TypeOK, Evolves
    <3>3. /\ drains' \subseteq Drain /\ delivering' \subseteq Channels /\ timers' \subseteq PushChannels
          /\ SavingType(saving', q'.nextId)
      <4>1. Scheduled(timers, c, q') \subseteq PushChannels
        BY ScheduledType DEF TypeOK
      <4> QED BY <3>1, <3>2, <4>1, ContinuesType DEF TypeOK
    <3>4. deliverPending' \subseteq Channels
      BY <2>1, <3>1 DEF TypeOK
    <3>5. IsEntries(disk, q'.nextId)
      BY <1>disk, <3>2 DEF IsQueue
    <3> QED BY <1>6, <3>2, <3>3, <3>4, <3>5 DEF RenderFails, TypeOK, linkVars, boundVars
  <2> QED BY <2>2, <2>3, <2>4
<1>7. ASSUME NEW d \in drains, PassEnds(d) PROVE TypeOK'
  <2>1. CASE d.channel \in deliverPending
    <3> DEFINE n == At(d, Due(q, d.channel))
    <3>1. n \in Drain
      BY DueAreIds, AtIsDrain DEF TypeOK
    <3>2. SavingType(SavedBy(n, q, saving), q.nextId)
      BY SavedByType DEF TypeOK
    <3> HIDE DEF n
    <3>3. /\ deliverPending' = deliverPending \ {d.channel}
          /\ drains' = (drains \ {d}) \cup {n}
          /\ saving' = SavedBy(n, q, saving)
          /\ UNCHANGED <<delivering, timers>>
      BY <1>7, <2>1 DEF PassEnds, n
    <3> QED BY <1>7, <3>1, <3>2, <3>3 DEF PassEnds, TypeOK, queueVars, linkVars, boundVars
  <2>2. CASE d.channel \notin deliverPending
    <3>1. Ended(d, q, timers) /\ UNCHANGED <<deliverPending, saving>>
      BY <1>7, <2>2 DEF PassEnds
    <3>2. drains' \subseteq Drain /\ delivering' \subseteq Channels /\ timers' \subseteq PushChannels
      BY <3>1, EndedType DEF TypeOK
    <3> QED BY <1>7, <3>1, <3>2 DEF PassEnds, TypeOK, queueVars, linkVars, boundVars
  <2> QED BY <2>1, <2>2
<1>8. ASSUME NEW i \in DOMAIN q.entries, BackoffElapses(i) PROVE TypeOK'
  <2>1. IsQueue(q') /\ q'.nextId = q.nextId
    <3>1. q' = [q EXCEPT !.entries[i].due = TRUE]
      BY <1>8 DEF BackoffElapses
    <3> QED BY Zenon, <3>1, DueAgainIsQueue DEF TypeOK
  <2> QED BY <1>8, <2>1 DEF BackoffElapses, TypeOK, drainVars, storeVars, linkVars, boundVars
<1>9. ASSUME NEW i \in DOMAIN q.entries, Ack(i) PROVE TypeOK'
  <2>1. IsQueue(q') /\ q'.nextId = q.nextId
    BY <1>9, MarkDeliveredIsQueue DEF Ack, TypeOK
  <2>2. SavingType(saving', q'.nextId)
    BY <1>9, <2>1, SnapshotIsEntries DEF Ack
  <2>3. acks' \in 0 .. MaxAcks
    BY <1>9, BoundAssumption DEF Ack, TypeOK
  <2> QED BY <1>9, <2>1, <2>2, <2>3 DEF Ack, TypeOK, drainVars, linkVars
<1>10. ASSUME WriteState PROVE TypeOK'
  <2>1. {[d EXCEPT !.stage = "settled"] : d \in Awaiting} \subseteq Drain
    BY DEF Awaiting, TypeOK, Drain
  <2> QED BY <1>10, <2>1 DEF WriteState, TypeOK, queueVars, linkVars, boundVars
<1>11. ASSUME WriteFails PROVE TypeOK'
  BY <1>11 DEF WriteFails, AwaitingToRearm, TypeOK, queueVars, linkVars, boundVars
<1>12. ASSUME Restart PROVE TypeOK'
  <2>1. IsQueue(Restored(disk)) /\ Restored(disk).entries = disk
    BY <1>0, RestoredIsQueue DEF TypeOK
  <2>2. IsEntries(disk, Restored(disk).nextId)
    BY <2>1 DEF IsQueue
  <2>3. restarts' \in 0 .. MaxRestarts
    BY <1>12, BoundAssumption DEF Restart, TypeOK
  <2> QED BY <1>12, <2>1, <2>2, <2>3 DEF Restart, TypeOK
<1>13. ASSUME UNCHANGED vars PROVE TypeOK'
  BY <1>13 DEF vars, TypeOK
<1> QED BY <1>1, <1>2, <1>3, <1>poll, <1>bind, <1>4, <1>5, <1>6, <1>7, <1>8, <1>9, <1>10, <1>11, <1>12, <1>13 DEF Next

(* The types hold in every reachable state, whatever the limits are.        *)
THEOREM TypeCorrect == Spec => []TypeOK
BY TypeInit, TypeStep, PTL DEF Spec

---------------------------------------------------------------------------
(* One drain per channel.                                                   *)

LEMMA OneDrainInit == Init => OneDrainPerChannel
BY DEF Init, OneDrainPerChannel

(* deliverQueued starts a drain only where _delivering says there is none.  *)
LEMMA DeliverQueuedOneDrain ==
  ASSUME TypeOK, OneDrainPerChannel, NEW c \in Channels, NEW rearm \in BOOLEAN,
         NEW x, IsQueue(x), NEW armed, NEW save, DeliverQueued(c, rearm, x, armed, save)
  PROVE  OneDrainPerChannel'
<1>1. CASE c \notin bound \/ c \in delivering
  BY <1>1 DEF DeliverQueued, OneDrainPerChannel
<1>2. CASE ~(c \notin bound \/ c \in delivering)
  <2> DEFINE d == StartedDrain(c, rearm, Due(x, c))
  <2>1. d.channel = c
    BY DueAreIds, StartedIsDrain
  <2> HIDE DEF d
  <2>2. delivering' = delivering \cup {c} /\ drains' = drains \cup {d}
    BY <1>2 DEF DeliverQueued, d
  <2>3. \A e \in drains : e.channel # c
    BY <1>2 DEF OneDrainPerChannel
  <2> QED BY <2>1, <2>2, <2>3 DEF OneDrainPerChannel
<1> QED BY <1>1, <1>2

LEMMA ReplacedOneDrain ==
  ASSUME OneDrainPerChannel, NEW d \in drains, NEW n, n.channel = d.channel,
         drains' = (drains \ {d}) \cup {n}, delivering' = delivering
  PROVE  OneDrainPerChannel'
BY DEF OneDrainPerChannel

LEMMA EndedOneDrain ==
  ASSUME OneDrainPerChannel, NEW d \in drains, NEW x, NEW armed, Ended(d, x, armed)
  PROVE  OneDrainPerChannel'
BY DEF OneDrainPerChannel, Ended

LEMMA ContinuesOneDrain ==
  ASSUME TypeOK, OneDrainPerChannel, NEW d \in drains, NEW x, NEW armed, Continues(d, x, armed)
  PROVE  OneDrainPerChannel'
<1> DEFINE n == At(d, d.todo)
<1>1. n.channel = d.channel
  BY AtIsDrain DEF TypeOK, Drain
<1> HIDE DEF n
<1>2. drains' = (drains \ {d}) \cup {n} /\ delivering' = delivering
  BY DEF Continues, n
<1> QED BY <1>1, <1>2, ReplacedOneDrain

LEMMA OneDrainStep == TypeOK /\ TypeOK' /\ OneDrainPerChannel /\ [Next]_vars => OneDrainPerChannel'
<1> SUFFICES ASSUME TypeOK, TypeOK', OneDrainPerChannel, [Next]_vars PROVE OneDrainPerChannel'
  OBVIOUS
<1>1. ASSUME NEW c \in Channels, NEW rearm \in BOOLEAN, NEW armed, NEW save,
             DeliverQueued(c, rearm, q', armed, save) \/ DeliverQueued(c, rearm, q, armed, save)
      PROVE  OneDrainPerChannel'
  <2>1. IsQueue(q) /\ IsQueue(q')
    BY DEF TypeOK
  <2> QED BY <1>1, <2>1, DeliverQueuedOneDrain
<1>2. ASSUME UNCHANGED <<drains, delivering>> PROVE OneDrainPerChannel'
  BY <1>2 DEF OneDrainPerChannel
<1>3. ASSUME NEW c \in Channels, NEW k \in KeysOf(c), HostReply(c, k) PROVE OneDrainPerChannel'
  BY <1>1, <1>2, <1>3 DEF HostReply, drainVars
<1>4. ASSUME NEW c \in Channels, NEW k \in InboundKeys, InboundReply(c, k) PROVE OneDrainPerChannel'
  BY <1>1, <1>2, <1>4 DEF InboundReply, drainVars
<1>5. ASSUME NEW c \in PollChannels, PollTick(c) \/ PollFails(c) \/ PollDrains(c) PROVE OneDrainPerChannel'
  BY <1>1, <1>2, <1>5 DEF PollTick, PollFails, PollDrains, drainVars, Channels
<1>bind. ASSUME NEW c \in Channels, Rebinds(c) PROVE OneDrainPerChannel'
  BY <1>2, <1>bind DEF Rebinds, drainVars
<1>6. ASSUME NEW c \in PushChannels, TimerFires(c) PROVE OneDrainPerChannel'
  BY <1>1, <1>6 DEF TimerFires, Channels
<1>7. ASSUME NEW d \in drains, RenderOk(d) PROVE OneDrainPerChannel'
  BY <1>7, ContinuesOneDrain, EndedOneDrain DEF RenderOk
<1>8. ASSUME NEW d \in drains, RenderFails(d) PROVE OneDrainPerChannel'
  BY <1>8, ContinuesOneDrain, EndedOneDrain DEF RenderFails
<1>9. ASSUME NEW d \in drains, PassEnds(d) PROVE OneDrainPerChannel'
  <2>1. CASE d.channel \in deliverPending
    <3> DEFINE n == At(d, Due(q, d.channel))
    <3>1. n.channel = d.channel
      BY DueAreIds, AtIsDrain DEF TypeOK
    <3> HIDE DEF n
    <3>2. drains' = (drains \ {d}) \cup {n} /\ delivering' = delivering
      BY <1>9, <2>1 DEF PassEnds, n
    <3> QED BY <3>1, <3>2, ReplacedOneDrain
  <2>2. CASE d.channel \notin deliverPending
    BY <1>9, <2>2, EndedOneDrain DEF PassEnds
  <2> QED BY <2>1, <2>2
<1>10. ASSUME NEW i \in DOMAIN q.entries, BackoffElapses(i) \/ Ack(i) PROVE OneDrainPerChannel'
  BY <1>2, <1>10 DEF BackoffElapses, Ack, drainVars
<1>11. ASSUME WriteState PROVE OneDrainPerChannel'
  <2> DEFINE f(d) == [d EXCEPT !.stage = "settled"]
  <2>1. \A d \in drains : f(d).channel = d.channel
    BY DEF TypeOK, Drain
  <2> HIDE DEF f
  <2>2. drains' = (drains \ Awaiting) \cup {f(d) : d \in Awaiting} /\ delivering' = delivering
    BY <1>11 DEF WriteState, f
  <2>3. Awaiting \subseteq drains
    BY DEF Awaiting
  <2> QED BY <2>1, <2>2, <2>3 DEF OneDrainPerChannel
<1>12. ASSUME WriteFails PROVE OneDrainPerChannel'
  <2>1. drains' = drains \ Awaiting /\ delivering' = delivering \ {d.channel : d \in Awaiting}
    BY <1>12 DEF WriteFails
  <2>2. Awaiting \subseteq drains
    BY DEF Awaiting
  <2> QED BY <2>1, <2>2 DEF OneDrainPerChannel
<1>13. ASSUME Restart PROVE OneDrainPerChannel'
  BY <1>13 DEF Restart, OneDrainPerChannel
<1>14. ASSUME UNCHANGED vars PROVE OneDrainPerChannel'
  BY <1>2, <1>14 DEF vars
<1> QED BY <1>3, <1>4, <1>5, <1>bind, <1>6, <1>7, <1>8, <1>9, <1>10, <1>11, <1>12, <1>13, <1>14 DEF Next

(* A channel never has two drains under way, and _delivering says exactly   *)
(* when it has one, however events, timers, polls and answers interleave.   *)
THEOREM OneDrain == Spec => []OneDrainPerChannel
BY TypeCorrect, OneDrainInit, OneDrainStep, PTL DEF Spec

---------------------------------------------------------------------------
(* No double send.  NeverDoubleSent is not inductive: a reply could be sent *)
(* again if it were still pending, or still in the snapshot of a drain,     *)
(* after it was sent.  The invariant says that what is sent is neither.     *)

Unsent(x, s, d) ==
  /\ \A i \in Left(d) : /\ i < x.nextId
                        /\ i \notin s
                        /\ i \in DOMAIN x.entries => x.entries[i].channel = d.channel
  /\ d.current \notin d.todo
  /\ d.stage # "render" => d.todo = {}

Fresh(x, s, ds) ==
  /\ \A i \in s : i < x.nextId
  /\ \A i \in DOMAIN x.entries : IsPending(x.entries[i]) => i \notin s
  /\ \A d \in ds : Unsent(x, s, d)
  /\ \A d, e \in ds : d # e => Left(d) \cap Left(e) = {}

SendInv == TypeOK /\ OneDrainPerChannel /\ NeverDoubleSent /\ Fresh(q, sent, drains)

LEMMA UnsentEvolves ==
  ASSUME NEW x, NEW y, IsQueue(x), IsQueue(y), Evolves(x, y), NEW s, NEW d \in Drain, Unsent(x, s, d)
  PROVE  Unsent(y, s, d)
<1>1. Left(d) \subseteq Nat
  BY DEF Left, Drain
<1>2. x.nextId \in Nat /\ y.nextId \in Nat /\ y.nextId >= x.nextId
  BY DEF IsQueue, Evolves
<1>3. ASSUME NEW i \in Left(d)
      PROVE  /\ i < y.nextId /\ i \notin s
             /\ i \in DOMAIN y.entries => y.entries[i].channel = d.channel
  <2>1. i \in Nat /\ i < x.nextId /\ i \notin s
        /\ (i \in DOMAIN x.entries => x.entries[i].channel = d.channel)
    BY <1>1, <1>3 DEF Unsent
  <2>2. i < y.nextId /\ (i \in DOMAIN y.entries => i \in DOMAIN x.entries)
    BY <1>2, <2>1 DEF Evolves
  <2> QED BY <2>1, <2>2 DEF Evolves
<1> QED BY <1>3 DEF Unsent

(* Nothing the queue does to its entries brings a sent reply back.          *)
LEMMA FreshEvolves ==
  ASSUME NEW x, NEW y, IsQueue(x), IsQueue(y), Evolves(x, y),
         NEW s, s \subseteq Nat, NEW ds, ds \subseteq Drain, Fresh(x, s, ds)
  PROVE  Fresh(y, s, ds)
<1>1. x.nextId \in Nat /\ y.nextId \in Nat /\ y.nextId >= x.nextId
  BY DEF IsQueue, Evolves
<1>2. \A i \in s : i < y.nextId
  BY <1>1 DEF Fresh
<1>3. ASSUME NEW i \in DOMAIN y.entries, IsPending(y.entries[i]), i \in s PROVE FALSE
  <2>1. i \in Nat /\ i < x.nextId
    BY <1>3 DEF Fresh
  <2>2. i \in DOMAIN x.entries
    BY <1>1, <1>3, <2>1 DEF Evolves
  <2> QED BY <1>3, <2>2 DEF Evolves, Fresh
<1>4. \A d \in ds : Unsent(y, s, d)
  BY UnsentEvolves DEF Fresh
<1> QED BY <1>2, <1>3, <1>4 DEF Fresh

LEMMA FreshLess ==
  ASSUME NEW x, NEW s, NEW ds, Fresh(x, s, ds), NEW es, es \subseteq ds
  PROVE  Fresh(x, s, es)
BY DEF Fresh

LEMMA FreshMore ==
  ASSUME NEW x, NEW s, NEW ds, Fresh(x, s, ds), NEW n, Unsent(x, s, n),
         \A e \in ds : Left(e) \cap Left(n) = {}
  PROVE  Fresh(x, s, ds \cup {n})
BY DEF Fresh

(* A drain that starts, or starts another pass, takes what is pending on    *)
(* its channel, which no drain of another channel holds.                    *)
LEMMA FreshPass ==
  ASSUME NEW x, IsQueue(x), NEW s, NEW ds, ds \subseteq Drain, Fresh(x, s, ds), NEW c,
         \A e \in ds : e.channel # c,
         NEW n, n.channel = c, Left(n) = Due(x, c), n.current \notin n.todo,
         n.stage # "render" => n.todo = {}
  PROVE  Fresh(x, s, ds \cup {n})
<1>1. \A i \in Left(n) : /\ i \in DOMAIN x.entries /\ IsPending(x.entries[i])
                         /\ i < x.nextId /\ x.entries[i].channel = c
  BY DueAreIds
<1>2. Unsent(x, s, n)
  BY <1>1 DEF Unsent, Fresh
<1>3. \A e \in ds : Left(e) \cap Left(n) = {}
  <2>1. SUFFICES ASSUME NEW e \in ds, NEW i \in Left(e), i \in Left(n) PROVE FALSE
    OBVIOUS
  <2>2. x.entries[i].channel = e.channel
    BY <1>1, <2>1 DEF Fresh, Unsent
  <2> QED BY <1>1, <2>1, <2>2
<1> QED BY <1>2, <1>3, FreshMore

(* A drain that goes on leaves the reply it has just rendered behind, so it *)
(* may be added to what is sent.                                            *)
LEMMA FreshRendered ==
  ASSUME NEW x, IsQueue(x), NEW s, s \subseteq Nat, NEW ds, ds \subseteq Drain, Fresh(x, s, ds),
         NEW d \in ds, d.stage = "render",
         NEW y, IsQueue(y), Evolves(x, y),
         NEW t, t = s \/ /\ t = s \cup {d.current}
                         /\ d.current \in DOMAIN y.entries => ~IsPending(y.entries[d.current])
  PROVE  Fresh(y, t, (ds \ {d}) \cup {At(d, d.todo)}) /\ Fresh(y, t, ds \ {d})
<1> DEFINE i == d.current
           n == At(d, d.todo)
<1>1. /\ i \in Left(d) /\ d.todo \subseteq Left(d) /\ d.todo \subseteq Nat \ {0} /\ i \in Nat
      /\ i \notin d.todo
  BY DEF Left, Drain, Fresh, Unsent
<1>2. n.channel = d.channel /\ Left(n) = d.todo /\ n.current \notin n.todo
      /\ (n.stage # "render" => n.todo = {}) /\ n \in Drain
  BY <1>1, AtIsDrain
<1> HIDE DEF n
<1>3. Fresh(y, s, ds)
  BY FreshEvolves
<1>4. y.nextId \in Nat
  BY DEF IsQueue
<1>5. i < y.nextId
  <2>1. Unsent(y, s, d)
    BY <1>3 DEF Fresh
  <2> QED BY <1>1, <2>1 DEF Unsent
<1>6. \A e \in ds \ {d} : i \notin Left(e)
  BY <1>1 DEF Fresh
<1>7. Fresh(y, t, ds \ {d})
  <2>1. \A j \in t : j < y.nextId
    BY <1>3, <1>5 DEF Fresh
  <2>2. \A j \in DOMAIN y.entries : IsPending(y.entries[j]) => j \notin t
    BY <1>3 DEF Fresh
  <2>3. \A e \in ds \ {d} : Unsent(y, t, e)
    BY <1>3, <1>6 DEF Fresh, Unsent
  <2> QED BY <1>3, <2>1, <2>2, <2>3 DEF Fresh
<1>8. Unsent(y, t, n)
  <2>1. Unsent(y, s, d)
    BY <1>3 DEF Fresh
  <2> QED BY <1>1, <1>2, <2>1 DEF Unsent
<1>9. \A e \in ds \ {d} : Left(e) \cap Left(n) = {}
  BY <1>1, <1>2 DEF Fresh
<1> QED BY <1>7, <1>8, <1>9, FreshMore DEF n

LEMMA SendInit == Init => SendInv
<1> SUFFICES ASSUME Init PROVE SendInv
  OBVIOUS
<1>1. Fresh(q, sent, drains)
  BY DEF Init, Fresh, EmptyQueue
<1> QED BY <1>1, TypeInit, OneDrainInit DEF SendInv, NeverDoubleSent, Init

LEMMA DeliverQueuedFresh ==
  ASSUME SendInv, NEW c \in Channels, NEW rearm \in BOOLEAN, NEW x, IsQueue(x), Evolves(q, x),
         NEW armed, NEW save, DeliverQueued(c, rearm, x, armed, save)
  PROVE  Fresh(x, sent, drains')
<1>1. Fresh(x, sent, drains)
  BY FreshEvolves DEF SendInv, TypeOK
<1>2. CASE c \notin bound \/ c \in delivering
  BY <1>1, <1>2 DEF DeliverQueued
<1>3. CASE ~(c \notin bound \/ c \in delivering)
  <2> DEFINE d == StartedDrain(c, rearm, Due(x, c))
  <2>1. /\ d.channel = c /\ Left(d) = Due(x, c) /\ d.current \notin d.todo
        /\ d.stage # "render" => d.todo = {}
    BY DueAreIds, StartedIsDrain
  <2> HIDE DEF d
  <2>2. drains' = drains \cup {d}
    BY <1>3 DEF DeliverQueued, d
  <2>3. \A e \in drains : e.channel # c
    BY <1>3 DEF SendInv, OneDrainPerChannel
  <2>4. drains \subseteq Drain
    BY DEF SendInv, TypeOK
  <2> QED BY <1>1, <2>1, <2>2, <2>3, <2>4, FreshPass
<1> QED BY <1>2, <1>3

LEMMA SendStep == SendInv /\ [Next]_vars => SendInv'
<1> SUFFICES ASSUME SendInv, [Next]_vars PROVE SendInv'
  OBVIOUS
<1>0. /\ TypeOK /\ TypeOK' /\ OneDrainPerChannel' /\ IsQueue(q) /\ IsQueue(q') /\ Evolves(q, q)
      /\ sent \subseteq Nat /\ drains \subseteq Drain /\ drains' \subseteq Drain
      /\ Fresh(q, sent, drains) /\ resent = {}
  BY TypeStep, OneDrainStep, EvolvesReflexive DEF SendInv, TypeOK, NeverDoubleSent
<1> SUFFICES resent' = {} /\ Fresh(q', sent', drains')
  BY <1>0 DEF SendInv, NeverDoubleSent
<1> DEFINE Goal == resent' = {} /\ Fresh(q', sent', drains')
<1> HIDE DEF Goal
<1>1. ASSUME NEW c \in Channels, NEW k \in HostKeys \cup PollKeys \cup InboundKeys,
             q' = Enqueue(q, k, c, FALSE)
      PROVE  Evolves(q, q')
  <2>1. IsKey(q.nextId, k, FALSE)
    BY DEF IsKey
  <2> QED BY <1>0, <1>1, <2>1, EnqueueIsQueue
<1>2. ASSUME NEW c \in Channels, NEW k \in KeysOf(c), HostReply(c, k) PROVE Goal
  <2>1. Evolves(q, q')
    BY <1>1, <1>2 DEF HostReply, KeysOf
  <2>2. Fresh(q', sent, drains')
    <3>1. CASE c \in PushChannels
      <4>1. DeliverQueued(c, TRUE, q', timers, PersistSnapshot(q'))
        BY <1>2, <3>1 DEF HostReply
      <4> QED BY <1>0, <2>1, <4>1, DeliverQueuedFresh
    <3>2. CASE c \notin PushChannels
      <4>1. drains' = drains
        BY <1>2, <3>2 DEF HostReply, drainVars
      <4> QED BY <1>0, <2>1, <4>1, FreshEvolves
    <3> QED BY <3>1, <3>2
  <2> QED BY <1>0, <1>2, <2>2 DEF HostReply, Goal
<1>3. ASSUME NEW c \in Channels, NEW k \in InboundKeys, InboundReply(c, k) PROVE Goal
  <2>1. /\ q' = Enqueue(q, k, c, FALSE)
        /\ DeliverQueued(c, FALSE, q', timers, saving) \/ drains' = drains
    BY <1>3 DEF InboundReply, drainVars
  <2>2. Evolves(q, q')
    BY <1>1, <2>1
  <2>3. Fresh(q', sent, drains')
    BY <1>0, <2>1, <2>2, DeliverQueuedFresh, FreshEvolves
  <2> QED BY <1>0, <1>3, <2>3 DEF InboundReply, Goal
<1>4. ASSUME NEW c \in PollChannels, PollDrains(c) PROVE Goal
  <2>1. c \in Channels /\ DeliverQueued(c, FALSE, q, timers, saving)
    BY <1>4 DEF PollDrains, Channels
  <2>2. Fresh(q, sent, drains')
    BY <1>0, <2>1, DeliverQueuedFresh
  <2> QED BY <1>0, <1>4, <2>2 DEF PollDrains, queueVars, Goal
<1>poll. ASSUME NEW c, PollTick(c) \/ PollFails(c) \/ Rebinds(c) PROVE Goal
  BY <1>0, <1>poll DEF PollTick, PollFails, Rebinds, queueVars, drainVars, Goal
<1>5. ASSUME NEW c \in PushChannels, TimerFires(c) PROVE Goal
  <2>1. c \in Channels /\ DeliverQueued(c, TRUE, q, timers \ {c}, saving)
    BY <1>5 DEF TimerFires, Channels
  <2>2. Fresh(q, sent, drains')
    BY <1>0, <2>1, DeliverQueuedFresh
  <2> QED BY <1>0, <1>5, <2>2 DEF TimerFires, queueVars, Goal
<1>6. ASSUME NEW d \in drains, RenderOk(d) PROVE Goal
  <2> DEFINE i == d.current
  <2>1. d.stage = "render" /\ sent' = sent \cup {i} /\ resent' = resent \cup ({i} \cap sent)
    BY <1>6 DEF RenderOk
  <2>2. resent' = {}
    <3>1. i \in Left(d) /\ Unsent(q, sent, d)
      BY <1>0, <2>1 DEF Left, Fresh
    <3>2. i \notin sent
      BY <3>1 DEF Unsent
    <3> QED BY <1>0, <2>1, <3>2
  <2>3. CASE i \in DOMAIN q.entries
    <3>1. q' = MarkDelivered(q, i) /\ drains' = (drains \ {d}) \cup {At(d, d.todo)}
      BY <1>6, <2>3 DEF RenderOk, Continues
    <3>2. /\ Evolves(q, q')
          /\ i \in DOMAIN q'.entries => ~IsPending(q'.entries[i])
      BY <1>0, <2>3, <3>1, MarkDeliveredIsQueue
    <3>3. Fresh(q', sent', drains')
      BY <1>0, <2>1, <3>1, <3>2, FreshRendered
    <3> QED BY <2>2, <3>3 DEF Goal
  <2>4. CASE i \notin DOMAIN q.entries
    <3>1. q' = q /\ drains' = drains \ {d}
      BY <1>6, <2>4 DEF RenderOk, Ended
    <3>2. Fresh(q', sent', drains')
      BY <1>0, <2>1, <2>4, <3>1, FreshRendered
    <3> QED BY <2>2, <3>2 DEF Goal
  <2> QED BY <2>3, <2>4
<1>7. ASSUME NEW d \in drains, RenderFails(d) PROVE Goal
  <2> DEFINE i == d.current
             x == MarkFailed(q, i)
  <2>1. d.stage = "render" /\ sent' = sent /\ resent' = resent /\ d.channel \in Channels
    BY <1>0, <1>7 DEF RenderFails, Drain
  <2>2. CASE i \notin DOMAIN q.entries
    <3>1. q' = q /\ drains' = drains \ {d}
      BY <1>7, <2>2 DEF RenderFails, Ended
    <3> QED BY <1>0, <2>1, <3>1, FreshLess DEF Goal
  <2>3. CASE i \in DOMAIN q.entries
    <3>1. drains' = (drains \ {d}) \cup {At(d, d.todo)}
      BY <1>7, <2>3 DEF RenderFails, Continues
    <3>2. Evolves(q, q')
      <4>1. CASE q' = x
        BY <1>0, <2>3, <4>1, MarkFailedIsQueue
      <4>2. CASE q' = Enqueue(x, NoticeKey(i), d.channel, TRUE)
        BY <1>0, <2>1, <2>3, <4>2, NoticeIsQueue
      <4> QED BY <1>7, <2>3, <4>1, <4>2 DEF RenderFails
    <3>3. Fresh(q', sent, drains')
      BY <1>0, <2>1, <3>1, <3>2, FreshRendered
    <3> QED BY <1>0, <2>1, <3>3 DEF Goal
  <2> QED BY <2>2, <2>3
<1>8. ASSUME NEW d \in drains, PassEnds(d) PROVE Goal
  <2>1. q' = q /\ sent' = sent /\ resent' = resent
    BY <1>8 DEF PassEnds, queueVars
  <2>2. CASE d.channel \in deliverPending
    <3> DEFINE n == At(d, Due(q, d.channel))
    <3>1. /\ n.channel = d.channel /\ Left(n) = Due(q, d.channel) /\ n.current \notin n.todo
          /\ n.stage # "render" => n.todo = {}
      BY <1>0, DueAreIds, AtIsDrain
    <3> HIDE DEF n
    <3>2. drains' = (drains \ {d}) \cup {n}
      BY <1>8, <2>2 DEF PassEnds, n
    <3>3. \A e \in drains \ {d} : e.channel # d.channel
      BY DEF SendInv, OneDrainPerChannel
    <3>4. Fresh(q, sent, drains \ {d}) /\ drains \ {d} \subseteq Drain
      BY <1>0, FreshLess
    <3>5. Fresh(q, sent, drains')
      BY <1>0, <3>1, <3>2, <3>3, <3>4, FreshPass
    <3> QED BY <1>0, <2>1, <3>5 DEF Goal
  <2>3. CASE d.channel \notin deliverPending
    <3>1. drains' = drains \ {d}
      BY <1>8, <2>3 DEF PassEnds, Ended
    <3> QED BY <1>0, <2>1, <3>1, FreshLess DEF Goal
  <2> QED BY <2>2, <2>3
<1>9. ASSUME NEW i \in DOMAIN q.entries, BackoffElapses(i) PROVE Goal
  <2>1. q' = [q EXCEPT !.entries[i].due = TRUE] /\ UNCHANGED <<sent, resent, drains>>
    BY <1>9 DEF BackoffElapses, drainVars
  <2>2. Evolves(q, q')
    BY Zenon, <1>0, <2>1, DueAgainIsQueue
  <2> QED BY <1>0, <2>1, <2>2, FreshEvolves DEF Goal
<1>10. ASSUME NEW i \in DOMAIN q.entries, Ack(i) PROVE Goal
  <2>1. q' = MarkDelivered(q, i) /\ UNCHANGED <<sent, resent, drains>>
    BY <1>10 DEF Ack, drainVars
  <2>2. Evolves(q, q')
    BY <1>0, <2>1, MarkDeliveredIsQueue
  <2> QED BY <1>0, <2>1, <2>2, FreshEvolves DEF Goal
<1>11. ASSUME WriteState PROVE Goal
  <2> DEFINE f(d) == [d EXCEPT !.stage = "settled"]
  <2>1. \A d \in Awaiting : Left(f(d)) = {} /\ f(d).todo = {}
    <3>1. TAKE d \in Awaiting
    <3>2. d \in Drain /\ d.stage = "persist" /\ d.todo = {}
      BY <1>0, <3>1 DEF Awaiting, Fresh, Unsent
    <3>3. f(d).todo = {} /\ f(d).stage = "settled"
      BY <3>2 DEF Drain
    <3> HIDE DEF f
    <3> QED BY <3>3 DEF Left
  <2> HIDE DEF f
  <2>2. /\ drains' = (drains \ Awaiting) \cup {f(d) : d \in Awaiting}
        /\ UNCHANGED <<q, sent, resent>>
    BY <1>11 DEF WriteState, queueVars, f
  <2>3. \A d \in drains' : \/ d \in drains /\ Unsent(q, sent, d)
                           \/ Left(d) = {} /\ Unsent(q, sent, d)
    BY <1>0, <2>1, <2>2 DEF Fresh, Unsent
  <2>4. Fresh(q, sent, drains')
    BY <1>0, <2>3 DEF Fresh
  <2> QED BY <1>0, <2>2, <2>4 DEF Goal
<1>12. ASSUME WriteFails PROVE Goal
  <2>1. drains' \subseteq drains /\ UNCHANGED <<q, sent, resent>>
    BY <1>12 DEF WriteFails, queueVars
  <2> QED BY <1>0, <2>1, FreshLess DEF Goal
<1>13. ASSUME Restart PROVE Goal
  BY <1>13 DEF Restart, Fresh, Goal
<1>14. ASSUME UNCHANGED vars PROVE Goal
  BY <1>0, <1>14 DEF vars, Goal
<1>15. Goal
  BY <1>2, <1>3, <1>4, <1>poll, <1>5, <1>6, <1>7, <1>8, <1>9, <1>10, <1>11, <1>12, <1>13, <1>14 DEF Next
<1> QED BY <1>15 DEF Goal

(* Within one life of the daemon no entry is accepted by its channel twice  *)
(* ("a reply is never double-sent", base/runtime.js:6).                     *)
THEOREM NoDoubleSend == Spec => []NeverDoubleSent
<1>1. SendInv => NeverDoubleSent
  BY DEF SendInv
<1> QED BY <1>1, SendInit, SendStep, PTL DEF Spec

---------------------------------------------------------------------------
(* What leaves the queue, and what does not.  The array's order decides it: *)
(* no entry stands further back than the array is long, so the one just     *)
(* pushed is the last.                                                      *)

Ranked(es) == \A i \in DOMAIN es : es[i].at <= Cardinality(DOMAIN es)

(* The same entry, at whatever position.                                    *)
Like(e, f) == e.status = f.status /\ e.notice = f.notice

LEMMA LikeAtPosition ==
  ASSUME NEW n, NEW e, IsEntry(n, e), NEW a \in Nat
  PROVE  LET f == [e EXCEPT !.at = a] IN Like(f, e) /\ f.at = a
<1> DEFINE f == [e EXCEPT !.at = a]
<1>1. e = [key |-> e.key, channel |-> e.channel, notice |-> e.notice, status |-> e.status,
           acked |-> e.acked, attempts |-> e.attempts, due |-> e.due, at |-> e.at]
  BY DEF IsEntry
<1>2. f = [key |-> e.key, channel |-> e.channel, notice |-> e.notice, status |-> e.status,
           acked |-> e.acked, attempts |-> e.attempts, due |-> e.due, at |-> a]
  BY <1>1
<1> HIDE DEF f
<1>3. Like(f, e) /\ f.at = a
  BY <1>2 DEF Like
<1> QED BY <1>3 DEF f

LEMMA RestrictedKeeps ==
  ASSUME NEW x, IsQueue(x), NEW S, S \subseteq DOMAIN x.entries
  PROVE  /\ \A i \in S : Like(Restricted(x, S).entries[i], x.entries[i])
         /\ Ranked(Restricted(x, S).entries)
<1> DEFINE y == Restricted(x, S)
           pos(i) == Cardinality(S \ After(x, S, i))
           es == [i \in S |-> [x.entries[i] EXCEPT !.at = pos(i)]]
<1>1. y.entries = es
  <2>1. y = [x EXCEPT !.entries = es]
    BY Zenon DEF Restricted
  <2>2. x = [entries |-> x.entries, nextId |-> x.nextId]
    BY Zenon DEF IsQueue
  <2> HIDE DEF es, y
  <2> QED BY <2>1, <2>2
<1>2. \A i \in S : pos(i) \in Nat /\ pos(i) <= Cardinality(S)
  <2>1. TAKE i \in S
  <2>2. IsFiniteSet(S) /\ pos(i) \in Nat
    BY CountsAreNat
  <2>3. S \ After(x, S, i) \subseteq S
    OBVIOUS
  <2> QED BY <2>2, <2>3, FS_Subset
<1> HIDE DEF pos
<1>3. DOMAIN es = S /\ \A i \in S : es[i] = [x.entries[i] EXCEPT !.at = pos(i)]
  OBVIOUS
<1> HIDE DEF es
<1>4. \A i \in S : Like(es[i], x.entries[i]) /\ es[i].at = pos(i)
  <2>1. TAKE i \in S
  <2>2. IsEntry(i, x.entries[i]) /\ pos(i) \in Nat
    BY <1>2 DEF IsQueue, IsEntries
  <2>3. PICK a \in Nat : a = pos(i)
    BY <2>2
  <2>4. es[i] = [x.entries[i] EXCEPT !.at = a]
    BY <1>3, <2>3
  <2> QED BY <2>2, <2>3, <2>4, LikeAtPosition
<1> QED BY <1>1, <1>2, <1>3, <1>4 DEF Ranked

(* prune keeps every active entry, and every entry it keeps as it was.      *)
LEMMA PruneKeeps ==
  ASSUME NEW x, IsQueue(x), Ranked(x.entries)
  PROVE  /\ \A i \in DOMAIN Prune(x).entries : Like(Prune(x).entries[i], x.entries[i])
         /\ Active(x) \subseteq DOMAIN Prune(x).entries
         /\ Ranked(Prune(x).entries)
<1> DEFINE kept == Active(x) \cup LastTerminal(x, MaxTerminal)
           Before(i) == {j \in kept : IF i \in Terminal(x) /\ j \notin Terminal(x) THEN TRUE
                                      ELSE /\ i \in Terminal(x) <=> j \in Terminal(x)
                                           /\ x.entries[j].at < x.entries[i].at}
           pos(i) == Cardinality(Before(i)) + 1
           es == [i \in kept |-> [x.entries[i] EXCEPT !.at = pos(i)]]
           y  == Prune(x)
<1>0. kept \subseteq DOMAIN x.entries /\ Active(x) \subseteq kept
  BY DEF Active, LastTerminal, Terminal
<1>1. CASE Cardinality(Terminal(x)) <= MaxTerminal
  <2>1. y = x
    BY <1>1 DEF Prune
  <2>2. Active(x) \subseteq DOMAIN x.entries
    BY DEF Active
  <2> QED BY <2>1, <2>2 DEF Like
<1>2. CASE ~(Cardinality(Terminal(x)) <= MaxTerminal)
  <2>1. y.entries = es
    <3>1. y = [x EXCEPT !.entries = es]
      BY <1>2, Zenon DEF Prune
    <3>2. x = [entries |-> x.entries, nextId |-> x.nextId]
      BY Zenon DEF IsQueue
    <3> HIDE DEF es, y
    <3> QED BY <3>1, <3>2
  <2>2. \A i \in kept : pos(i) \in Nat /\ pos(i) <= Cardinality(kept)
    <3>1. TAKE i \in kept
    <3>2. i \in DOMAIN x.entries /\ x.entries[i].at \in Nat
      BY <1>0 DEF IsQueue, IsEntries, IsEntry
    <3>3. Before(i) \subseteq kept \ {i}
      BY <3>2
    <3> HIDE DEF Before, kept
    <3>4. IsFiniteSet(kept)
      BY <1>0, CountsAreNat
    <3>5. /\ IsFiniteSet(kept \ {i}) /\ Cardinality(kept) \in Nat
          /\ Cardinality(kept \ {i}) = Cardinality(kept) - 1
      BY <3>1, <3>4, FS_RemoveElement, FS_CardinalityType
    <3>6. Cardinality(Before(i)) \in Nat /\ Cardinality(Before(i)) <= Cardinality(kept \ {i})
      BY <3>3, <3>5, FS_Subset, FS_CardinalityType
    <3> QED BY <3>5, <3>6
  <2> HIDE DEF pos, kept
  <2>3. DOMAIN es = kept /\ \A i \in kept : es[i] = [x.entries[i] EXCEPT !.at = pos(i)]
    OBVIOUS
  <2> HIDE DEF es
  <2>4. \A i \in kept : Like(es[i], x.entries[i]) /\ es[i].at = pos(i)
    <3>1. TAKE i \in kept
    <3>2. IsEntry(i, x.entries[i]) /\ pos(i) \in Nat
      BY <1>0, <2>2 DEF IsQueue, IsEntries
    <3>3. PICK a \in Nat : a = pos(i)
      BY <3>2
    <3>4. es[i] = [x.entries[i] EXCEPT !.at = a]
      BY <2>3, <3>3
    <3> QED BY <3>2, <3>3, <3>4, LikeAtPosition
  <2> QED BY <1>0, <2>1, <2>2, <2>3, <2>4 DEF Ranked
<1> QED BY <1>1, <1>2

(* Changing one entry without moving it.                                    *)
LEMMA UpdatedKeeps ==
  ASSUME NEW x, IsQueue(x), Ranked(x.entries), NEW k \in DOMAIN x.entries,
         NEW e, e.at = x.entries[k].at
  PROVE  LET y == [x EXCEPT !.entries[k] = e]
         IN  /\ DOMAIN y.entries = DOMAIN x.entries /\ y.nextId = x.nextId
             /\ y.entries[k] = e
             /\ \A i \in DOMAIN x.entries \ {k} : y.entries[i] = x.entries[i]
             /\ Ranked(y.entries)
<1> DEFINE y == [x EXCEPT !.entries[k] = e]
<1>1. x = [entries |-> x.entries, nextId |-> x.nextId]
  BY Zenon DEF IsQueue
<1>2. y.nextId = x.nextId /\ y.entries = [x.entries EXCEPT ![k] = e]
  BY <1>1
<1> HIDE DEF y
<1>3. x.entries = [i \in DOMAIN x.entries |-> x.entries[i]]
  BY DEF IsQueue, IsEntries
<1>4. /\ DOMAIN y.entries = DOMAIN x.entries /\ y.entries[k] = e
      /\ \A i \in DOMAIN x.entries \ {k} : y.entries[i] = x.entries[i]
  BY <1>2, <1>3
<1>5. Ranked(y.entries)
  BY <1>4 DEF Ranked
<1> QED BY <1>2, <1>4, <1>5 DEF y

LEMMA DeliveredKeeps ==
  ASSUME NEW x, IsQueue(x), Ranked(x.entries), NEW k \in DOMAIN x.entries
  PROVE  LET y == MarkDelivered(x, k)
         IN  /\ DOMAIN y.entries \subseteq DOMAIN x.entries /\ y.nextId = x.nextId
             /\ Active(x) \ {k} \subseteq DOMAIN y.entries
             /\ \A i \in DOMAIN y.entries \ {k} : Like(y.entries[i], x.entries[i])
             /\ k \in DOMAIN y.entries => y.entries[k].status = "delivered"
             /\ Ranked(y.entries)
<1> DEFINE e == [x.entries[k] EXCEPT !.status = "delivered", !.acked = TRUE]
           z == [x EXCEPT !.entries[k] = e]
           y == MarkDelivered(x, k)
<1>1. y = Prune(z)
  <2>1. [x EXCEPT !.entries[k] = [@ EXCEPT !.status = "delivered", !.acked = TRUE]] = z
    OBVIOUS
  <2> QED BY <2>1 DEF MarkDelivered
<1>2. IsEntry(k, x.entries[k])
  BY DEF IsQueue, IsEntries
<1>3. /\ IsEntry(k, e) /\ e.channel = x.entries[k].channel /\ ~IsPending(e)
      /\ e.status = "delivered" /\ e.at = x.entries[k].at
  <2> DEFINE o  == x.entries[k]
             e1 == [o EXCEPT !.status = "delivered"]
  <2>1. o = [key |-> o.key, channel |-> o.channel, notice |-> o.notice, status |-> o.status,
             acked |-> o.acked, attempts |-> o.attempts, due |-> o.due, at |-> o.at]
    BY <1>2 DEF IsEntry
  <2>2. IsEntry(k, e) /\ e.channel = o.channel /\ ~IsPending(e)
    BY <1>2, EntryDelivered
  <2>3. e = [e1 EXCEPT !.acked = TRUE]
    BY Zenon
  <2> HIDE DEF e, o
  <2>4. e1 = Revised(o, "delivered", o.acked, o.attempts, o.due)
    BY <2>1 DEF Revised
  <2> HIDE DEF e1
  <2>5. e = Revised(o, "delivered", TRUE, o.attempts, o.due)
    BY <2>3, <2>4 DEF Revised
  <2>6. e.status = "delivered" /\ e.at = o.at
    BY <2>5 DEF Revised
  <2> QED BY <2>2, <2>6 DEF o
<1> HIDE DEF e
<1>4. IsQueue(z)
  BY <1>3, UpdatedIsQueue
<1>5. /\ DOMAIN z.entries = DOMAIN x.entries /\ z.nextId = x.nextId /\ z.entries[k] = e
      /\ \A i \in DOMAIN x.entries \ {k} : z.entries[i] = x.entries[i]
      /\ Ranked(z.entries)
  BY <1>3, UpdatedKeeps
<1> HIDE DEF z
<1>6. /\ DOMAIN y.entries \subseteq DOMAIN z.entries /\ y.nextId = z.nextId
      /\ \A i \in DOMAIN y.entries : Like(y.entries[i], z.entries[i])
      /\ Active(z) \subseteq DOMAIN y.entries /\ Ranked(y.entries)
  BY <1>1, <1>4, <1>5, PruneIsQueue, PruneKeeps
<1> HIDE DEF y
<1>7. Active(x) \ {k} \subseteq Active(z)
  BY <1>5 DEF Active, Terminal
<1>8. /\ DOMAIN y.entries \subseteq DOMAIN x.entries /\ y.nextId = x.nextId
      /\ Active(x) \ {k} \subseteq DOMAIN y.entries
      /\ \A i \in DOMAIN y.entries \ {k} : Like(y.entries[i], x.entries[i])
      /\ k \in DOMAIN y.entries => y.entries[k].status = "delivered"
      /\ Ranked(y.entries)
  BY <1>3, <1>5, <1>6, <1>7 DEF Like
<1> QED BY <1>8 DEF y

(* A failed attempt leaves the entry to be retried or, the last one, failed.*)
LEMMA FailedKeeps ==
  ASSUME NEW x, IsQueue(x), Ranked(x.entries), NEW k \in DOMAIN x.entries
  PROVE  LET y == MarkFailed(x, k)
         IN  /\ DOMAIN y.entries \subseteq DOMAIN x.entries /\ y.nextId = x.nextId
             /\ Active(x) \ {k} \subseteq DOMAIN y.entries
             /\ \A i \in DOMAIN y.entries \ {k} : Like(y.entries[i], x.entries[i])
             /\ ~FailsForGood(x, k) => k \in DOMAIN y.entries /\ y.entries[k].status = "retrying"
             /\ FailsForGood(x, k) /\ k \in DOMAIN y.entries => y.entries[k].status = "failed"
             /\ k \in DOMAIN y.entries => y.entries[k].notice = x.entries[k].notice
             /\ Ranked(y.entries)
<1> DEFINE o == x.entries[k]
           n == x.entries[k].attempts + 1
           s == IF n >= MaxAttempts THEN "failed" ELSE "retrying"
           u == n <= 1 \/ n >= MaxAttempts
           e == [x.entries[k] EXCEPT !.attempts = n, !.status = s, !.due = u]
           z == Attempted(x, k)
           y == MarkFailed(x, k)
<1>1. z = [x EXCEPT !.entries[k] = e]
  BY Zenon DEF Attempted
<1>2. IsEntry(k, o)
  BY DEF IsQueue, IsEntries
<1>3. IsEntry(k, e) /\ e.channel = o.channel /\ (IsPending(e) => IsPending(o))
  BY <1>2, EntryAttempted
<1>4. e.status = s /\ e.at = o.at /\ e.notice = o.notice
  <2>1. o = [key |-> o.key, channel |-> o.channel, notice |-> o.notice, status |-> o.status,
             acked |-> o.acked, attempts |-> o.attempts, due |-> o.due, at |-> o.at]
    BY <1>2 DEF IsEntry
  <2> DEFINE e1 == [o EXCEPT !.attempts = n]
             e2 == [e1 EXCEPT !.status = s]
  <2>2. e = [e2 EXCEPT !.due = u]
    BY Zenon
  <2> HIDE DEF e, o, n, s, u
  <2>3. e1 = Revised(o, o.status, o.acked, n, o.due)
    BY <2>1 DEF Revised
  <2> HIDE DEF e1
  <2>4. e2 = Revised(o, s, o.acked, n, o.due)
    BY <2>3 DEF Revised
  <2> HIDE DEF e2
  <2>5. e = Revised(o, s, o.acked, n, u)
    BY <2>2, <2>4 DEF Revised
  <2> QED BY <2>5 DEF Revised
<1>5. s = "failed" <=> FailsForGood(x, k)
  BY DEF FailsForGood
<1>6. s \in {"failed", "retrying"}
  OBVIOUS
<1> HIDE DEF e, s
<1>7. IsQueue(z)
  BY <1>1, <1>3, UpdatedIsQueue
<1>8. /\ DOMAIN z.entries = DOMAIN x.entries /\ z.nextId = x.nextId /\ z.entries[k] = e
      /\ \A i \in DOMAIN x.entries \ {k} : z.entries[i] = x.entries[i]
      /\ Ranked(z.entries)
  BY <1>1, <1>4, UpdatedKeeps
<1>9. y = IF z.entries[k].status = "failed" THEN Prune(z) ELSE z
  BY DEF MarkFailed
<1> HIDE DEF z, y
<1>10. /\ DOMAIN y.entries \subseteq DOMAIN z.entries /\ y.nextId = z.nextId
       /\ \A i \in DOMAIN y.entries : Like(y.entries[i], z.entries[i])
       /\ Active(z) \subseteq DOMAIN y.entries /\ Ranked(y.entries)
  <2>1. CASE y = z
    BY <1>8, <2>1 DEF Active, Like
  <2>2. CASE y = Prune(z)
    BY <1>7, <1>8, <2>2, PruneIsQueue, PruneKeeps
  <2> QED BY <1>9, <2>1, <2>2
<1>11. Active(x) \ {k} \subseteq Active(z)
  BY <1>8 DEF Active, Terminal
<1>12. s = "retrying" => k \in DOMAIN y.entries
  BY <1>4, <1>8, <1>9
<1>13. /\ DOMAIN y.entries \subseteq DOMAIN x.entries /\ y.nextId = x.nextId
       /\ Active(x) \ {k} \subseteq DOMAIN y.entries
       /\ \A i \in DOMAIN y.entries \ {k} : Like(y.entries[i], x.entries[i])
       /\ k \in DOMAIN y.entries => y.entries[k].status = s /\ y.entries[k].notice = o.notice
       /\ Ranked(y.entries)
  BY <1>4, <1>8, <1>10, <1>11 DEF Like
<1>14. /\ ~FailsForGood(x, k) => k \in DOMAIN y.entries /\ y.entries[k].status = "retrying"
       /\ FailsForGood(x, k) /\ k \in DOMAIN y.entries => y.entries[k].status = "failed"
  BY <1>5, <1>6, <1>12, <1>13
<1> QED BY <1>13, <1>14 DEF y

(* What enqueue does: nothing, or it hands out the next id to the entry it  *)
(* adds, which stays, and sheds the oldest entries if the queue was full.   *)
Added(x, y, notice) ==
  /\ y.nextId = x.nextId + 1
  /\ x.nextId \in DOMAIN y.entries
  /\ y.entries[x.nextId].status = "queued" /\ y.entries[x.nextId].notice = notice
  /\ DOMAIN y.entries \subseteq DOMAIN x.entries \cup {x.nextId}
  /\ \A i \in DOMAIN x.entries \cap DOMAIN y.entries : Like(y.entries[i], x.entries[i])
  /\ \A i \in DOMAIN x.entries \ DOMAIN y.entries :
       /\ i \in Active(x)
       /\ Cardinality(Active(x)) >= MaxActive
       /\ \A j \in Active(x) \cap DOMAIN y.entries : x.entries[j].at > x.entries[i].at

LEMMA EnqueueAdds ==
  ASSUME NEW x, IsQueue(x), Ranked(x.entries), NEW c \in Channels, NEW key, NEW notice,
         IsKey(x.nextId, key, notice)
  PROVE  LET y == Enqueue(x, key, c, notice)
         IN  Ranked(y.entries) /\ (y = x \/ Added(x, y, notice))
<1> DEFINE e == NewEntry(x, key, c, notice)
           n == x.nextId
           p == Pushed(x, e)
           S == DOMAIN p.entries \ Overflow(p)
           y == Restricted(p, S)
<1>1. CASE Duplicate(x, key)
  BY <1>1 DEF Enqueue
<1>2. CASE ~Duplicate(x, key)
  <2>1. Enqueue(x, key, c, notice) = y
    BY <1>2 DEF Enqueue, ShedActive
  <2>2. IsEntry(n, e)
    BY NewEntryIsEntry
  <2>3. e.status = "queued" /\ e.notice = notice /\ e.at = Cardinality(DOMAIN x.entries) + 1
    BY DEF NewEntry
  <2> HIDE DEF e
  <2>4. /\ IsQueue(p) /\ DOMAIN p.entries = DOMAIN x.entries \cup {n}
        /\ p.nextId = n + 1 /\ p.entries[n] = e
    BY <2>2, PushedIsQueue
  <2>5. \A i \in DOMAIN x.entries : p.entries[i] = x.entries[i] /\ i \in Nat /\ i < n
    BY DEF Pushed, IsQueue, IsEntries
  <2>6. n \notin DOMAIN x.entries /\ n \in Nat
    BY <2>5 DEF IsQueue
  <2> HIDE DEF p, n
  <2>7. S \subseteq DOMAIN p.entries
    OBVIOUS
  <2>8. Active(p) = Active(x) \cup {n} /\ Active(x) \subseteq DOMAIN x.entries
    BY <2>3, <2>4, <2>5, <2>6 DEF Active, Terminal, TerminalStatus
  <2>9. /\ IsFiniteSet(DOMAIN x.entries) /\ Cardinality(DOMAIN x.entries) \in Nat
        /\ IsFiniteSet(Active(x)) /\ Cardinality(Active(x)) \in Nat
        /\ IsFiniteSet(Active(p))
    <3>1. IsFiniteSet(DOMAIN x.entries) /\ IsFiniteSet(DOMAIN p.entries)
      BY <2>4, CountsAreNat
    <3> QED BY <2>8, <3>1, <2>4, FS_Subset, FS_CardinalityType
  <2>10. \A i \in Active(x) : x.entries[i].at \in Nat /\ x.entries[i].at <= Cardinality(DOMAIN x.entries)
    BY <2>8 DEF Ranked, IsQueue, IsEntries, IsEntry
  <2>11. n \notin Overflow(p)
    <3>1. After(p, Active(p), n) = {}
      BY <2>3, <2>4, <2>5, <2>8, <2>9, <2>10 DEF After
    <3> QED BY <3>1, FS_EmptySet, QueueAssumption DEF Overflow
  <2>12. Overflow(p) \subseteq Active(x)
    BY <2>8, <2>11 DEF Overflow
  <2>13. ASSUME NEW i \in Overflow(p) PROVE Cardinality(Active(x)) >= MaxActive
    <3> DEFINE A == After(p, Active(p), i)
               B == (Active(x) \ {i}) \cup {n}
    <3>1. i \in Active(x) /\ i \in Active(p)
      BY <2>12, <2>8
    <3>2. p.entries[i].at \in Nat
      BY <2>5, <2>8, <2>10, <3>1
    <3>3. A \subseteq B
      BY <2>8, <3>2 DEF After
    <3>4. IsFiniteSet(B) /\ Cardinality(B) = Cardinality(Active(x))
      <4>1. IsFiniteSet(Active(x) \ {i}) /\ Cardinality(Active(x) \ {i}) = Cardinality(Active(x)) - 1
        BY <2>9, <3>1, FS_RemoveElement
      <4>2. n \notin Active(x) \ {i}
        BY <2>6, <2>8
      <4>3. IsFiniteSet(B) /\ Cardinality(B) = Cardinality(Active(x) \ {i}) + 1
        <5> DEFINE C == Active(x) \ {i}
        <5>1. IsFiniteSet(C) /\ n \notin C
          BY <4>1, <4>2
        <5> HIDE DEF C
        <5>2. IsFiniteSet(C \cup {n}) /\ Cardinality(C \cup {n}) = Cardinality(C) + 1
          BY <5>1, FS_AddElement
        <5> QED BY <5>2 DEF C
      <4> QED BY <2>9, <4>1, <4>3
    <3>5. Cardinality(A) >= MaxActive
      BY <2>13 DEF Overflow
    <3> HIDE DEF A, B
    <3>6. Cardinality(A) \in Nat /\ Cardinality(A) <= Cardinality(B)
      BY <3>3, <3>4, FS_Subset, FS_CardinalityType
    <3> QED BY <2>9, <3>4, <3>5, <3>6, QueueAssumption
  <2>14. ASSUME NEW i \in Overflow(p), NEW j \in Active(x), j \notin Overflow(p)
         PROVE  x.entries[j].at > x.entries[i].at
    <3> DEFINE A == After(p, Active(p), i)
               B == After(p, Active(p), j)
    <3>1. i \in Active(x)
      BY <2>12
    <3>2. SUFFICES ASSUME ~(x.entries[j].at > x.entries[i].at) PROVE FALSE
      OBVIOUS
    <3>3. /\ p.entries[i] = x.entries[i] /\ p.entries[j] = x.entries[j]
          /\ p.entries[i].at \in Nat /\ p.entries[j].at \in Nat
          /\ p.entries[j].at <= p.entries[i].at
      BY <2>5, <2>8, <2>10, <3>1, <3>2
    <3>4. \A m \in Active(p) : p.entries[m].at \in Nat
      BY <2>3, <2>4, <2>5, <2>8, <2>9, <2>10
    <3>5. A \subseteq B
      BY <3>3, <3>4 DEF After
    <3>6. IsFiniteSet(B)
      <4>1. B \subseteq Active(p)
        BY DEF After
      <4> QED BY <2>9, <4>1, FS_Subset
    <3>7. Cardinality(A) >= MaxActive /\ ~(Cardinality(B) >= MaxActive)
      BY <2>8, <2>14 DEF Overflow
    <3> HIDE DEF A, B
    <3>8. Cardinality(A) \in Nat /\ Cardinality(B) \in Nat /\ Cardinality(A) <= Cardinality(B)
      BY <3>5, <3>6, FS_Subset, FS_CardinalityType
    <3> QED BY <3>7, <3>8, QueueAssumption
  <2>15. /\ DOMAIN y.entries = S /\ y.nextId = p.nextId
         /\ \A i \in S : Like(y.entries[i], p.entries[i])
         /\ Ranked(y.entries)
    BY <2>4, <2>7, RestrictedIsQueue, RestrictedKeeps
  <2> HIDE DEF y
  <2>16. n \in S
    BY <2>4, <2>11
  <2>17. \A i \in DOMAIN x.entries \ S : i \in Overflow(p)
    BY <2>4
  <2>18. \A j \in S : j \notin Overflow(p)
    OBVIOUS
  <2>19. S \subseteq DOMAIN x.entries \cup {n}
    BY <2>4
  <2> HIDE DEF S
  <2>20. Added(x, y, notice)
    BY <2>3, <2>4, <2>5, <2>12, <2>13, <2>14, <2>15, <2>16, <2>17, <2>18, <2>19 DEF Added, Like, n
  <2> QED BY <2>1, <2>15, <2>20
<1> QED BY <1>1, <1>2

---------------------------------------------------------------------------
(* What one step does to the queue and to what was sent, the API's          *)
(* acknowledgement and a restart apart.                                     *)

Rendered(i) == \E d \in drains \ drains' : d.stage = "render" /\ d.current = i

(* The queue x is q with the outcome s for its entry i, and possibly        *)
(* without terminal entries.                                                *)
Decides(x, i, s) ==
  /\ x.nextId = q.nextId /\ DOMAIN x.entries \subseteq DOMAIN q.entries
  /\ Active(q) \ {i} \subseteq DOMAIN x.entries
  /\ \A j \in DOMAIN x.entries \ {i} : Like(x.entries[j], q.entries[j])
  /\ i \in DOMAIN x.entries => x.entries[i].status = s

Unmoved ==
  /\ q'.nextId = q.nextId /\ DOMAIN q'.entries = DOMAIN q.entries /\ sent' = sent
  /\ \A i \in DOMAIN q.entries : Like(q'.entries[i], q.entries[i])

Accepted == q.nextId <= MaxId /\ Added(q, q', FALSE) /\ sent' = sent

Dropped(i) == i \notin DOMAIN q.entries /\ q' = q /\ sent' \in {sent, sent \cup {i}}

Delivered(i) == i \in DOMAIN q.entries /\ Decides(q', i, "delivered") /\ sent' = sent \cup {i}

Retried(i) ==
  /\ i \in DOMAIN q.entries /\ i \in DOMAIN q'.entries /\ sent' = sent
  /\ Decides(q', i, "retrying") /\ q'.entries[i].notice = q.entries[i].notice

GivenUp(i) == i \in DOMAIN q.entries /\ Decides(q', i, "failed") /\ sent' = sent

Noticed(i) ==
  /\ i \in DOMAIN q.entries /\ ~q.entries[i].notice /\ sent' = sent
  /\ \E x : /\ IsQueue(x) /\ Decides(x, i, "failed")
            /\ Cardinality(Active(x)) < MaxActive
            /\ Added(x, q', TRUE)

Outcome ==
  \/ Unmoved
  \/ Accepted
  \/ \E i \in Nat \ {0} : /\ Rendered(i)
                          /\ Dropped(i) \/ Delivered(i) \/ Retried(i) \/ GivenUp(i) \/ Noticed(i)

(* The order of the array, in the queue and in what is saved of it.         *)
Orders == Ranked(q.entries) /\ (saving # NotSaving => Ranked(saving)) /\ Ranked(disk)

(* What a drain has still to render after a step is due, or was left to a   *)
(* drain of before the step, which did not just render it.                  *)
DrainsGoOn ==
  \A n \in drains' : \A i \in Left(n) :
     \/ i \in DOMAIN q'.entries /\ IsPending(q'.entries[i])
     \/ ~Rendered(i) /\ \E e \in drains : i \in Left(e)

(* No drain renders what has no id.                                         *)
RealIds == \A d \in drains : Left(d) \subseteq Nat \ {0}

OrderedInv == SendInv /\ Orders /\ RealIds

LEMMA OnlyRendered ==
  ASSUME SendInv, NEW d \in drains, NEW n, drains' \subseteq (drains \ {d}) \cup {n} \/ drains' \subseteq drains \ {d},
         Left(n) \subseteq d.todo \/ \A i \in Left(n) : i \in DOMAIN q'.entries /\ IsPending(q'.entries[i]),
         \A e \in drains \ drains' : e = d
  PROVE  DrainsGoOn
<1>1. d.todo \subseteq Left(d)
  BY DEF Left
<1>2. \A i \in d.todo : ~Rendered(i)
  BY DEF SendInv, Fresh, Unsent, Rendered
<1>3. \A e \in drains \ {d} : \A i \in Left(e) : ~Rendered(i)
  <2>1. SUFFICES ASSUME NEW e \in drains \ {d}, NEW i \in Left(e), Rendered(i) PROVE FALSE
    OBVIOUS
  <2>2. i \in Left(d)
    BY <2>1 DEF Rendered, Left
  <2> QED BY <2>1, <2>2 DEF SendInv, Fresh
<1> QED BY <1>1, <1>2, <1>3 DEF DrainsGoOn

LEMMA DeliverQueuedGoesOn ==
  ASSUME SendInv, NEW c \in Channels, NEW rearm \in BOOLEAN, IsQueue(q'),
         NEW armed, NEW save, DeliverQueued(c, rearm, q', armed, save)
  PROVE  DrainsGoOn
<1>1. CASE c \notin bound \/ c \in delivering
  BY <1>1 DEF DeliverQueued, DrainsGoOn, Rendered
<1>2. CASE ~(c \notin bound \/ c \in delivering)
  <2> DEFINE d == StartedDrain(c, rearm, Due(q', c))
  <2>1. Left(d) = Due(q', c)
    BY DueAreIds, StartedIsDrain
  <2> HIDE DEF d
  <2>2. drains' = drains \cup {d}
    BY <1>2 DEF DeliverQueued, d
  <2> QED BY <2>1, <2>2, DueAreIds DEF DrainsGoOn, Rendered
<1> QED BY <1>1, <1>2

LEMMA GoesOn == SendInv /\ SendInv' /\ [Next]_vars => DrainsGoOn
<1> SUFFICES ASSUME SendInv, SendInv', [Next]_vars PROVE DrainsGoOn
  OBVIOUS
<1>0. IsQueue(q) /\ IsQueue(q') /\ drains \subseteq Drain
  BY DEF SendInv, TypeOK
<1>same. ASSUME drains' = drains PROVE DrainsGoOn
  BY <1>same DEF DrainsGoOn, Rendered
<1>1. ASSUME NEW c \in Channels, NEW k \in KeysOf(c), HostReply(c, k) PROVE DrainsGoOn
  BY <1>0, <1>1, <1>same, DeliverQueuedGoesOn DEF HostReply, drainVars
<1>2. ASSUME NEW c \in Channels, NEW k \in InboundKeys, InboundReply(c, k) PROVE DrainsGoOn
  BY <1>0, <1>2, <1>same, DeliverQueuedGoesOn DEF InboundReply, drainVars
<1>3. ASSUME NEW c \in PollChannels, PollDrains(c) PROVE DrainsGoOn
  <2>1. DeliverQueued(c, FALSE, q', timers, saving) /\ c \in Channels
    BY <1>3 DEF PollDrains, queueVars, Channels
  <2> QED BY <1>0, <2>1, DeliverQueuedGoesOn
<1>poll. ASSUME NEW c, PollTick(c) \/ PollFails(c) \/ Rebinds(c) PROVE DrainsGoOn
  BY <1>poll, <1>same DEF PollTick, PollFails, Rebinds, drainVars
<1>4. ASSUME NEW c \in PushChannels, TimerFires(c) PROVE DrainsGoOn
  <2>1. DeliverQueued(c, TRUE, q', timers \ {c}, saving) /\ c \in Channels
    BY <1>4 DEF TimerFires, queueVars, Channels
  <2> QED BY <1>0, <2>1, DeliverQueuedGoesOn
<1>5. ASSUME NEW d \in drains, RenderOk(d) \/ RenderFails(d) PROVE DrainsGoOn
  <2> DEFINE n == At(d, d.todo)
  <2>1. Left(n) = d.todo
    BY <1>0, AtIsDrain DEF Drain
  <2> HIDE DEF n
  <2>2. drains' = (drains \ {d}) \cup {n} \/ drains' = drains \ {d}
    BY <1>5 DEF RenderOk, RenderFails, Continues, Ended, n
  <2> QED BY <2>1, <2>2, OnlyRendered
<1>6. ASSUME NEW d \in drains, PassEnds(d) PROVE DrainsGoOn
  <2>1. q' = q
    BY <1>6 DEF PassEnds, queueVars
  <2>2. CASE d.channel \in deliverPending
    <3> DEFINE n == At(d, Due(q, d.channel))
    <3>1. Left(n) = Due(q, d.channel)
      BY <1>0, DueAreIds, AtIsDrain
    <3> HIDE DEF n
    <3>2. drains' = (drains \ {d}) \cup {n}
      BY <1>6, <2>2 DEF PassEnds, n
    <3> QED BY <1>0, <2>1, <3>1, <3>2, DueAreIds, OnlyRendered
  <2>3. CASE d.channel \notin deliverPending
    <3> DEFINE n == At(d, {})
    <3>1. Left(n) = {}
      BY <1>0, AtIsDrain
    <3> HIDE DEF n
    <3>2. drains' = drains \ {d}
      BY <1>6, <2>3 DEF PassEnds, Ended
    <3> QED BY <3>1, <3>2, OnlyRendered
  <2> QED BY <2>2, <2>3
<1>7. ASSUME NEW i \in DOMAIN q.entries, BackoffElapses(i) \/ Ack(i) PROVE DrainsGoOn
  BY <1>7, <1>same DEF BackoffElapses, Ack, drainVars
<1>8. ASSUME WriteState PROVE DrainsGoOn
  <2> DEFINE f(d) == [d EXCEPT !.stage = "settled"]
  <2>1. \A d \in Awaiting : Left(f(d)) = {}
    <3>1. TAKE d \in Awaiting
    <3>2. d \in Drain /\ d.stage = "persist" /\ d.todo = {}
      BY <1>0, <3>1 DEF Awaiting, SendInv, Fresh, Unsent
    <3>3. f(d).todo = {} /\ f(d).stage = "settled"
      BY <3>2 DEF Drain
    <3> HIDE DEF f
    <3> QED BY <3>3 DEF Left
  <2> HIDE DEF f
  <2>2. drains' = (drains \ Awaiting) \cup {f(d) : d \in Awaiting}
    BY <1>8 DEF WriteState, f
  <2>3. \A i : ~Rendered(i)
    BY <2>2 DEF Rendered, Awaiting
  <2> QED BY <2>1, <2>2, <2>3 DEF DrainsGoOn
<1>9. ASSUME WriteFails PROVE DrainsGoOn
  <2>1. drains' = drains \ Awaiting
    BY <1>9 DEF WriteFails
  <2>2. \A i : ~Rendered(i)
    BY <2>1 DEF Rendered, Awaiting
  <2> QED BY <2>1, <2>2 DEF DrainsGoOn
<1>10. ASSUME Restart PROVE DrainsGoOn
  BY <1>10 DEF Restart, DrainsGoOn
<1>11. ASSUME UNCHANGED vars PROVE DrainsGoOn
  BY <1>11, <1>same DEF vars
<1> QED BY <1>1, <1>2, <1>3, <1>poll, <1>4, <1>5, <1>6, <1>7, <1>8, <1>9, <1>10, <1>11 DEF Next

(* A drain that goes on is another drain.                                   *)
LEMMA LeavesRendered ==
  ASSUME SendInv, RealIds, NEW d \in drains, d.stage = "render",
         drains' = (drains \ {d}) \cup {At(d, d.todo)} \/ drains' = drains \ {d}
  PROVE  Rendered(d.current) /\ d.current \in Nat \ {0}
<1>1. /\ d \in Drain /\ d.todo \subseteq Nat \ {0} /\ d.current \in Left(d)
      /\ d.current \notin d.todo
  BY DEF SendInv, TypeOK, Fresh, Unsent, Left, Drain
<1>2. Left(At(d, d.todo)) = d.todo
  BY <1>1, AtIsDrain
<1>3. d \notin drains'
  BY <1>1, <1>2
<1>4. d.current \in Nat \ {0}
  BY <1>1 DEF RealIds
<1> QED BY <1>1, <1>3, <1>4 DEF Rendered

(* Every step has one of the outcomes, and leaves the array in order.       *)
LEMMA EnqueuedOutcome ==
  ASSUME OrderedInv, NEW c \in Channels, NEW k \in HostKeys \cup PollKeys \cup InboundKeys,
         q.nextId <= MaxId, q' = Enqueue(q, k, c, FALSE), sent' = sent
  PROVE  Ranked(q'.entries) /\ (Unmoved \/ Accepted)
<1>1. IsKey(q.nextId, k, FALSE) /\ IsQueue(q) /\ Ranked(q.entries)
  BY DEF IsKey, OrderedInv, SendInv, TypeOK, Orders
<1>2. PICK b \in BOOLEAN : b = FALSE
  OBVIOUS
<1>3. q' = Enqueue(q, k, c, b) /\ IsKey(q.nextId, k, b)
  BY <1>1, <1>2
<1>4. Ranked(q'.entries) /\ (q' = q \/ Added(q, q', b))
  BY <1>1, <1>3, EnqueueAdds
<1> QED BY <1>2, <1>4 DEF Unmoved, Accepted, Like

LEMMA NoticeOutcome ==
  ASSUME OrderedInv, NEW i \in DOMAIN q.entries, NEW c \in Channels,
         Notifies(i, MarkFailed(q, i)), sent' = sent,
         q' = Enqueue(MarkFailed(q, i), NoticeKey(i), c, TRUE)
  PROVE  Ranked(q'.entries) /\ (GivenUp(i) \/ Noticed(i))
<1> DEFINE x == MarkFailed(q, i)
<1>1. IsQueue(q) /\ Ranked(q.entries) /\ i \in 1 .. q.nextId - 1
  BY DEF OrderedInv, SendInv, TypeOK, Orders, IsQueue, IsEntries
<1>2. IsQueue(x) /\ x.nextId = q.nextId
  BY <1>1, MarkFailedIsQueue
<1>3. FailsForGood(q, i) /\ ~q.entries[i].notice /\ Cardinality(Active(x)) < MaxActive
  BY DEF Notifies, HasCapacity
<1>4. Decides(x, i, "failed") /\ Ranked(x.entries)
  BY <1>1, <1>3, FailedKeeps DEF Decides
<1> HIDE DEF x
<1>5. Ranked(q'.entries) /\ (q' = x \/ Added(x, q', TRUE))
  <2> DEFINE key == NoticeKey(i)
  <2> HIDE DEF key
  <2>1. PICK b \in BOOLEAN : b = TRUE
    OBVIOUS
  <2>2. IsKey(x.nextId, key, b)
    BY <1>1, <1>2, <2>1 DEF IsKey, key
  <2>3. q' = Enqueue(x, key, c, b)
    BY <2>1 DEF key, x
  <2> QED BY <1>2, <1>4, <2>1, <2>2, <2>3, EnqueueAdds
<1> QED BY <1>2, <1>3, <1>4, <1>5 DEF GivenUp, Noticed

(* Only an answer, an event, a render and the backoff touch the queue; the  *)
(* others leave it and what was sent as they are.                           *)
LEMMA OutcomeOfStep ==
  OrderedInv /\ [Next]_vars /\ acks' = acks /\ restarts' = restarts
    => Outcome /\ Ranked(q'.entries)
<1> SUFFICES ASSUME OrderedInv, [Next]_vars, acks' = acks, restarts' = restarts
             PROVE  Outcome /\ Ranked(q'.entries)
  OBVIOUS
<1> DEFINE Goal == Outcome /\ Ranked(q'.entries)
<1> HIDE DEF Goal
<1>0. IsQueue(q) /\ Ranked(q.entries) /\ SendInv /\ RealIds /\ drains \subseteq Drain
      /\ acks \in Nat /\ restarts \in Nat
  BY BoundAssumption DEF OrderedInv, SendInv, TypeOK, Orders
<1>same. ASSUME q' = q, sent' = sent PROVE Goal
  BY <1>0, <1>same DEF Outcome, Unmoved, Like, Goal
<1>1. ASSUME NEW c \in Channels, NEW k \in KeysOf(c), HostReply(c, k) PROVE Goal
  <2>1. k \in HostKeys \cup PollKeys \cup InboundKeys
        /\ q.nextId <= MaxId /\ q' = Enqueue(q, k, c, FALSE) /\ sent' = sent
    BY <1>1 DEF HostReply, KeysOf
  <2> QED BY <2>1, EnqueuedOutcome DEF Goal, Outcome
<1>2. ASSUME NEW c \in Channels, NEW k \in InboundKeys, InboundReply(c, k) PROVE Goal
  <2>1. q.nextId <= MaxId /\ q' = Enqueue(q, k, c, FALSE) /\ sent' = sent
    BY <1>2 DEF InboundReply
  <2> QED BY <2>1, EnqueuedOutcome DEF Goal, Outcome
<1>3. ASSUME NEW c, PollTick(c) \/ PollFails(c) \/ PollDrains(c) \/ Rebinds(c) \/ TimerFires(c)
      PROVE  Goal
  BY <1>3, <1>same DEF PollTick, PollFails, PollDrains, Rebinds, TimerFires, queueVars
<1>4. ASSUME NEW d \in drains, RenderOk(d) PROVE Goal
  <2> DEFINE i == d.current
  <2>1. d.stage = "render" /\ sent' = sent \cup {i}
    BY <1>4 DEF RenderOk
  <2>2. Rendered(i) /\ i \in Nat \ {0}
    BY <1>0, <1>4, <2>1, LeavesRendered DEF RenderOk, Continues, Ended
  <2>3. CASE i \in DOMAIN q.entries
    <3>1. q' = MarkDelivered(q, i)
      BY <1>4, <2>3 DEF RenderOk
    <3>2. Decides(q', i, "delivered") /\ Ranked(q'.entries)
      BY <1>0, <2>3, <3>1, DeliveredKeeps DEF Decides
    <3>3. Delivered(i)
      BY <2>1, <2>3, <3>2 DEF Delivered
    <3> QED BY <2>2, <3>2, <3>3 DEF Goal, Outcome
  <2>4. CASE i \notin DOMAIN q.entries
    <3>1. q' = q
      BY <1>4, <2>4 DEF RenderOk
    <3>2. Dropped(i)
      BY <2>1, <2>4, <3>1 DEF Dropped
    <3> QED BY <1>0, <2>2, <3>1, <3>2 DEF Goal, Outcome
  <2> QED BY <2>3, <2>4
<1>5. ASSUME NEW d \in drains, RenderFails(d) PROVE Goal
  <2> DEFINE i == d.current
             x == MarkFailed(q, i)
  <2>1. d.stage = "render" /\ sent' = sent /\ d.channel \in Channels
    BY <1>0, <1>5 DEF RenderFails, Drain
  <2>2. Rendered(i) /\ i \in Nat \ {0}
    BY <1>0, <1>5, <2>1, LeavesRendered DEF RenderFails, Continues, Ended
  <2>3. CASE i \notin DOMAIN q.entries
    <3>1. q' = q
      BY <1>5, <2>3 DEF RenderFails
    <3>2. Dropped(i)
      BY <2>1, <2>3, <3>1 DEF Dropped
    <3> QED BY <1>0, <2>2, <3>1, <3>2 DEF Goal, Outcome
  <2>4. CASE i \in DOMAIN q.entries /\ q' = x
    <3>1. CASE FailsForGood(q, i)
      <4>1. Decides(q', i, "failed") /\ Ranked(q'.entries)
        BY <1>0, <2>4, <3>1, FailedKeeps DEF Decides
      <4>2. GivenUp(i)
        BY <2>1, <2>4, <4>1 DEF GivenUp
      <4> QED BY <2>2, <4>1, <4>2 DEF Goal, Outcome
    <3>2. CASE ~FailsForGood(q, i)
      <4>1. /\ Decides(q', i, "retrying") /\ Ranked(q'.entries)
            /\ i \in DOMAIN q'.entries /\ q'.entries[i].notice = q.entries[i].notice
        BY <1>0, <2>4, <3>2, FailedKeeps DEF Decides
      <4>2. Retried(i)
        BY <2>1, <2>4, <4>1 DEF Retried
      <4> QED BY <2>2, <4>1, <4>2 DEF Goal, Outcome
    <3> QED BY <3>1, <3>2
  <2>5. CASE i \in DOMAIN q.entries /\ Notifies(i, x)
             /\ q' = Enqueue(x, NoticeKey(i), d.channel, TRUE)
    <3>1. Ranked(q'.entries) /\ (GivenUp(i) \/ Noticed(i))
      BY <2>1, <2>5, NoticeOutcome
    <3> QED BY <2>2, <3>1 DEF Goal, Outcome
  <2> QED BY <1>5, <2>3, <2>4, <2>5 DEF RenderFails
<1>6. ASSUME NEW d \in drains, PassEnds(d) PROVE Goal
  BY <1>6, <1>same DEF PassEnds, queueVars
<1>7. ASSUME NEW i \in DOMAIN q.entries, BackoffElapses(i) PROVE Goal
  <2> DEFINE e == [q.entries[i] EXCEPT !.due = TRUE]
  <2>1. q' = [q EXCEPT !.entries[i].due = TRUE] /\ sent' = sent
    BY <1>7 DEF BackoffElapses
  <2>2. q' = [q EXCEPT !.entries[i] = e]
    BY <2>1, SMT
  <2>3. e.at = q.entries[i].at /\ Like(e, q.entries[i])
    BY <1>0 DEF IsQueue, IsEntries, IsEntry, Like
  <2> HIDE DEF e
  <2>4. /\ DOMAIN q'.entries = DOMAIN q.entries /\ q'.nextId = q.nextId /\ q'.entries[i] = e
        /\ \A j \in DOMAIN q.entries \ {i} : q'.entries[j] = q.entries[j]
        /\ Ranked(q'.entries)
    BY <1>0, <2>2, <2>3, UpdatedKeeps
  <2> QED BY <2>1, <2>3, <2>4 DEF Goal, Outcome, Unmoved, Like
<1>8. ASSUME NEW i \in DOMAIN q.entries, Ack(i) PROVE Goal
  BY <1>0, <1>8 DEF Ack
<1>9. ASSUME WriteState \/ WriteFails PROVE Goal
  BY <1>9, <1>same DEF WriteState, WriteFails, queueVars
<1>10. ASSUME Restart PROVE Goal
  BY <1>0, <1>10 DEF Restart
<1>11. ASSUME UNCHANGED vars PROVE Goal
  BY <1>11, <1>same DEF vars
<1>12. Goal
  BY <1>1, <1>2, <1>3, <1>4, <1>5, <1>6, <1>7, <1>8, <1>9, <1>10, <1>11 DEF Next
<1> QED BY <1>12 DEF Goal

(* What is saved is in order too, and so is what a restart begins from.     *)
LEMMA OrderedInit == Init => OrderedInv
<1> SUFFICES ASSUME Init PROVE OrderedInv
  OBVIOUS
<1>1. Ranked(EmptyQueue.entries)
  BY DEF Ranked, EmptyQueue
<1> QED BY <1>1, SendInit DEF OrderedInv, Orders, RealIds, Init

LEMMA SavedOrders ==
  ASSUME OrderedInv, IsQueue(q'), Ranked(q'.entries), disk' = disk,
         saving' \in {saving, PersistSnapshot(q'), NotSaving}
  PROVE  Orders'
<1>1. Ranked(PersistSnapshot(q'))
  <2> DEFINE S == Active(q') \cup LastTerminal(q', MaxPersisted)
  <2>1. S \subseteq DOMAIN q'.entries
    BY DEF Active, LastTerminal, Terminal
  <2> HIDE DEF S
  <2>2. Ranked(Restricted(q', S).entries)
    BY <2>1, RestrictedKeeps
  <2> QED BY <2>2 DEF PersistSnapshot, S
<1> QED BY <1>1 DEF OrderedInv, Orders

LEMMA OrderedStep == OrderedInv /\ [Next]_vars => OrderedInv'
<1> SUFFICES ASSUME OrderedInv, [Next]_vars PROVE OrderedInv'
  OBVIOUS
<1>1. SendInv /\ SendInv' /\ IsQueue(q) /\ IsQueue(q') /\ Ranked(q.entries)
  BY SendStep DEF OrderedInv, Orders, SendInv, TypeOK
<1>2. RealIds'
  <2>1. DrainsGoOn
    BY <1>1, GoesOn
  <2>2. DOMAIN q'.entries \subseteq Nat \ {0}
    BY <1>1 DEF IsQueue, IsEntries
  <2> QED BY <2>1, <2>2 DEF DrainsGoOn, OrderedInv, RealIds
<1>3. Orders'
  <2>1. CASE acks' = acks /\ restarts' = restarts
    <3>1. Ranked(q'.entries)
      BY <2>1, OutcomeOfStep
    <3>2. CASE WriteState
      <4>1. disk' \in {saving, disk} /\ saving # NotSaving /\ saving' = NotSaving
        BY <3>2 DEF WriteState
      <4> QED BY <3>1, <4>1 DEF OrderedInv, Orders
    <3>3. CASE ~WriteState
      <4>1. disk' = disk /\ saving' \in {saving, PersistSnapshot(q'), NotSaving}
        <5>1. ASSUME NEW c, NEW rearm, NEW armed, NEW save \in {saving, PersistSnapshot(q')},
                     DeliverQueued(c, rearm, q', armed, save)
              PROVE  saving' \in {saving, PersistSnapshot(q'), NotSaving}
          BY <5>1 DEF DeliverQueued, SavedBy
        <5>2. ASSUME NEW d, NEW armed, Continues(d, q', armed)
              PROVE  saving' \in {saving, PersistSnapshot(q'), NotSaving}
          BY <5>2 DEF Continues, SavedBy
        <5>3. ASSUME NEW c \in Channels, NEW k \in KeysOf(c), HostReply(c, k)
              PROVE  disk' = disk /\ saving' \in {saving, PersistSnapshot(q'), NotSaving}
          BY <5>1, <5>3 DEF HostReply
        <5>4. ASSUME NEW c \in Channels, NEW k \in InboundKeys, InboundReply(c, k)
              PROVE  disk' = disk /\ saving' \in {saving, PersistSnapshot(q'), NotSaving}
          BY <5>1, <5>4 DEF InboundReply
        <5>5. ASSUME NEW c, PollDrains(c) \/ TimerFires(c)
              PROVE  disk' = disk /\ saving' \in {saving, PersistSnapshot(q'), NotSaving}
          <6>1. \/ DeliverQueued(c, FALSE, q', timers, saving)
                \/ DeliverQueued(c, TRUE, q', timers \ {c}, saving)
            BY <5>5 DEF PollDrains, TimerFires, queueVars
          <6> QED BY <5>1, <5>5, <6>1 DEF PollDrains, TimerFires
        <5>poll. ASSUME NEW c, PollTick(c) \/ PollFails(c) \/ Rebinds(c)
              PROVE  disk' = disk /\ saving' \in {saving, PersistSnapshot(q'), NotSaving}
          BY <5>poll DEF PollTick, PollFails, Rebinds, storeVars
        <5>6. ASSUME NEW d \in drains, RenderOk(d)
              PROVE  disk' = disk /\ saving' \in {saving, PersistSnapshot(q'), NotSaving}
          BY <5>2, <5>6 DEF RenderOk
        <5>7. ASSUME NEW d \in drains, RenderFails(d)
              PROVE  disk' = disk /\ saving' \in {saving, PersistSnapshot(q'), NotSaving}
          BY <5>2, <5>7 DEF RenderFails
        <5>8. ASSUME NEW d \in drains, PassEnds(d)
              PROVE  disk' = disk /\ saving' \in {saving, PersistSnapshot(q'), NotSaving}
          BY <5>8 DEF PassEnds, SavedBy, queueVars
        <5>9. ASSUME NEW i \in DOMAIN q.entries, BackoffElapses(i) \/ Ack(i)
              PROVE  disk' = disk /\ saving' \in {saving, PersistSnapshot(q'), NotSaving}
          BY <5>9 DEF BackoffElapses, Ack, storeVars
        <5>10. ASSUME WriteFails
               PROVE  disk' = disk /\ saving' \in {saving, PersistSnapshot(q'), NotSaving}
          BY <5>10 DEF WriteFails
        <5>11. ~Restart
          <6>1. restarts \in Nat
            BY BoundAssumption DEF OrderedInv, SendInv, TypeOK
          <6> QED BY <2>1, <6>1 DEF Restart
        <5> QED BY <3>3, <5>3, <5>4, <5>5, <5>poll, <5>6, <5>7, <5>8, <5>9, <5>10, <5>11 DEF Next, vars
      <4> QED BY <1>1, <3>1, <4>1, SavedOrders
    <3> QED BY <3>2, <3>3
  <2>2. CASE acks' # acks
    <3>1. PICK i \in DOMAIN q.entries : Ack(i)
      BY <2>2 DEF Next, vars, boundVars, HostReply, InboundReply, PollTick, PollFails, PollDrains, Rebinds, TimerFires, RenderOk,
         RenderFails, PassEnds, BackoffElapses, WriteState, WriteFails, Restart
    <3>2. q' = MarkDelivered(q, i) /\ saving' = PersistSnapshot(q') /\ disk' = disk
      BY <3>1 DEF Ack
    <3>3. Ranked(q'.entries)
      BY <1>1, <3>2, DeliveredKeeps
    <3> QED BY <1>1, <3>2, <3>3, SavedOrders
  <2>3. CASE restarts' # restarts
    <3>1. Restart
      BY <2>3 DEF Next, vars, boundVars, HostReply, InboundReply, PollTick, PollFails, PollDrains, Rebinds, TimerFires, RenderOk,
         RenderFails, PassEnds, BackoffElapses, Ack, WriteState, WriteFails
    <3>2. q'.entries = disk
      <4>1. IsEntries(disk, q.nextId) /\ q.nextId \in Nat \ {0}
        BY DEF OrderedInv, SendInv, TypeOK, IsQueue
      <4> QED BY <3>1, <4>1, RestoredIsQueue DEF Restart
    <3> QED BY <3>1, <3>2 DEF Restart, OrderedInv, Orders
  <2> QED BY <2>1, <2>2, <2>3
<1> QED BY <1>1, <1>2, <1>3 DEF OrderedInv

LEMMA OrderedAlways == Spec => []OrderedInv
BY OrderedInit, OrderedStep, PTL DEF Spec

---------------------------------------------------------------------------
(* ShedsOnlyTheOldest: an entry nobody decided leaves only with the oldest, *)
(* out of a full queue, for a reply that is not a notice.                   *)
LEMMA ShedStep ==
  OrderedInv /\ [Next]_vars /\ restarts' = restarts /\ acks' = acks =>
    /\ q'.nextId > q.nextId => q.nextId \in DOMAIN q'.entries
    /\ \A i \in Active(q) \ DOMAIN q'.entries :
         \/ JustDecided(i)
         \/ /\ Cardinality(Active(q)) >= MaxActive
            /\ \A j \in Active(q) \cap DOMAIN q'.entries : q.entries[j].at > q.entries[i].at
            /\ ~AddsNotice
<1> SUFFICES ASSUME OrderedInv, [Next]_vars, restarts' = restarts, acks' = acks
             PROVE  /\ q'.nextId > q.nextId => q.nextId \in DOMAIN q'.entries
                    /\ \A i \in Active(q) \ DOMAIN q'.entries :
                         \/ JustDecided(i)
                         \/ /\ Cardinality(Active(q)) >= MaxActive
                            /\ \A j \in Active(q) \cap DOMAIN q'.entries :
                                 q.entries[j].at > q.entries[i].at
                            /\ ~AddsNotice
  OBVIOUS
<1> DEFINE Goal == /\ q'.nextId > q.nextId => q.nextId \in DOMAIN q'.entries
                   /\ \A i \in Active(q) \ DOMAIN q'.entries :
                        \/ JustDecided(i)
                        \/ /\ Cardinality(Active(q)) >= MaxActive
                           /\ \A j \in Active(q) \cap DOMAIN q'.entries :
                                q.entries[j].at > q.entries[i].at
                           /\ ~AddsNotice
<1> HIDE DEF Goal
<1>0. Outcome /\ q.nextId \in Nat /\ Active(q) \subseteq DOMAIN q.entries
  BY OutcomeOfStep DEF OrderedInv, SendInv, TypeOK, IsQueue, Active
<1>1. ASSUME Unmoved PROVE Goal
  BY <1>0, <1>1 DEF Unmoved, Goal
<1>2. ASSUME Accepted PROVE Goal
  <2>1. ~AddsNotice
    BY <1>2 DEF Accepted, Added, AddsNotice
  <2>2. q.nextId \in DOMAIN q'.entries
    BY <1>2 DEF Accepted, Added
  <2>3. \A i \in Active(q) \ DOMAIN q'.entries :
          /\ Cardinality(Active(q)) >= MaxActive
          /\ \A j \in Active(q) \cap DOMAIN q'.entries : q.entries[j].at > q.entries[i].at
    BY <1>0, <1>2 DEF Accepted, Added
  <2> QED BY <2>1, <2>2, <2>3 DEF Goal
<1>3. ASSUME NEW i \in Nat \ {0}, Rendered(i),
             Dropped(i) \/ Delivered(i) \/ Retried(i) \/ GivenUp(i) \/ Noticed(i)
      PROVE  Goal
  <2>1. JustDecided(i)
    BY <1>3 DEF JustDecided, Rendered
  <2>2. Active(q) \ {i} \subseteq DOMAIN q'.entries
        /\ (q'.nextId > q.nextId => q.nextId \in DOMAIN q'.entries)
    <3>1. CASE Dropped(i)
      BY <1>0, <3>1 DEF Dropped
    <3>2. CASE Delivered(i) \/ Retried(i) \/ GivenUp(i)
      BY <1>0, <3>2 DEF Delivered, Retried, GivenUp, Decides
    <3>3. CASE Noticed(i)
      <4>1. PICK x : /\ IsQueue(x) /\ Decides(x, i, "failed")
                     /\ Cardinality(Active(x)) < MaxActive /\ Added(x, q', TRUE)
        BY <3>3 DEF Noticed
      <4>2. Cardinality(Active(x)) \in Nat
        <5>1. Active(x) \subseteq DOMAIN x.entries /\ Active(x) \ {} = Active(x)
          BY DEF Active
        <5>2. Cardinality(Active(x) \ {}) \in Nat
          BY <4>1, <5>1, CountsAreNat
        <5> QED BY <5>1, <5>2
      <4>3. DOMAIN x.entries \subseteq DOMAIN q'.entries
        BY <4>1, <4>2, QueueAssumption DEF Added
      <4> QED BY <4>1, <4>3 DEF Added, Decides
    <3> QED BY <1>3, <3>1, <3>2, <3>3
  <2> QED BY <2>1, <2>2 DEF Goal
<1>4. ASSUME ~Unmoved, ~Accepted PROVE Goal
  <2>1. PICK i \in Nat \ {0} :
          /\ Rendered(i)
          /\ Dropped(i) \/ Delivered(i) \/ Retried(i) \/ GivenUp(i) \/ Noticed(i)
    BY <1>0, <1>4 DEF Outcome
  <2> QED BY <1>3, <2>1
<1>5. Goal
  BY <1>1, <1>2, <1>4
<1> QED BY <1>5 DEF Goal

(* An entry nobody decided leaves the queue only for a reply enqueued into  *)
(* a full queue, never for a notice, and only with every older one, and the *)
(* reply just enqueued is never the one shed (shedActive).                  *)
THEOREM OldestAreShed == Spec => ShedsOnlyTheOldest
<1>1. OrderedInv /\ [Next]_vars =>
        [restarts' = restarts /\ acks' = acks =>
           /\ q'.nextId > q.nextId => q.nextId \in DOMAIN q'.entries
           /\ \A i \in Active(q) \ DOMAIN q'.entries :
                \/ JustDecided(i)
                \/ /\ Cardinality(Active(q)) >= MaxActive
                   /\ \A j \in Active(q) \cap DOMAIN q'.entries : q.entries[j].at > q.entries[i].at
                   /\ ~AddsNotice]_vars
  BY ShedStep
<1> QED BY <1>1, OrderedAlways, PTL DEF Spec, ShedsOnlyTheOldest

---------------------------------------------------------------------------
(* The contract of each reply.  An acknowledgement of a reply in flight     *)
(* lets a later failure take "delivered" back, and a restart forgets what   *)
(* was not saved, so the contract is kept by every step as long as no       *)
(* acknowledgement came and at every step but a restart.                    *)

(* What a drain still has to render, nobody has decided.                    *)
Undecided == acks = 0 => \A d \in drains : Left(d) \cap DOMAIN q.entries \subseteq Active(q)

(* Every reply that is not a notice may yet leave one.                      *)
Replies(x) == {i \in Active(x) : ~x.entries[i].notice}

IdsBounded == acks = 0 /\ restarts = 0 => q.nextId + Cardinality(Replies(q)) <= 2 * MaxId + 1

ContractInv == OrderedInv /\ Undecided /\ IdsBounded

(* The contract without a bound on the ids.                                 *)
EveryId == INSTANCE ReplyContract WITH Ids <- Nat \ {0}, fate <- [i \in Nat \ {0} |-> FateOf(i)]

LEMMA RenderedUndecided ==
  ASSUME ContractInv, acks = 0, NEW i, Rendered(i)
  PROVE  i \notin sent /\ i < q.nextId /\ (i \in DOMAIN q.entries => i \in Active(q))
<1>1. PICK d \in drains : d.stage = "render" /\ d.current = i
  BY DEF Rendered
<1>2. i \in Left(d)
  BY <1>1 DEF Left
<1> QED BY <1>2 DEF ContractInv, OrderedInv, SendInv, Fresh, Unsent, Undecided

(* Each reply moves along its own fate, and is marked delivered only by the *)
(* step that sends it.                                                      *)
Fated(j) ==
  /\ EveryId!MayBecome(FateOf(j), FateOf(j)')
  /\ FateOf(j) \in EveryId!Fate /\ FateOf(j)' \in EveryId!Fate
  /\ FateOf(j) = "pending" /\ FateOf(j)' = "delivered" => j \in sent'

FateIn(x, j) ==
  IF j >= x.nextId THEN "none"
  ELSE IF j \notin DOMAIN x.entries THEN "gone"
  ELSE IF j \in Active(x) THEN "pending" ELSE x.entries[j].status

LEMMA FateIsFate ==
  ASSUME NEW x, IsQueue(x), NEW j \in Nat \ {0}
  PROVE  /\ FateIn(x, j) \in EveryId!Fate
         /\ j \in DOMAIN x.entries => j < x.nextId
         /\ FateIn(x, j) = "pending" <=> j \in Active(x)
         /\ FateIn(x, j) = "none" <=> j >= x.nextId
         /\ FateIn(x, j) = "gone" <=> j < x.nextId /\ j \notin DOMAIN x.entries
         /\ j \in DOMAIN x.entries =>
              /\ x.entries[j].status \in TerminalStatus <=> FateIn(x, j) = x.entries[j].status
              /\ x.entries[j].status \notin TerminalStatus <=> FateIn(x, j) = "pending"
<1>1. /\ DOMAIN x.entries \subseteq 1 .. x.nextId - 1 /\ x.nextId \in Nat
      /\ j \in DOMAIN x.entries => x.entries[j].status \in Status
  BY DEF IsQueue, IsEntries, IsEntry
<1>2. j \in Active(x) <=> j \in DOMAIN x.entries /\ x.entries[j].status \notin TerminalStatus
  BY DEF Active, Terminal
<1> QED BY <1>1, <1>2 DEF FateIn, EveryId!Fate, TerminalStatus, Status

(* An entry that stays as it was, or that prune forgets.                    *)
LEMMA FateOfLike ==
  ASSUME NEW x, NEW y, IsQueue(x), IsQueue(y), NEW j \in Nat \ {0}, y.nextId >= x.nextId,
         j < x.nextId, j \in DOMAIN y.entries => j \in DOMAIN x.entries,
         j \in DOMAIN x.entries /\ j \in DOMAIN y.entries => Like(y.entries[j], x.entries[j])
  PROVE  FateIn(y, j) = FateIn(x, j) \/ (FateIn(x, j) # "none" /\ FateIn(y, j) = "gone")
<1>1. x.nextId \in Nat /\ y.nextId \in Nat
  BY DEF IsQueue
<1> QED BY <1>1, FateIsFate DEF Like
LEMMA FateKept ==
  ASSUME ContractInv, TypeOK', acks = 0, Outcome, NEW j \in Nat \ {0}
  PROVE  Fated(j)
<1>1. /\ FateOf(j) = FateIn(q, j) /\ FateOf(j)' = FateIn(q', j)
      /\ IsQueue(q) /\ IsQueue(q') /\ q.nextId \in Nat /\ q'.nextId \in Nat
  BY DEF FateOf, FateIn, ContractInv, OrderedInv, SendInv, TypeOK, IsQueue
<1>2. FateOf(j) \in EveryId!Fate /\ FateOf(j)' \in EveryId!Fate
  BY <1>1, FateIsFate
<1>3. ASSUME q'.nextId >= q.nextId, j < q.nextId,
             j \in DOMAIN q'.entries => j \in DOMAIN q.entries,
             j \in DOMAIN q.entries /\ j \in DOMAIN q'.entries => Like(q'.entries[j], q.entries[j])
      PROVE  Fated(j)
  <2>1. FateOf(j)' = FateOf(j) \/ (FateOf(j) # "none" /\ FateOf(j)' = "gone")
    BY <1>1, <1>3, FateOfLike
  <2> QED BY <1>2, <2>1 DEF Fated, EveryId!MayBecome, EveryId!Fate
<1>4. ASSUME j >= q.nextId, j >= q'.nextId PROVE Fated(j)
  BY <1>1, <1>2, <1>4, FateIsFate DEF Fated, EveryId!MayBecome
<1>5. ASSUME Unmoved PROVE Fated(j)
  BY <1>1, <1>3, <1>4, <1>5 DEF Unmoved
<1>6. ASSUME Accepted PROVE Fated(j)
  <2>1. CASE j = q.nextId
    <3>1. FateOf(j) = "none" /\ FateOf(j)' = "pending"
      BY <1>1, <1>6, <2>1, FateIsFate DEF Accepted, Added, TerminalStatus
    <3> QED BY <1>2, <3>1 DEF Fated, EveryId!MayBecome
  <2>2. CASE j # q.nextId
    BY <1>1, <1>3, <1>4, <1>6, <2>2 DEF Accepted, Added
  <2> QED BY <2>1, <2>2
<1>7. ASSUME NEW i \in Nat \ {0}, Rendered(i),
             Dropped(i) \/ Delivered(i) \/ Retried(i) \/ GivenUp(i) \/ Noticed(i)
      PROVE  Fated(j)
  <2>1. i \in DOMAIN q.entries => i \in Active(q) /\ FateOf(i) = "pending"
    BY <1>1, <1>7, RenderedUndecided, FateIsFate DEF FateOf, FateIn
  <2>2. CASE Dropped(i)
    BY <1>1, <1>3, <1>4, <2>2 DEF Dropped, Like
  <2>3. ASSUME NEW x, IsQueue(x), NEW s \in {"delivered", "failed", "retrying"}, Decides(x, i, s),
               i \in DOMAIN q.entries
        PROVE  /\ j # i => FateIn(x, j) = FateIn(q, j) \/ (FateIn(q, j) # "none" /\ FateIn(x, j) = "gone")
               /\ j = i => \/ FateIn(x, j) = "gone"
                           \/ FateIn(x, j) = s
                           \/ (FateIn(x, j) = "pending" /\ s = "retrying")
    <3>1. CASE j = i
      BY <1>1, <2>3, <3>1, FateIsFate DEF Decides, TerminalStatus
    <3>2. CASE j # i /\ j < q.nextId
      <4>1. /\ x.nextId >= q.nextId
            /\ j \in DOMAIN x.entries => j \in DOMAIN q.entries
            /\ j \in DOMAIN q.entries /\ j \in DOMAIN x.entries => Like(x.entries[j], q.entries[j])
        BY <1>1, <2>3, <3>2 DEF Decides
      <4> QED BY <1>1, <2>3, <3>2, <4>1, FateOfLike
    <3>3. CASE j # i /\ j >= q.nextId
      BY <1>1, <2>3, <3>3, FateIsFate DEF Decides
    <3> QED BY <1>1, <3>1, <3>2, <3>3
  <2>4. CASE Delivered(i)
    <3>1. Decides(q', i, "delivered") /\ i \in DOMAIN q.entries /\ sent' = sent \cup {i}
      BY <2>4 DEF Delivered
    <3>2. CASE j = i
      <4>1. PICK s \in {"delivered", "failed", "retrying"} : s = "delivered"
        OBVIOUS
      <4>2. FateIn(q', j) = "gone" \/ FateIn(q', j) = s
        BY <1>1, <2>3, <3>1, <3>2, <4>1
      <4> QED BY <1>1, <1>2, <2>1, <3>1, <3>2, <4>1, <4>2 DEF Fated, EveryId!MayBecome
    <3>3. CASE j # i
      BY <1>1, <1>2, <2>3, <3>1, <3>3 DEF Fated, EveryId!MayBecome, EveryId!Fate
    <3> QED BY <3>2, <3>3
  <2>5. CASE Retried(i) \/ GivenUp(i)
    <3>1. PICK s \in {"retrying", "failed"} : Decides(q', i, s) /\ i \in DOMAIN q.entries
      BY <2>5 DEF Retried, GivenUp
    <3>2. CASE j = i
      BY <1>1, <1>2, <2>1, <2>3, <3>1, <3>2 DEF Fated, EveryId!MayBecome, EveryId!Fate
    <3>3. CASE j # i
      BY <1>1, <1>2, <2>3, <3>1, <3>3 DEF Fated, EveryId!MayBecome, EveryId!Fate
    <3> QED BY <3>2, <3>3
  <2>6. CASE Noticed(i)
    <3>1. PICK x : IsQueue(x) /\ Decides(x, i, "failed") /\ Added(x, q', TRUE) /\ i \in DOMAIN q.entries
      BY <2>6 DEF Noticed
    <3>2. /\ x.nextId = q.nextId /\ q'.nextId = q.nextId + 1
          /\ j # q.nextId => (j \in DOMAIN q'.entries => j \in DOMAIN x.entries)
          /\ j \in DOMAIN x.entries /\ j \in DOMAIN q'.entries => Like(q'.entries[j], x.entries[j])
      BY <3>1 DEF Decides, Added
    <3>3. j < q.nextId => FateIn(q', j) = FateIn(x, j) \/ FateIn(q', j) = "gone"
      BY <1>1, <3>1, <3>2, FateOfLike
    <3>4. CASE j < q.nextId /\ j = i
      BY <1>1, <1>2, <2>1, <2>3, <3>1, <3>3, <3>4 DEF Fated, EveryId!MayBecome
    <3>5. CASE j < q.nextId /\ j # i
      BY <1>1, <1>2, <2>3, <3>1, <3>3, <3>5, FateIsFate DEF Fated, EveryId!MayBecome, EveryId!Fate
    <3>6. CASE j = q.nextId
      <4>1. FateOf(j) = "none" /\ FateOf(j)' = "pending"
        BY <1>1, <3>1, <3>2, <3>6, FateIsFate DEF Added, TerminalStatus
      <4> QED BY <1>2, <4>1 DEF Fated, EveryId!MayBecome
    <3>7. CASE j > q.nextId
      BY <1>1, <1>4, <3>2, <3>7
    <3> QED BY <1>1, <3>4, <3>5, <3>6, <3>7
  <2> QED BY <1>7, <2>2, <2>4, <2>5, <2>6
<1>8. ASSUME ~Unmoved, ~Accepted PROVE Fated(j)
  <2>1. PICK i \in Nat \ {0} :
          /\ Rendered(i)
          /\ Dropped(i) \/ Delivered(i) \/ Retried(i) \/ GivenUp(i) \/ Noticed(i)
    BY <1>8 DEF Outcome
  <2> QED BY <1>7, <2>1
<1> QED BY <1>5, <1>6, <1>8
(* One reply at most goes out with a step.                                  *)
LEMMA SentOnce ==
  ASSUME ContractInv, TypeOK', acks = 0, Outcome
  PROVE  \/ sent' = sent
         \/ \E i \in (Nat \ {0}) \ sent : /\ i < q.nextId
                                          /\ FateOf(i) \in {"pending", "gone"}
                                          /\ FateOf(i)' \in {"delivered", "gone"}
                                          /\ sent' = sent \cup {i}
<1> SUFFICES ASSUME sent' # sent
             PROVE  \E i \in (Nat \ {0}) \ sent : /\ i < q.nextId
                                                  /\ FateOf(i) \in {"pending", "gone"}
                                                  /\ FateOf(i)' \in {"delivered", "gone"}
                                                  /\ sent' = sent \cup {i}
  OBVIOUS
<1>1. /\ IsQueue(q) /\ IsQueue(q') /\ q.nextId \in Nat /\ q'.nextId \in Nat
      /\ \A i : FateOf(i) = FateIn(q, i) /\ FateOf(i)' = FateIn(q', i)
  BY DEF FateOf, FateIn, ContractInv, OrderedInv, SendInv, TypeOK, IsQueue
<1>2. PICK i \in Nat \ {0} : Rendered(i) /\ (Dropped(i) \/ Delivered(i))
  BY DEF Outcome, Unmoved, Accepted, Retried, GivenUp, Noticed
<1>3. /\ i \notin sent /\ i < q.nextId
      /\ i \in DOMAIN q.entries => FateIn(q, i) = "pending"
      /\ i \notin DOMAIN q.entries => FateIn(q, i) = "gone"
  BY <1>1, <1>2, RenderedUndecided, FateIsFate
<1>4. sent' = sent \cup {i}
  BY <1>2 DEF Dropped, Delivered
<1>5. FateIn(q', i) \in {"delivered", "gone"}
  <2>1. CASE Dropped(i)
    BY <1>1, <1>3, <2>1 DEF Dropped
  <2>2. CASE Delivered(i)
    BY <1>1, <1>3, <2>2, FateIsFate DEF Delivered, Decides, TerminalStatus
  <2> QED BY <1>2, <2>1, <2>2
<1> QED BY <1>1, <1>3, <1>4, <1>5

(* Only an acknowledgement counts as one.                                   *)
LEMMA AcksCount == acks \in Nat /\ [Next]_vars => acks' = acks \/ acks' = acks + 1
<1> SUFFICES ASSUME acks \in Nat, [Next]_vars, acks' # acks PROVE acks' = acks + 1
  OBVIOUS
<1>1. PICK i \in DOMAIN q.entries : Ack(i)
  BY DEF Next, vars, boundVars, HostReply, InboundReply, PollTick, PollFails, PollDrains, Rebinds, TimerFires, RenderOk,
     RenderFails, PassEnds, BackoffElapses, WriteState, WriteFails, Restart
<1> QED BY <1>1 DEF Ack

LEMMA ContractStep ==
  ContractInv /\ TypeOK' /\ [Next]_vars /\ acks' = 0 /\ restarts' = restarts
    => [EveryId!Next]_(EveryId!vars)
<1> SUFFICES ASSUME ContractInv, TypeOK', [Next]_vars, acks' = 0, restarts' = restarts
             PROVE  [EveryId!Next]_(EveryId!vars)
  OBVIOUS
<1>1. acks = 0 /\ acks' = acks
  <2>1. acks \in Nat
    BY BoundAssumption DEF ContractInv, OrderedInv, SendInv, TypeOK
  <2> QED BY <2>1, AcksCount
<1>2. Outcome
  BY <1>1, OutcomeOfStep DEF ContractInv
<1>3. \A j \in Nat \ {0} : Fated(j)
  BY <1>1, <1>2, FateKept
<1>4. \/ sent' = sent
      \/ \E i \in (Nat \ {0}) \ sent : /\ FateOf(i) \in {"pending", "gone"}
                                       /\ FateOf(i)' \in {"delivered", "gone"}
                                       /\ sent' = sent \cup {i}
  BY <1>1, <1>2, SentOnce
<1> DEFINE f == [i \in Nat \ {0} |-> FateOf(i)]
<1>5. /\ f' \in [Nat \ {0} -> EveryId!Fate]
      /\ \A i \in Nat \ {0} : f[i] = FateOf(i) /\ f'[i] = FateOf(i)'
  BY <1>3 DEF Fated
<1>6. EveryId!Next
  BY <1>3, <1>4, <1>5 DEF Fated, EveryId!Next
<1> QED BY <1>6
---------------------------------------------------------------------------
(* The ids a daemon without acknowledgements and restarts hands out.        *)
LEMMA RepliesFinite ==
  ASSUME NEW x, IsQueue(x)
  PROVE  IsFiniteSet(Replies(x)) /\ Cardinality(Replies(x)) \in Nat
<1>1. Replies(x) \subseteq DOMAIN x.entries /\ Replies(x) \ {} = Replies(x)
  BY DEF Replies, Active
<1>2. IsFiniteSet(Replies(x)) /\ Cardinality(Replies(x) \ {}) \in Nat
  BY <1>1, CountsAreNat
<1> QED BY <1>1, <1>2

LEMMA FewerReplies ==
  ASSUME NEW x, NEW y, IsQueue(x), IsQueue(y), Replies(y) \subseteq Replies(x)
  PROVE  Cardinality(Replies(y)) <= Cardinality(Replies(x))
BY RepliesFinite, FS_Subset

LEMMA BoundStep ==
  ASSUME ContractInv, TypeOK', acks = 0, restarts = 0, Outcome
  PROVE  q'.nextId + Cardinality(Replies(q')) <= 2 * MaxId + 1
<1>0. /\ IsQueue(q) /\ IsQueue(q') /\ q.nextId \in Nat \ {0} /\ MaxId \in Nat
      /\ q.nextId + Cardinality(Replies(q)) <= 2 * MaxId + 1
      /\ Cardinality(Replies(q)) \in Nat /\ Cardinality(Replies(q')) \in Nat
  BY RepliesFinite, BoundAssumption DEF ContractInv, OrderedInv, SendInv, TypeOK, IsQueue, IdsBounded
<1>1. ASSUME q'.nextId = q.nextId, Replies(q') \subseteq Replies(q)
      PROVE  q'.nextId + Cardinality(Replies(q')) <= 2 * MaxId + 1
  BY <1>0, <1>1, FewerReplies
<1>2. CASE Unmoved
  BY <1>1, <1>2 DEF Unmoved, Replies, Active, Terminal, Like
<1>3. CASE Accepted
  <2>1. Replies(q') \subseteq 1 .. q.nextId
    BY <1>0, <1>3 DEF Accepted, Added, Replies, Active, IsQueue, IsEntries
  <2>2. IsFiniteSet(1 .. q.nextId) /\ Cardinality(1 .. q.nextId) = q.nextId
    <3> DEFINE n == q.nextId
    <3>1. 1 \in Int /\ n \in Int /\ 1 <= n /\ n - 1 + 1 = n
      BY <1>0
    <3> HIDE DEF n
    <3>2. IsFiniteSet(1 .. n) /\ Cardinality(1 .. n) = n - 1 + 1
      BY <3>1, FS_Interval
    <3> QED BY <3>1, <3>2 DEF n
  <2>3. Cardinality(Replies(q')) <= q.nextId
    BY <2>1, <2>2, FS_Subset
  <2>4. q'.nextId = q.nextId + 1 /\ q.nextId <= MaxId
    BY <1>3 DEF Accepted, Added
  <2> QED BY <1>0, <2>3, <2>4
<1>4. ASSUME NEW i \in Nat \ {0}, Rendered(i),
             Dropped(i) \/ Delivered(i) \/ Retried(i) \/ GivenUp(i) \/ Noticed(i)
      PROVE  q'.nextId + Cardinality(Replies(q')) <= 2 * MaxId + 1
  <2>1. i \in DOMAIN q.entries => i \in Active(q)
    BY <1>4, RenderedUndecided
  <2>2. CASE Dropped(i)
    BY <1>1, <2>2 DEF Dropped
  <2>3. ASSUME NEW x, NEW s \in {"delivered", "failed"}, Decides(x, i, s)
        PROVE  Replies(x) \subseteq Replies(q) \ {i}
    BY <2>3 DEF Decides, Replies, Active, Terminal, TerminalStatus, Like
  <2>4. CASE Delivered(i) \/ GivenUp(i)
    <3>1. PICK s \in {"delivered", "failed"} : Decides(q', i, s)
      BY <2>4 DEF Delivered, GivenUp
    <3> QED BY <1>1, <2>3, <3>1 DEF Decides
  <2>5. CASE Retried(i)
    BY <1>1, <2>1, <2>5 DEF Retried, Decides, Replies, Active, Terminal, TerminalStatus, Like
  <2>6. CASE Noticed(i)
    <3>1. PICK x : Decides(x, i, "failed") /\ Added(x, q', TRUE)
      BY <2>6 DEF Noticed
    <3>2. i \in Replies(q)
      BY <2>1, <2>6 DEF Noticed, Replies
    <3>3. Replies(x) \subseteq Replies(q) \ {i}
      <4>1. PICK s \in {"delivered", "failed"} : s = "failed"
        OBVIOUS
      <4> QED BY <2>3, <3>1, <4>1
    <3>4. Replies(q') \subseteq Replies(x)
      BY <3>1 DEF Added, Replies, Active, Terminal, Like
    <3>5. Cardinality(Replies(q')) <= Cardinality(Replies(q)) - 1
      <4> DEFINE R == Replies(q)
      <4>1. IsFiniteSet(R) /\ i \in R
        BY <1>0, <3>2, RepliesFinite
      <4> HIDE DEF R
      <4>2. IsFiniteSet(R \ {i}) /\ Cardinality(R \ {i}) = Cardinality(R) - 1
        BY <4>1, FS_RemoveElement
      <4>3. Cardinality(Replies(q')) <= Cardinality(R \ {i})
        BY <3>3, <3>4, <4>2, FS_Subset DEF R
      <4> QED BY <4>2, <4>3 DEF R
    <3>6. q'.nextId = q.nextId + 1
      BY <3>1 DEF Decides, Added
    <3> QED BY <1>0, <3>5, <3>6
  <2> QED BY <1>4, <2>2, <2>4, <2>5, <2>6
<1>5. ASSUME ~Unmoved, ~Accepted PROVE q'.nextId + Cardinality(Replies(q')) <= 2 * MaxId + 1
  <2>1. PICK i \in Nat \ {0} :
          /\ Rendered(i)
          /\ Dropped(i) \/ Delivered(i) \/ Retried(i) \/ GivenUp(i) \/ Noticed(i)
    BY <1>5 DEF Outcome
  <2> QED BY <1>4, <2>1
<1> QED BY <1>2, <1>3, <1>5

(* Only the rendered reply is decided, and it is in no drain any more.      *)
LEMMA UndecidedStep ==
  ASSUME ContractInv, TypeOK', DrainsGoOn, acks = 0, Outcome
  PROVE  \A d \in drains' : Left(d) \cap DOMAIN q'.entries \subseteq Active(q')
<1>0. /\ \A e \in drains : Left(e) \cap DOMAIN q.entries \subseteq Active(q)
      /\ q.nextId \in Nat
      /\ \A e \in drains : \A j \in Left(e) : j \in Nat /\ j < q.nextId
  <2>1. \A e \in drains : Left(e) \subseteq Nat
    BY DEF ContractInv, OrderedInv, RealIds
  <2> QED BY <2>1 DEF ContractInv, Undecided, OrderedInv, SendInv, TypeOK, IsQueue, Fresh, Unsent
<1> SUFFICES ASSUME NEW n \in drains', NEW j \in Left(n), j \in DOMAIN q'.entries
             PROVE  j \in Active(q')
  OBVIOUS
<1>1. CASE IsPending(q'.entries[j])
  BY <1>1 DEF IsPending, Active, Terminal, TerminalStatus
<1>2. CASE ~IsPending(q'.entries[j])
  <2>1. ~Rendered(j)
    BY <1>2 DEF DrainsGoOn
  <2>2. PICK e \in drains : j \in Left(e)
    BY <1>2 DEF DrainsGoOn
  <2>3. j \in Nat /\ j < q.nextId /\ (j \in DOMAIN q.entries => j \in Active(q))
    BY <1>0, <2>2
  <2>4. ASSUME Like(q'.entries[j], q.entries[j]), j \in DOMAIN q.entries PROVE j \in Active(q')
    BY <2>3, <2>4 DEF Active, Terminal, Like
  <2>5. CASE Unmoved
    BY <2>4, <2>5 DEF Unmoved
  <2>6. CASE Accepted
    BY <1>0, <2>3, <2>4, <2>6 DEF Accepted, Added
  <2>7. ASSUME NEW i \in Nat \ {0}, Rendered(i),
               Dropped(i) \/ Delivered(i) \/ Retried(i) \/ GivenUp(i) \/ Noticed(i)
        PROVE  j \in Active(q')
    <3>1. i # j
      BY <2>1, <2>7
    <3>2. CASE Dropped(i)
      BY <2>3, <3>2 DEF Dropped
    <3>3. CASE Delivered(i) \/ Retried(i) \/ GivenUp(i)
      BY <2>4, <3>1, <3>3 DEF Delivered, Retried, GivenUp, Decides
    <3>4. CASE Noticed(i)
      <4>1. PICK x : Decides(x, i, "failed") /\ Added(x, q', TRUE)
        BY <3>4 DEF Noticed
      <4>2. j \in DOMAIN x.entries
        BY <1>0, <2>3, <4>1 DEF Decides, Added
      <4> QED BY <2>4, <3>1, <4>1, <4>2 DEF Decides, Added, Like
    <3> QED BY <2>7, <3>2, <3>3, <3>4
  <2>8. ASSUME ~Unmoved, ~Accepted PROVE j \in Active(q')
    <3>1. PICK i \in Nat \ {0} :
            /\ Rendered(i)
            /\ Dropped(i) \/ Delivered(i) \/ Retried(i) \/ GivenUp(i) \/ Noticed(i)
      BY <2>8 DEF Outcome
    <3> QED BY <2>7, <3>1
  <2> QED BY <2>5, <2>6, <2>8
<1> QED BY <1>1, <1>2

LEMMA ContractInit == Init => ContractInv
<1> SUFFICES ASSUME Init PROVE ContractInv
  OBVIOUS
<1>1. Replies(EmptyQueue) = {} /\ EmptyQueue.nextId = 1
  BY DEF Replies, Active, EmptyQueue
<1>2. 1 + Cardinality({}) <= 2 * MaxId + 1
  BY FS_EmptySet, BoundAssumption
<1> QED BY <1>1, <1>2, OrderedInit DEF ContractInv, Undecided, IdsBounded, Init

LEMMA ContractInvStep == ContractInv /\ [Next]_vars => ContractInv'
<1> SUFFICES ASSUME ContractInv, [Next]_vars PROVE ContractInv'
  OBVIOUS
<1>1. OrderedInv' /\ TypeOK' /\ DrainsGoOn
  BY OrderedStep, GoesOn DEF ContractInv, OrderedInv, SendInv
<1>2. /\ acks \in Nat /\ restarts \in Nat
      /\ acks' = 0 => acks' = acks
      /\ restarts' = restarts \/ Restart
  <2>1. acks \in Nat /\ restarts \in Nat
    BY BoundAssumption DEF ContractInv, OrderedInv, SendInv, TypeOK
  <2>2. restarts' = restarts \/ Restart
    BY DEF Next, vars, boundVars, HostReply, InboundReply, PollTick, PollFails, PollDrains, Rebinds, TimerFires, RenderOk,
       RenderFails, PassEnds, BackoffElapses, Ack, WriteState, WriteFails
  <2> QED BY <2>1, <2>2, AcksCount
<1>3. CASE Restart
  <2>1. drains' = {} /\ restarts' # 0
    BY <1>2, <1>3 DEF Restart
  <2> QED BY <1>1, <2>1 DEF ContractInv, Undecided, IdsBounded
<1>4. CASE ~Restart /\ acks' = 0
  <2>1. Outcome /\ acks = 0 /\ restarts' = restarts
    BY <1>2, <1>4, OutcomeOfStep DEF ContractInv
  <2>2. Undecided'
    BY <1>1, <2>1, UndecidedStep DEF Undecided
  <2>3. IdsBounded'
    BY <1>1, <2>1, BoundStep DEF IdsBounded
  <2> QED BY <1>1, <2>2, <2>3 DEF ContractInv
<1>5. CASE acks' # 0
  BY <1>1, <1>5 DEF ContractInv, Undecided, IdsBounded
<1> QED BY <1>3, <1>4, <1>5

LEMMA ContractAlways == Spec => []ContractInv
BY ContractInit, ContractInvStep, PTL DEF Spec

(* The queue, its drains and its timers keep the contract of each of any    *)
(* number of replies at every step before the first acknowledgement, a      *)
(* restart apart: whatever is shed, pruned, retried and given up, a reply   *)
(* moves along its own fate, and only one not sent before is sent.          *)
THEOREM StepsKeepContract ==
  Spec => [][acks' = 0 /\ restarts' = restarts => EveryId!Next \/ UNCHANGED EveryId!vars]_vars
<1>1. ContractInv /\ ContractInv' /\ [Next]_vars =>
        [acks' = 0 /\ restarts' = restarts => EveryId!Next \/ UNCHANGED EveryId!vars]_vars
  <2>1. ContractInv' => TypeOK'
    BY DEF ContractInv, OrderedInv, SendInv
  <2> QED BY <2>1, ContractStep
<1> QED BY <1>1, ContractAlways, PTL DEF Spec

(* Before either, the ids stay below twice the bound on replies: each leaves*)
(* at most one notice.  So the bounded contract the runs check is kept too. *)
LEMMA BoundedStep ==
  ASSUME acks' = 0, restarts' = 0, ContractInv, ContractInv', [Next]_vars
  PROVE  [Contract!Next]_(Contract!vars)
<1>1. acks = 0 /\ acks' = 0 /\ restarts = 0 /\ restarts' = 0 /\ TypeOK'
  <2>1. acks \in Nat /\ restarts \in Nat /\ TypeOK'
    BY BoundAssumption DEF ContractInv, OrderedInv, SendInv, TypeOK
  <2>2. restarts' \in {restarts, restarts + 1}
    BY DEF Next, vars, boundVars, HostReply, InboundReply, PollTick, PollFails, PollDrains, Rebinds,
       TimerFires, RenderOk, RenderFails, PassEnds, BackoffElapses, Ack, WriteState, WriteFails, Restart
  <2> QED BY <2>1, <2>2, AcksCount
<1>2. Outcome
  BY <1>1, OutcomeOfStep DEF ContractInv
<1>3. \A j \in Nat \ {0} : Fated(j)
  BY <1>1, <1>2, FateKept
<1>4. Ids \subseteq Nat \ {0} /\ \A j \in Nat \ {0} : j < q.nextId => j \in Ids
  <2>1. /\ q.nextId \in Nat /\ MaxId \in Nat /\ Cardinality(Replies(q)) \in Nat
        /\ q.nextId + Cardinality(Replies(q)) <= 2 * MaxId + 1
    BY <1>1, RepliesFinite, BoundAssumption
       DEF ContractInv, OrderedInv, SendInv, TypeOK, IsQueue, IdsBounded
  <2> QED BY <2>1 DEF Ids
<1>5. \/ sent' = sent
      \/ \E i \in Ids \ sent : /\ FateOf(i) \in {"pending", "gone"}
                               /\ FateOf(i)' \in {"delivered", "gone"}
                               /\ sent' = sent \cup {i}
  BY <1>1, <1>2, <1>4, SentOnce
<1>6. \A j \in Ids : /\ Contract!MayBecome(FateOf(j), FateOf(j)')
                     /\ FateOf(j)' \in Contract!Fate
                     /\ FateOf(j) = "pending" /\ FateOf(j)' = "delivered" => j \in sent'
  BY <1>3, <1>4 DEF Fated, EveryId!MayBecome, EveryId!Fate, Contract!MayBecome, Contract!Fate
<1> DEFINE f == [i \in Ids |-> FateOf(i)]
<1>7. /\ f' \in [Ids -> Contract!Fate]
      /\ \A i \in Ids : f[i] = FateOf(i) /\ f'[i] = FateOf(i)'
  BY <1>6 DEF Ids
<1>8. Contract!Next
  BY <1>5, <1>6, <1>7 DEF Contract!Next
<1> QED BY <1>8

(* The queue implements the contract of a reply (ReplyContract) up to the   *)
(* first acknowledgement and the first restart.                             *)
THEOREM ContractRefined == Spec => KeepsContract
<1>1. Init => Contract!Init
  <2> SUFFICES ASSUME Init PROVE Contract!Init
    OBVIOUS
  <2>1. q.nextId = 1 /\ sent = {}
    BY DEF Init, EmptyQueue
  <2>2. \A i \in Ids : i >= 1
    BY BoundAssumption DEF Ids
  <2>3. \A i \in Ids : FateOf(i) = "none"
    BY <2>1, <2>2 DEF FateOf
  <2> QED BY <2>1, <2>3 DEF Contract!Init
<1>2. ContractInv /\ ContractInv' /\ [Next]_vars =>
        [acks' = 0 /\ restarts' = 0 => [Contract!Next]_(Contract!vars)]_vars
  BY BoundedStep
<1> QED BY <1>1, <1>2, ContractAlways, PTL DEF Spec, KeepsContract
=============================================================================
