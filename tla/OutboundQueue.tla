--------------------------- MODULE OutboundQueue ---------------------------
(***************************************************************************)
(* The outbound reply queue (core/outbound-queue.js) as operators on a     *)
(* queue value q == [entries, nextId].                                     *)
(*                                                                         *)
(* q.entries maps the id of every entry the array holds to its record; the *)
(* array's order is the field "at", so that list order, which decides what *)
(* is shed and what is pruned, is kept without a sequence.  An id is the   *)
(* number in "out_000001".  Payload, conversation and timestamps are left  *)
(* out, except that "acked" is ackedAt # null and "due" says whether       *)
(* nextAttemptAt has passed.                                               *)
(***************************************************************************)
EXTENDS Integers, FiniteSets, FiniteSetsExt

CONSTANTS
  MaxAttempts,   (* maxAttempts: failed attempts before an entry is given up  *)
  MaxActive,     (* maxActiveEntries: cap on entries not yet terminal         *)
  MaxTerminal,   (* maxTerminalEntries: delivered/failed entries kept         *)
  MaxPersisted   (* maxTerminal of persistSnapshot: terminal entries on disk  *)

ASSUME QueueAssumption ==
  /\ MaxAttempts  \in Nat \ {0}
  /\ MaxActive    \in Nat \ {0}
  /\ MaxTerminal  \in Nat \ {0}
  /\ MaxPersisted \in Nat \ {0}

TerminalStatus == {"delivered", "failed"}
Status         == {"queued", "retrying"} \cup TerminalStatus

EmptyQueue == [entries |-> [i \in {} |-> {}], nextId |-> 1]

Terminal(q) == {i \in DOMAIN q.entries : q.entries[i].status \in TerminalStatus}
Active(q)   == DOMAIN q.entries \ Terminal(q)

IsPending(e) == ~e.acked /\ e.status \in {"queued", "retrying"}

(* pendingActive(c): what a channel still has to send, due or not.          *)
Pending(q, c) == {i \in DOMAIN q.entries : q.entries[i].channel = c /\ IsPending(q.entries[i])}

(* Slip: list() called without pendingOnly.                                 *)
MutDueAnyStatus(q, c) == {i \in DOMAIN q.entries : q.entries[i].channel = c}

(* list(c): the part of it whose backoff has elapsed.                       *)
Due(q, c) == {i \in Pending(q, c) : q.entries[i].due}

HasCapacity(q) == Cardinality(Active(q)) < MaxActive

(* The members of S that come after entry i in the array.                   *)
After(q, S, i) == {j \in S : q.entries[j].at > q.entries[i].at}

(* Keep the entries S of the array, in their order.                         *)
Restricted(q, S) ==
  [q EXCEPT !.entries =
     [i \in S |-> [q.entries[i] EXCEPT !.at = Cardinality(S \ After(q, S, i))]]]

---------------------------------------------------------------------------
(* Slip: the newest go instead of the oldest.                               *)
MutOverflowNewest(q)   == {i \in Active(q) : Cardinality(Active(q) \ After(q, Active(q), i)) > MaxActive}

(* shedActive: drop the head of the active entries down to MaxActive.       *)
Overflow(q) == {i \in Active(q) : Cardinality(After(q, Active(q), i)) >= MaxActive}

ShedActive(q) == Restricted(q, DOMAIN q.entries \ Overflow(q))

Duplicate(q, key) ==
  \E i \in DOMAIN q.entries : q.entries[i].key = key /\ q.entries[i].status # "failed"

NewEntry(q, key, c, notice) ==
  [key |-> key, channel |-> c, notice |-> notice, status |-> "queued", acked |-> FALSE,
   attempts |-> 0, due |-> TRUE, at |-> Cardinality(DOMAIN q.entries) + 1]

Pushed(q, e) ==
  [entries |-> [i \in DOMAIN q.entries \cup {q.nextId} |->
                  IF i = q.nextId THEN e ELSE q.entries[i]],
   nextId  |-> q.nextId + 1]

(* enqueue: a reply whose key is held by an entry that has not failed is    *)
(* the same reply again and changes nothing.                                *)
Enqueue(q, key, c, notice) ==
  IF Duplicate(q, key) THEN q ELSE ShedActive(Pushed(q, NewEntry(q, key, c, notice)))

---------------------------------------------------------------------------
(* The last n terminal entries in array order (terminal.slice(-n)).         *)
LastTerminal(q, n) == {i \in Terminal(q) : Cardinality(After(q, Terminal(q), i)) < n}

(* prune: once there are too many terminal entries, keep the last ones and  *)
(* rebuild the array as [...active, ...terminal].                           *)
Prune(q) ==
  LET kept == Active(q) \cup LastTerminal(q, MaxTerminal)
      Before(i) == {j \in kept : IF i \in Terminal(q) /\ j \notin Terminal(q) THEN TRUE
                                 ELSE /\ i \in Terminal(q) <=> j \in Terminal(q)
                                      /\ q.entries[j].at < q.entries[i].at}
  IN  IF Cardinality(Terminal(q)) <= MaxTerminal THEN q
      ELSE [q EXCEPT !.entries =
              [i \in kept |-> [q.entries[i] EXCEPT !.at = Cardinality(Before(i)) + 1]]]

(* markDelivered (and ack, its other name).                                 *)
MarkDelivered(q, i) ==
  Prune([q EXCEPT !.entries[i] = [@ EXCEPT !.status = "delivered", !.acked = TRUE]])

(* markFailed before its prune: one more attempt; the last one is terminal. *)
(* The first failure is due again at once (backoffDelayMs(1) = 0).          *)
Attempted(q, i) ==
  LET n == q.entries[i].attempts + 1
  IN  [q EXCEPT !.entries[i] = [@ EXCEPT !.attempts = n,
                                         !.status   = IF n >= MaxAttempts THEN "failed" ELSE "retrying",
                                         !.due      = n <= 1 \/ n >= MaxAttempts]]

MarkFailed(q, i) ==
  LET q1 == Attempted(q, i)
  IN  IF q1.entries[i].status = "failed" THEN Prune(q1) ELSE q1

(* Whether that failure was the entry's last (onTerminalFailure is called). *)
FailsForGood(q, i) == q.entries[i].attempts + 1 >= MaxAttempts

---------------------------------------------------------------------------
(* persistSnapshot: every active entry and the last few terminal ones.      *)
PersistSnapshot(q) ==
  Restricted(q, Active(q) \cup LastTerminal(q, MaxPersisted)).entries

(* Slip: the largest id is reused.                                          *)
MutRestoredReuses(entries)  == [entries |-> entries, nextId |-> Max({0} \cup DOMAIN entries)]
(* The constructor on a restored array: ids go on after the largest found.  *)
Restored(entries) ==
  [entries |-> entries, nextId |-> Max({0} \cup DOMAIN entries) + 1]
=============================================================================
