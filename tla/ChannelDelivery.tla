-------------------------- MODULE ChannelDelivery --------------------------
(***************************************************************************)
(* The outbound path of one daemon: the shared queue, the runtimes that    *)
(* drain it (channels/base/runtime.js deliverQueued/_drainOnce), the host  *)
(* that enqueues and re-drains (server/state.js deliverIfPush,             *)
(* schedulePushRedrain, notifyDeliveryFailure), the HTTP acknowledgement,  *)
(* and the saved state a restart begins from.                              *)
(*                                                                         *)
(* A drain is cut at its awaits: the render of one reply, and the persist  *)
(* that ends a pass.  Everything between two awaits is one step, as it is  *)
(* on the event loop.                                                      *)
(***************************************************************************)
EXTENDS OutboundQueue

CONSTANTS
  PushChannels,   (* feishu, dingtalk, telegram: drained when told to         *)
  PollChannels,   (* wechat: drained by its own poll loop                     *)
  HostKeys,       (* dedupe keys of replies the host enqueues (Codex events)  *)
                  (* for conversations of push channels                       *)
  PollKeys,       (* and of poll channels                                     *)
  InboundKeys,    (* dedupe keys of replies an inbound message is answered by *)
  MaxId,          (* bound: no reply is enqueued once this id is handed out   *)
  MaxAcks,        (* bound: calls of the acknowledgement API                  *)
  MaxRestarts,    (* bound: crashes of the daemon                             *)
  MaxRebinds,     (* bound: drivers taken away from a channel or given to one *)
  NotSaving       (* no save is outstanding                                   *)

ASSUME BoundAssumption == {MaxId, MaxAcks, MaxRestarts, MaxRebinds} \subseteq Nat

Channels == PushChannels \cup PollChannels

VARIABLES
  q,              (* the OutboundQueue                                        *)
  drains,         (* the runs of deliverQueued that are under way             *)
  delivering,     (* channels whose _delivering is set                        *)
  deliverPending, (* channels whose _deliverPending is set                    *)
  timers,         (* channels with an armed re-drain timer (pushRedrainTimers)*)
  bound,          (* channels whose runtime has a driver                      *)
  polling,        (* channels in a pollOnce that has yet to drain (_polling)  *)
  saving,         (* the snapshot handed to the state store and not written   *)
  disk,           (* the outbound replies in state.json                       *)
  sent, resent,   (* history: ids the channel accepted, and accepted twice,   *)
                  (* since the daemon started                                 *)
  acks, restarts, rebinds (* history: how much of the bounds is used up       *)

vars == <<q, drains, delivering, deliverPending, timers, bound, polling, saving, disk,
          sent, resent, acks, restarts, rebinds>>

queueVars  == <<q, sent, resent>>
drainVars  == <<drains, delivering, deliverPending, timers>>
storeVars  == <<saving, disk>>
linkVars   == <<bound, polling>>
boundVars  == <<acks, restarts, rebinds>>

KeysOf(c)    == IF c \in PushChannels THEN HostKeys ELSE PollKeys
NoticeKey(i) == <<"deliveryfail", i>>

Init ==
  /\ q = EmptyQueue
  /\ drains = {} /\ delivering = {} /\ deliverPending = {} /\ timers = {}
  /\ saving = NotSaving /\ disk = EmptyQueue.entries
  /\ bound \in SUBSET Channels /\ polling = {}
  /\ sent = {} /\ resent = {} /\ acks = 0 /\ restarts = 0 /\ rebinds = 0

---------------------------------------------------------------------------
(* A drain walks the snapshot list() gave it: "render" awaits the render of *)
(* "current", "persist" awaits the save that ends the pass and "settled"    *)
(* has that save behind it.  "rearm" tells a drain started by deliverIfPush,*)
(* which schedules a re-drain when it ends, from one nobody follows up.     *)
At(d, todo) ==
  IF todo = {} THEN [d EXCEPT !.stage = "persist", !.todo = {}, !.current = 0]
               ELSE [d EXCEPT !.stage = "render", !.todo = todo \ {Min(todo)}, !.current = Min(todo)]

StartedDrain(c, rearm, todo) ==
  At([channel |-> c, rearm |-> rearm, stage |-> "persist", todo |-> {}, current |-> 0], todo)

(* The store is asked to save when a pass has nothing left to render; else  *)
(* the save under way stays.                                                *)
SavedBy(d, qNew, save) == IF d.stage = "persist" THEN PersistSnapshot(qNew) ELSE save


(* schedulePushRedrain: arm the channel's one timer if anything is pending. *)
Scheduled(armed, c, qNew) ==
  IF c \in PushChannels /\ Pending(qNew, c) # {} THEN armed \cup {c} ELSE armed

(* Slip: no _delivering check.                                              *)
MutDeliverUnguarded(c, rearm, qNew, armed, save) ==
  LET d == StartedDrain(c, rearm, Due(qNew, c))
  IN  /\ delivering' = delivering \cup {c}
      /\ deliverPending' = deliverPending \ {c}
      /\ drains' = drains \cup {d}
      /\ saving' = SavedBy(d, qNew, save)
      /\ timers' = armed

(* deliverQueued on the queue value qNew, with armed the timers and save    *)
(* the save under way before it: without a driver it throws, a drain already*)
(* under way is told to run another pass, otherwise one starts.             *)
DeliverQueued(c, rearm, qNew, armed, save) ==
  IF c \notin bound \/ c \in delivering
  THEN /\ deliverPending' = IF c \in bound THEN deliverPending \cup {c} ELSE deliverPending
       /\ timers' = IF rearm THEN Scheduled(armed, c, qNew) ELSE armed
       /\ saving' = save
       /\ UNCHANGED <<drains, delivering>>
  ELSE LET d == StartedDrain(c, rearm, Due(qNew, c))
       IN  /\ delivering' = delivering \cup {c}
           /\ deliverPending' = deliverPending \ {c}
           /\ drains' = drains \cup {d}
           /\ saving' = SavedBy(d, qNew, save)
           /\ timers' = armed

(* deliverQueued settles, by return or by throw: _delivering is cleared and *)
(* deliverIfPush goes on to schedule the re-drain.                          *)
Ended(d, qNew, armed) ==
  /\ drains' = drains \ {d}
  /\ delivering' = delivering \ {d.channel}
  /\ timers' = IF d.rearm THEN Scheduled(armed, d.channel, qNew) ELSE armed

(* The drain goes on with the rest of its snapshot.                         *)
Continues(d, qNew, armed) ==
  LET next == At(d, d.todo)
  IN  /\ drains' = (drains \ {d}) \cup {next}
      /\ saving' = SavedBy(next, qNew, saving)
      /\ timers' = armed
      /\ UNCHANGED delivering

---------------------------------------------------------------------------
(* A Codex event is turned into a reply: enqueue, then deliverIfPush, which *)
(* does nothing on a channel that polls, and persistInBackground.           *)
HostReply(c, k) ==
  /\ q.nextId <= MaxId
  /\ q' = Enqueue(q, k, c, FALSE)
  /\ IF c \in PushChannels
     THEN DeliverQueued(c, TRUE, q', timers, PersistSnapshot(q'))
     ELSE saving' = PersistSnapshot(q') /\ UNCHANGED drainVars
  /\ UNCHANGED <<disk, sent, resent, linkVars, boundVars>>

(* A message of a push channel is handled: the adapter enqueues its answer, *)
(* and the runtime drains the queue itself (runtime.handleInbound).  In a   *)
(* poll the answer waits for the poll's own drain.                          *)
InboundReply(c, k) ==
  /\ q.nextId <= MaxId
  /\ q' = Enqueue(q, k, c, FALSE)
  /\ IF c \in PushChannels
     THEN DeliverQueued(c, FALSE, q', timers, saving)
     ELSE c \in polling \ delivering /\ UNCHANGED <<drainVars, saving>>
  /\ UNCHANGED <<disk, sent, resent, linkVars, boundVars>>

(* The interval ticks: pollOnce asks the platform.  Without a driver it     *)
(* throws; _polling keeps the next tick away until its last drain has ended.*)
PollTick(c) ==
  /\ c \in bound \ (polling \cup delivering)
  /\ polling' = polling \cup {c}
  /\ UNCHANGED <<queueVars, drainVars, bound, storeVars, boundVars>>

(* The fetch is refused or an update cannot be read: nothing is drained.    *)
PollFails(c) ==
  /\ c \in polling \ delivering
  /\ polling' = polling \ {c}
  /\ UNCHANGED <<queueVars, drainVars, bound, storeVars, boundVars>>

(* pollOnce reaches a deliverQueued: that of a fallback, or its last one.   *)
PollDrains(c) ==
  /\ c \in polling \ delivering
  /\ polling' \in {polling, polling \ {c}}
  /\ DeliverQueued(c, FALSE, q, timers, saving)
  /\ UNCHANGED <<queueVars, bound, disk, boundVars>>

(* The armed timer fires.                                                   *)
TimerFires(c) ==
  /\ c \in timers
  /\ DeliverQueued(c, TRUE, q, timers \ {c}, saving)
  /\ UNCHANGED <<queueVars, linkVars, disk, boundVars>>

(* The channel is configured: its driver goes, or it gets one (see          *)
(* ChannelBinding); what is under way goes on.                              *)
Rebinds(c) ==
  /\ rebinds < MaxRebinds /\ rebinds' = rebinds + 1
  /\ bound' = IF c \in bound THEN bound \ {c} ELSE bound \cup {c}
  /\ UNCHANGED <<queueVars, drainVars, polling, storeVars, acks, restarts>>

(* The channel accepted the reply: mark it delivered.  An entry that left   *)
(* the queue during the await makes markDelivered throw, then the handler's *)
(* own markFailed, and with it the whole drain.  A render begun without a   *)
(* driver can only fail, which is not told apart here.                      *)
RenderOk(d) ==
  /\ d.stage = "render"
  /\ sent' = sent \cup {d.current}
  /\ resent' = resent \cup ({d.current} \cap sent)
  /\ IF d.current \in DOMAIN q.entries
     THEN q' = MarkDelivered(q, d.current) /\ Continues(d, q', timers)
     ELSE Ended(d, q, timers) /\ UNCHANGED <<q, saving>>
  /\ UNCHANGED <<deliverPending, disk, linkVars, boundVars>>

(* notifyDeliveryFailure: a reply given up for good leaves one notice in    *)
(* its conversation, unless it is itself a notice or the queue is full.     *)
Notifies(i, qNew) ==
  FailsForGood(q, i) /\ ~q.entries[i].notice /\ HasCapacity(qNew)

RenderFails(d) ==
  /\ d.stage = "render"
  /\ LET i  == d.current
         c  == d.channel
         q1 == MarkFailed(q, i)
     IN  \/ /\ i \notin DOMAIN q.entries
            /\ Ended(d, q, timers)
            /\ UNCHANGED <<q, saving, deliverPending>>
         \/ /\ i \in DOMAIN q.entries
            /\ ~Notifies(i, q1)
            /\ q' = q1
            /\ Continues(d, q', timers)
            /\ UNCHANGED deliverPending
         \/ /\ i \in DOMAIN q.entries
            /\ Notifies(i, q1)
            /\ q' = Enqueue(q1, NoticeKey(i), c, TRUE)
            /\ Continues(d, q', Scheduled(timers, c, q'))
            /\ deliverPending' = IF c \in PushChannels \cap bound THEN deliverPending \cup {c}
                                                               ELSE deliverPending
  /\ UNCHANGED <<sent, resent, disk, linkVars, boundVars>>

(* The pass is over.  A delivery asked for meanwhile starts another one.    *)
PassEnds(d) ==
  /\ d.stage = "settled"
  /\ IF d.channel \in deliverPending
     THEN LET next == At(d, Due(q, d.channel))
          IN  /\ deliverPending' = deliverPending \ {d.channel}
              /\ drains' = (drains \ {d}) \cup {next}
              /\ saving' = SavedBy(next, q, saving)
              /\ UNCHANGED <<delivering, timers>>
     ELSE Ended(d, q, timers) /\ UNCHANGED <<deliverPending, saving>>
  /\ UNCHANGED <<queueVars, disk, linkVars, boundVars>>

(* nextAttemptAt of a backed-off retry passes.                              *)
BackoffElapses(i) ==
  /\ ~q.entries[i].due
  /\ q' = [q EXCEPT !.entries[i].due = TRUE]
  /\ UNCHANGED <<sent, resent, drainVars, linkVars, storeVars, boundVars>>

(* POST outbound/:id/ack, then persist.                                     *)
Ack(i) ==
  /\ acks < MaxAcks
  /\ q' = MarkDelivered(q, i)
  /\ saving' = PersistSnapshot(q')
  /\ acks' = acks + 1
  /\ UNCHANGED <<sent, resent, drainVars, linkVars, disk, restarts, rebinds>>

---------------------------------------------------------------------------
(* The state store writes the latest snapshot it was handed; every drain    *)
(* that awaits the save goes on, or, if the write fails, throws.  Only a    *)
(* restart reads the file, so it is not followed beyond the last one.       *)
Awaiting == {d \in drains : d.stage = "persist"}

(* Channels for which deliverIfPush, rejected with one of them, schedules.  *)
AwaitingToRearm ==
  {c \in PushChannels : Pending(q, c) # {} /\ \E d \in Awaiting : d.channel = c /\ d.rearm}

WriteState ==
  /\ saving # NotSaving
  /\ disk' = IF restarts < MaxRestarts THEN saving ELSE disk
  /\ saving' = NotSaving
  /\ drains' = (drains \ Awaiting) \cup {[d EXCEPT !.stage = "settled"] : d \in Awaiting}
  /\ UNCHANGED <<queueVars, delivering, deliverPending, timers, linkVars, boundVars>>

WriteFails ==
  /\ saving # NotSaving
  /\ saving' = NotSaving
  /\ drains' = drains \ Awaiting
  /\ delivering' = delivering \ {d.channel : d \in Awaiting}
  /\ timers' = timers \cup AwaitingToRearm
  /\ UNCHANGED <<queueVars, deliverPending, disk, linkVars, boundVars>>

(* The daemon dies and comes back with what state.json holds.               *)
Restart ==
  /\ restarts < MaxRestarts
  /\ restarts' = restarts + 1
  /\ q' = Restored(disk)
  /\ drains' = {} /\ delivering' = {} /\ deliverPending' = {} /\ timers' = {}
  /\ saving' = NotSaving /\ polling' = {}
  /\ sent' = {} /\ resent' = {}
  /\ UNCHANGED <<disk, bound, acks, rebinds>>

---------------------------------------------------------------------------
Next ==
  \/ \E c \in Channels : \E k \in KeysOf(c) : HostReply(c, k)
  \/ \E c \in Channels, k \in InboundKeys : InboundReply(c, k)
  \/ \E c \in PollChannels : PollTick(c) \/ PollFails(c) \/ PollDrains(c)
  \/ \E c \in Channels : Rebinds(c)
  \/ \E c \in PushChannels : TimerFires(c)
  \/ \E d \in drains : RenderOk(d) \/ RenderFails(d) \/ PassEnds(d)
  \/ \E i \in DOMAIN q.entries : BackoffElapses(i) \/ Ack(i)
  \/ WriteState \/ WriteFails \/ Restart

Spec == Init /\ [][Next]_vars

---------------------------------------------------------------------------
(* Fairness the scheduling justifies: a send either succeeds or fails (the  *)
(* drivers time out), a settled promise is continued, the store's write     *)
(* ends, an armed timer fires, the poll interval ticks, a poll ends and time*)
(* passes; and a platform that is polled again and again answers in the end.*)
(* Nothing makes the host, a user, a setting or the API do anything.        *)
Ids == 1 .. 2 * MaxId + 1

DrainStep(c) ==
  \E d \in drains : d.channel = c /\ (RenderOk(d) \/ RenderFails(d) \/ PassEnds(d))

Fairness ==
  /\ \A c \in Channels : WF_vars(DrainStep(c))
  /\ WF_vars(WriteState \/ WriteFails)
  /\ \A c \in PushChannels : WF_vars(TimerFires(c))
  /\ \A c \in PollChannels : /\ WF_vars(PollTick(c))
                             /\ WF_vars(PollFails(c) \/ PollDrains(c))
                             /\ SF_vars(PollDrains(c))
  /\ \A i \in Ids : WF_vars(i \in DOMAIN q.entries /\ BackoffElapses(i))

FairSpec == Spec /\ Fairness

---------------------------------------------------------------------------
(* A notice is about a reply that was enqueued before it, and an outcome    *)
(* never comes without the bookkeeping that goes with it.                   *)
IsEntry(n, e) ==
  /\ e = [key |-> e.key, channel |-> e.channel, notice |-> e.notice, status |-> e.status,
          acked |-> e.acked, attempts |-> e.attempts, due |-> e.due, at |-> e.at]
  /\ IF e.notice THEN \E i \in 1 .. n - 1 : e.key = NoticeKey(i)
                 ELSE e.key \in HostKeys \cup PollKeys \cup InboundKeys
  /\ e.channel \in Channels /\ e.status \in Status
  /\ {e.notice, e.acked, e.due} \subseteq BOOLEAN
  /\ {e.attempts, e.at} \subseteq Nat
  /\ e.status = "delivered" => e.acked
  /\ e.status = "failed" => e.attempts >= MaxAttempts

(* Entries with ids below n.                                                *)
IsEntries(es, n) ==
  /\ es = [i \in DOMAIN es |-> es[i]]
  /\ DOMAIN es \subseteq 1 .. n - 1
  /\ \A i \in DOMAIN es : IsEntry(i, es[i])

IsQueue(x) ==
  /\ x = [entries |-> x.entries, nextId |-> x.nextId]
  /\ x.nextId \in Nat \ {0}
  /\ IsEntries(x.entries, x.nextId)

Drain == [channel: Channels, rearm: BOOLEAN, stage: {"render", "persist", "settled"},
          todo: SUBSET (Nat \ {0}), current: Nat]

(* Every variable has its type, and an id is never handed out twice: the    *)
(* next one is beyond every id in the queue, in a save and on disk.         *)
TypeOK ==
  /\ IsQueue(q)
  /\ drains \subseteq Drain
  /\ delivering \subseteq Channels
  /\ deliverPending \subseteq Channels
  /\ timers \subseteq PushChannels
  /\ bound \subseteq Channels /\ polling \subseteq PollChannels
  /\ saving # NotSaving => IsEntries(saving, q.nextId)
  /\ IsEntries(disk, q.nextId)
  /\ sent \subseteq Nat /\ resent \subseteq sent
  /\ acks \in 0 .. MaxAcks /\ restarts \in 0 .. MaxRestarts /\ rebinds \in 0 .. MaxRebinds

(* deliverQueued is re-entered by events, timers, polls and the API while   *)
(* it awaits: a channel still has at most one drain, and _delivering says   *)
(* exactly when.                                                            *)
OneDrainPerChannel ==
  /\ \A d, e \in drains : d.channel = e.channel => d = e
  /\ delivering = {d.channel : d \in drains}

(* "a reply is never double-sent" (base/runtime.js:6): within one life of   *)
(* the daemon no entry is accepted by its channel twice, whatever           *)
(* acknowledgements, shedding and failures happen during its render.        *)
NeverDoubleSent == resent = {}

(* A reply nobody decided leaves the queue only because a reply (never a    *)
(* failure notice) was enqueued into a full queue, and then no older one    *)
(* stays (shedActive; notifyDeliveryFailure's capacity check).  The one a   *)
(* drain has just decided may be pruned at once, and the one just enqueued  *)
(* is never the one shed.                                                   *)
AddsNotice    == \E n \in DOMAIN q'.entries \ DOMAIN q.entries : q'.entries[n].notice
JustDecided(i) == \E d \in drains \ drains' : d.stage = "render" /\ d.current = i

ShedsOnlyTheOldest ==
  [][restarts' = restarts /\ acks' = acks =>
       /\ q'.nextId > q.nextId => q.nextId \in DOMAIN q'.entries
       /\ \A i \in Active(q) \ DOMAIN q'.entries :
            \/ JustDecided(i)
            \/ /\ Cardinality(Active(q)) >= MaxActive
               /\ \A j \in Active(q) \cap DOMAIN q'.entries : q.entries[j].at > q.entries[i].at
               /\ ~AddsNotice]_vars

(* A reply owed: not acknowledged, on a channel that has a driver, and, on a*)
(* push channel, not the answer to a message, which the code does not drain *)
(* again by itself once it has failed.                                      *)
Owed(i) ==
  \E c \in bound : /\ i \in Pending(q, c)
                   /\ c \in PushChannels => q.entries[i].key \notin InboundKeys


FateOf(i) ==
  IF i >= q.nextId THEN "none"
  ELSE IF i \notin DOMAIN q.entries THEN "gone"
  ELSE IF i \in Active(q) THEN "pending" ELSE q.entries[i].status

Contract == INSTANCE ReplyContract WITH fate <- [i \in Ids |-> FateOf(i)]

(* The queue, its drains and its timers keep the contract of each reply     *)
(* (ReplyContract) up to the first acknowledgement, which decides a reply   *)
(* from outside, and the first restart, which forgets what is not saved.    *)
KeepsContract ==
  Contract!Init /\ [][acks' = 0 /\ restarts' = 0 => [Contract!Next]_(Contract!vars)]_vars
=============================================================================
