----------------------------- MODULE TurnRouting -----------------------------
(***************************************************************************)
(* How the daemon follows Codex turns (server/state.js routeDesktopEvent): *)
(* the per-thread turn nonce and the dedupe keys made from it, milestones  *)
(* and the heartbeat of a card-less channel, the live card of a channel    *)
(* that has one, the delivery of a turn's changed files, and the guard     *)
(* that keeps the machine awake.                                           *)
(*                                                                         *)
(* What happens to an enqueued reply afterwards is ChannelDelivery's; here *)
(* the queue is the dedupe keys it holds, none forgotten.  Progress lines, *)
(* whose keys carry the clock, approvals and renamed threads are left out. *)
(***************************************************************************)
EXTENDS LiveCard, Sequences, SequencesExt

CONSTANTS
  Labels,       (* what a milestone can be about                             *)
  NoLabel,      (* no milestone                                              *)
  NoWatch,      (* no milestone state                                        *)
  MaxPerTurn,   (* msMaxPerTurn: milestones delivered in one turn            *)
  MaxTurns,     (* bound: turns of one thread                                *)
  MaxIncidents  (* bound: errors, lost connections, restarts of the daemon   *)
                (* and threads bound to another conversation, together       *)

(* Milestone state, what a watched turn has: see NewWatch.                   *)
Watches == [turn : Nat, seq : Nat, last : Labels \cup {NoLabel}, recent : BOOLEAN,
            pending : Labels \cup {NoLabel}, flush : BOOLEAN, beating : BOOLEAN,
            beatSent : BOOLEAN]

ASSUME RoutingAssumption ==
  /\ NoLabel \notin Labels /\ NoWatch \notin Watches
  /\ MaxPerTurn \in Nat \ {0}
  /\ {MaxTurns, MaxIncidents} \subseteq Nat

VARIABLES
  channel,      (* the kind of channel a thread's binding leads to           *)
  running,      (* whether Codex is running a turn of the thread             *)
  turns,        (* history: how many it has started                          *)
  nonce,        (* turnNonceByThread, 0 where it has no entry                *)
  watch,        (* milestoneByThread                                         *)
  filesDone,    (* changedFilesDeliveredThreads                              *)
  awake,        (* sleepGuard.active                                         *)
  planning,     (* deliverChangedFilesAndFinish awaiting its plan            *)
  out,          (* the queue: keys held, and (history) replies it dropped    *)
  filed, filedTwice,   (* history: turns whose files went out, and again     *)
  erred,        (* history: turns that reported an error                     *)
  late,         (* history: cards that opened when their turn was done       *)
  unnamed,      (* threads whose turn sent a message without an item id      *)
  incidents     (* history: the incidents so far, see Incident               *)

routeVars == <<nonce, watch, filesDone, awake, planning, out, filed, filedTwice>>
envVars   == <<channel, running, turns, erred, late, unnamed, incidents>>
vars      == <<routeVars, envVars, cardVars>>

(* "card": live cards; "text": milestones by design (wechat); "degraded": a *)
(* card channel that cannot render them now; "none": an unbound thread.     *)
Channel == {"none", "card", "text", "degraded"}

Turn(t)               == <<t, turns[t]>>
LiveCards(t)          == channel[t] = "card"
MilestonesEnabled(t)  == channel[t] \in {"text", "degraded"}

Init ==
  /\ CardInit
  /\ channel \in [Threads -> Channel]
  /\ running = [t \in Threads |-> FALSE]
  /\ turns = [t \in Threads |-> 0]
  /\ nonce = [t \in Threads |-> 0]
  /\ watch = [t \in Threads |-> NoWatch]
  /\ filesDone = {} /\ awake = {} /\ planning = {}
  /\ out = [keys |-> {}, dropped |-> {}]
  /\ filed = {} /\ filedTwice = {} /\ erred = {} /\ late = {} /\ unnamed = {}
  /\ incidents = <<>>

(* What seldom happens, counted together to bound it.                       *)
Incident(kind) ==
  /\ Len(incidents) < MaxIncidents
  /\ incidents' = Append(incidents, kind)

---------------------------------------------------------------------------
(* Dedupe keys.  Item ids are Codex's own: unique to a thread's turn.       *)
Key(kind, t, n, seq) == [kind |-> kind, thread |-> t, turn |-> n, seq |-> seq]

AgentDedupeKey(t, n, item) ==
  IF item = 0 THEN Key("agent", t, nonce[t], 0) ELSE Key("item", t, n, item)

(* enqueue a reply of the thread's n-th turn: dropped if its key is held.   *)
Enqueue(o, key, n) ==
  IF \E h \in o.keys : h.key = key
  THEN [o EXCEPT !.dropped = @ \cup {[key |-> key, turn |-> n, by |-> h.turn] :
                                        h \in {x \in o.keys : x.key = key /\ x.turn # n}}]
  ELSE [o EXCEPT !.keys = @ \cup {[key |-> key, turn |-> n]}]

Files(turn) ==
  /\ filed' = filed \cup {turn}
  /\ filedTwice' = filedTwice \cup ({turn} \cap filed)

---------------------------------------------------------------------------
(* Milestone state is a record w, changed together with the queue o.        *)
NewWatch(t, n) ==
  [turn |-> n, seq |-> 0, last |-> NoLabel, recent |-> FALSE, pending |-> NoLabel,
   flush |-> FALSE, beating |-> MilestonesEnabled(t), beatSent |-> FALSE]

(* Slip: the timer is not armed.                                            *)
MutCoalescedNoTimer(w, label) == [w EXCEPT !.pending = label]

(* Inside the interval only the latest is kept, behind one flush timer.     *)
Coalesced(w, label) == [w EXCEPT !.pending = label, !.flush = TRUE]

DeliverMilestone(t, w, o, label) ==
  [w |-> [w EXCEPT !.seq = @ + 1, !.last = label, !.recent = TRUE, !.beatSent = FALSE],
   o |-> Enqueue(o, Key("ms", t, w.turn, w.seq + 1), turns[t])]

FlushPendingMilestone(t, w, o) ==
  LET w1 == [w EXCEPT !.pending = NoLabel]
  IN  IF w.pending = NoLabel \/ w.seq >= MaxPerTurn \/ ~MilestonesEnabled(t)
      THEN [w |-> w1, o |-> o] ELSE DeliverMilestone(t, w1, o, w.pending)

(* The queue after teardownMilestoneState of the threads ts: what was still *)
(* pending has gone out.                                                    *)
Residue(ts, o) ==
  LET after == {FlushPendingMilestone(t, watch[t], o).o : t \in {x \in ts : watch[x] # NoWatch}}
  IN  [keys    |-> o.keys \cup UNION {x.keys : x \in after},
       dropped |-> o.dropped \cup UNION {x.dropped : x \in after}]

Without(ts) == [t \in Threads |-> IF t \in ts THEN NoWatch ELSE watch[t]]

---------------------------------------------------------------------------
(* Slip: the nonce is left alone.                                           *)
MutStartedSameNonce(t) ==
  /\ ~running[t] /\ turns[t] < MaxTurns
  /\ running' = [running EXCEPT ![t] = TRUE]
  /\ turns' = [turns EXCEPT ![t] = @ + 1]
  /\ unnamed' = unnamed \ {t}
  /\ filesDone' = filesDone \ {t}
  /\ watch' = [watch EXCEPT ![t] = NewWatch(t, nonce[t])]
  /\ awake' = awake \cup {t}
  /\ opening' = IF LiveCards(t) THEN opening \cup {<<t, turns[t] + 1>>} ELSE opening
  /\ UNCHANGED <<nonce, out, planning, filed, filedTwice, channel, erred, late, incidents,
                 cards, patches, shown, detached>>

TurnStarted(t) ==
  /\ ~running[t] /\ turns[t] < MaxTurns
  /\ running' = [running EXCEPT ![t] = TRUE]
  /\ turns' = [turns EXCEPT ![t] = @ + 1]
  /\ unnamed' = unnamed \ {t}
  /\ filesDone' = filesDone \ {t}
  /\ nonce' = [nonce EXCEPT ![t] = @ + 1]
  /\ watch' = [watch EXCEPT ![t] = NewWatch(t, nonce'[t])]
  /\ awake' = awake \cup {t}
  /\ opening' = IF LiveCards(t) THEN opening \cup {<<t, turns'[t]>>} ELSE opening
  /\ out' = LET o == Residue({t}, out)
            IN  IF channel[t] = "degraded"
                THEN Enqueue(o, Key("turnstart", t, nonce'[t], 0), turns'[t]) ELSE o
  /\ UNCHANGED <<planning, filed, filedTwice, channel, erred, late, incidents,
                 cards, patches, shown, detached>>

(* A card still there was not claimed by a message: it is finished here,    *)
(* with the turn's files on it.                                             *)
TurnCompleted(t) ==
  /\ running[t]
  /\ running' = [running EXCEPT ![t] = FALSE]
  /\ out' = Residue({t}, out) /\ watch' = Without({t})
  /\ filesDone' = filesDone \ {t} /\ awake' = awake \ {t}
  /\ FinishThreadCards(IF LiveCards(t) THEN {t} ELSE {})
  /\ IF LiveCards(t) /\ HasThreadCard(t) THEN Files(Turn(t)) ELSE UNCHANGED <<filed, filedTwice>>
  /\ UNCHANGED <<nonce, planning, channel, turns, erred, late, unnamed, incidents>>

(* Slip: the guard is released by turnCompleted only.                       *)
MutErrorKeepsAwake(t) ==
  /\ running[t]
  /\ Incident("error")
  /\ erred' = erred \cup {Turn(t)}
  /\ out' = Residue({t}, out) /\ watch' = Without({t})
  /\ filesDone' = filesDone \ {t} /\ awake' = awake
  /\ FinishThreadCards(IF LiveCards(t) THEN {t} ELSE {})
  /\ UNCHANGED <<nonce, planning, filed, filedTwice, channel, running, turns, late, unnamed>>

(* An error is taken for the end of the turn.  Codex may go on: whether an  *)
(* error ends a turn is not in the notification, and a turn it ends is      *)
(* reported completed or loses the connection (codex-desktop/index.js:341). *)
(* Its text reply has the clock in its key and is not looked at here.       *)
TurnError(t) ==
  /\ running[t]
  /\ Incident("error")
  /\ erred' = erred \cup {Turn(t)}
  /\ out' = Residue({t}, out) /\ watch' = Without({t})
  /\ filesDone' = filesDone \ {t} /\ awake' = awake \ {t}
  /\ FinishThreadCards(IF LiveCards(t) THEN {t} ELSE {})
  /\ UNCHANGED <<nonce, planning, filed, filedTwice, channel, running, turns, late, unnamed>>

(* Threads without a card are told, as no other event of their turn comes.  *)
Noticed == {t \in Threads : watch[t] # NoWatch /\ MilestonesEnabled(t)}

NotifyDisconnectToCardlessThreads(o) ==
  LET told == {Enqueue(o, Key("disconnect", t, nonce[t], 0), turns[t]) : t \in Noticed}
  IN  [keys    |-> o.keys \cup UNION {x.keys : x \in told},
       dropped |-> o.dropped \cup UNION {x.dropped : x \in told}]

FinishAllLiveCards == FinishThreadCards(Threads)

(* Every card is closed and what is kept per turn is cleared, the nonces    *)
(* too; the notices go out while the watched threads are still known.       *)
FinishLiveCardsForDisconnect ==
  /\ out' = Residue(Threads, NotifyDisconnectToCardlessThreads(out))
  /\ FinishAllLiveCards
  /\ filesDone' = {}
  /\ watch' = Without(Threads)
  /\ nonce' = [t \in Threads |-> 0]

(* connectionLost, and connectionGaveUp after it: the turns are gone with   *)
(* the app-server.                                                          *)
ConnectionLost ==
  /\ Incident("drop")
  /\ running' = [t \in Threads |-> FALSE]
  /\ awake' = {}
  /\ FinishLiveCardsForDisconnect
  /\ UNCHANGED <<planning, filed, filedTwice, channel, turns, erred, late, unnamed>>

---------------------------------------------------------------------------
(* The gates of a milestone: the cap, one like the last one delivered, and  *)
(* the interval, inside which only the latest is kept behind a timer.       *)
Milestone(t, label) ==
  /\ running[t]
  /\ watch[t] # NoWatch /\ MilestonesEnabled(t) /\ watch[t].seq < MaxPerTurn
  /\ label # watch[t].last
  /\ LET w == watch[t]
         delivered == DeliverMilestone(t, w, out, label)
     IN  IF w.recent
         THEN watch' = [watch EXCEPT ![t] = Coalesced(w, label)] /\ UNCHANGED out
         ELSE watch' = [watch EXCEPT ![t] = delivered.w] /\ out' = delivered.o
  /\ UNCHANGED <<nonce, filesDone, awake, planning, filed, filedTwice, envVars, cardVars>>

FlushTimer(t) ==
  /\ watch[t] # NoWatch /\ watch[t].flush
  /\ LET flushed == FlushPendingMilestone(t, [watch[t] EXCEPT !.flush = FALSE], out)
     IN  watch' = [watch EXCEPT ![t] = flushed.w] /\ out' = flushed.o
  /\ UNCHANGED <<nonce, filesDone, awake, planning, filed, filedTwice, envVars, cardVars>>

(* The minimum interval passes; the timer it armed may still be to come.    *)
IntervalElapses(t) ==
  /\ watch[t] # NoWatch /\ watch[t].recent
  /\ watch' = [watch EXCEPT ![t] = [@ EXCEPT !.recent = FALSE]]
  /\ UNCHANGED <<nonce, filesDone, awake, planning, out, filed, filedTwice, envVars, cardVars>>

(* The heartbeat's interval comes round in a quiet stretch.                 *)
RunHeartbeat(t) ==
  /\ watch[t] # NoWatch /\ watch[t].beating /\ ~watch[t].beatSent /\ MilestonesEnabled(t)
  /\ watch' = [watch EXCEPT ![t] = [@ EXCEPT !.beatSent = TRUE]]
  /\ out' = Enqueue(out, Key("heartbeat", t, watch[t].turn, watch[t].seq), turns[t])
  /\ UNCHANGED <<nonce, filesDone, awake, planning, filed, filedTwice, envVars, cardVars>>

---------------------------------------------------------------------------
(* A final message (item 0: Codex left its id out).  On a card channel the  *)
(* first of a turn claims the card at once and starts the delivery of the   *)
(* changed files; any other is a text reply.                                *)
Says(t, item) ==
  /\ running[t]
  /\ item = 0 => t \notin unnamed
  /\ unnamed' = IF item = 0 THEN unnamed \cup {t} ELSE unnamed

MessageAsText(t, item) ==
  /\ Says(t, item)
  /\ channel[t] # "none"
  /\ ~LiveCards(t) \/ t \in filesDone
  /\ out' = Enqueue(out, AgentDedupeKey(t, turns[t], item), turns[t])
  /\ UNCHANGED <<nonce, watch, filesDone, awake, planning, filed, filedTwice,
                 channel, running, turns, erred, late, incidents, cardVars>>

(* Slip: the turn is not marked.                                            *)
MutMessageUnmarked(t, item) ==
  /\ Says(t, item)
  /\ LiveCards(t)
  /\ planning' = planning \cup {[thread |-> t, turn |-> turns[t], item |-> item,
                                 card |-> IF HasThreadCard(t) THEN cards[t].card ELSE NoCard]}
  /\ Detach({t})
  /\ UNCHANGED <<nonce, watch, filesDone, awake, out, filed, filedTwice,
                 channel, running, turns, erred, late, incidents, opening, patches, shown>>

MessageClaimsCard(t, item) ==
  /\ Says(t, item)
  /\ LiveCards(t) /\ t \notin filesDone
  /\ filesDone' = filesDone \cup {t}
  /\ planning' = planning \cup {[thread |-> t, turn |-> turns[t], item |-> item,
                                 card |-> IF HasThreadCard(t) THEN cards[t].card ELSE NoCard]}
  /\ Detach({t})
  /\ UNCHANGED <<nonce, watch, awake, out, filed, filedTwice,
                 channel, running, turns, erred, late, incidents, opening, patches, shown>>

(* deliverChangedFilesAndFinish after its plan: the files are enqueued, and *)
(* the final card is sent to the session claimed, or text if there is none. *)
Fallback(r) == Enqueue(out, AgentDedupeKey(r.thread, r.turn, r.item), r.turn)

DeliverChangedFiles(j) ==
  /\ planning' = planning \ {j}
  /\ Files(<<j.thread, j.turn>>)
  /\ LET reply == [thread |-> j.thread, turn |-> j.turn, item |-> j.item]
     IN  IF j.card = NoCard
         THEN out' = Fallback(reply) /\ UNCHANGED patches
         ELSE patches' = patches \cup {Patch(j.card, TRUE, reply)} /\ UNCHANGED out
  /\ UNCHANGED <<nonce, watch, filesDone, awake, envVars, cards, opening, shown, detached>>

---------------------------------------------------------------------------
(* The card requests, as they are answered, and the card's throttle.        *)
OpenSettles(c) ==
  \/ /\ CardOpened(c)
     /\ late' = IF running[c[1]] /\ Turn(c[1]) = c /\ c[1] \notin filesDone THEN late ELSE late \cup {c}
     /\ UNCHANGED <<routeVars, channel, running, turns, erred, unnamed, incidents>>
  \/ OpenFails(c) /\ UNCHANGED <<routeVars, envVars>>

(* progress and agentMessageDelta on a card channel.                        *)
CardEvent(t) ==
  /\ running[t] /\ LiveCards(t)
  /\ UpdateThreadCard(t)
  /\ UNCHANGED <<routeVars, envVars>>

FlushCard(t) == FlushThreadCard(t) /\ UNCHANGED <<routeVars, envVars>>

PatchSettles(p) ==
  \/ PatchLands(p) /\ UNCHANGED <<routeVars, envVars>>
  \/ /\ PatchFails(p)
     /\ out' = IF p.reply = NoReply THEN out ELSE Fallback(p.reply)
     /\ UNCHANGED <<nonce, watch, filesDone, awake, planning, filed, filedTwice, envVars>>

(* Another conversation takes the thread over.                              *)
Rebind(t, k) ==
  /\ Incident("bind")
  /\ k \in Channel \ {channel[t], "none"}
  /\ channel' = [channel EXCEPT ![t] = k]
  /\ UNCHANGED <<routeVars, running, turns, erred, late, unnamed, cardVars>>

(* The daemon starts again: its queue and its bindings were saved, the rest *)
(* was not.  Cards of its earlier life are not looked at any more.          *)
Restart ==
  /\ Incident("restart")
  /\ running' = [t \in Threads |-> FALSE]
  /\ nonce' = [t \in Threads |-> 0]
  /\ watch' = Without(Threads)
  /\ filesDone' = {} /\ awake' = {} /\ planning' = {}
  /\ cards' = [t \in Threads |-> NoCard]
  /\ opening' = {} /\ patches' = {} /\ shown' = [c \in {} |-> "live"]
  /\ UNCHANGED <<out, filed, filedTwice, channel, turns, erred, late, unnamed, detached>>

---------------------------------------------------------------------------
Items == {0, 1}

CodexEvent(t) ==
  \/ TurnStarted(t) \/ TurnCompleted(t) \/ TurnError(t) \/ CardEvent(t)
  \/ \E label \in Labels : Milestone(t, label)
  \/ \E item \in Items : MessageAsText(t, item) \/ MessageClaimsCard(t, item)

Timers(t) == FlushTimer(t) \/ IntervalElapses(t) \/ RunHeartbeat(t) \/ FlushCard(t)

Next ==
  \/ \E t \in Threads : CodexEvent(t) \/ Timers(t) \/ \E k \in Channel : Rebind(t, k)
  \/ \E j \in planning : DeliverChangedFiles(j)
  \/ \E c \in opening : OpenSettles(c)
  \/ \E p \in patches : PatchSettles(p)
  \/ ConnectionLost \/ Restart

Spec == Init /\ [][Next]_vars

---------------------------------------------------------------------------
TurnIds   == Threads \X (1 .. MaxTurns)
IsKey(k)  == k \in [kind: {"ms", "heartbeat", "turnstart", "disconnect", "agent", "item"},
                    thread: Threads, turn: 0 .. MaxTurns, seq: 0 .. MaxPerTurn]
IsWatch(w) == w \in Watches /\ w.turn \in 1 .. MaxTurns /\ w.seq <= MaxPerTurn

(* Every variable has its type; a coalesced milestone always has its timer, *)
(* and a nonce never runs ahead of the turns started.                       *)
TypeOK ==
  /\ channel \in [Threads -> Channel] /\ running \in [Threads -> BOOLEAN]
  /\ turns \in [Threads -> 0 .. MaxTurns]
  /\ \A t \in Threads : nonce[t] \in 0 .. turns[t]
  /\ \A t \in Threads : watch[t] # NoWatch =>
       IsWatch(watch[t]) /\ (watch[t].pending # NoLabel => watch[t].flush)
  /\ filesDone \subseteq Threads /\ awake \subseteq Threads /\ unnamed \subseteq Threads
  /\ \A h \in out.keys : IsKey(h.key) /\ h.turn \in 1 .. MaxTurns
  /\ \A d \in out.dropped : IsKey(d.key)
  /\ Len(incidents) <= MaxIncidents /\ ToSet(incidents) \subseteq {"error", "drop", "restart", "bind"}
  /\ filedTwice \subseteq filed /\ (filed \cup erred \cup late \cup opening) \subseteq TurnIds
  /\ \A t \in Threads : HasThreadCard(t) => cards[t].card \in DOMAIN shown \ detached

(* A turn is guarded and watched exactly while it runs, on whichever of the *)
(* ways it ends, and no marker of it is left for the next one - as long as  *)
(* Codex reports no error in it.                                            *)
WatchedWhileRunning ==
  \A t \in Threads :
    /\ t \in awake <=> watch[t] # NoWatch
    /\ t \in awake <=> running[t] /\ Turn(t) \notin erred
    /\ t \in filesDone => running[t]

(* "cross-turn unique" (state.js:1283): no reply of a turn is taken for a   *)
(* repetition of an earlier turn's and dropped.                             *)
NoReplySwallowed == out.dropped = {}

(* It holds while the connection stays up and the daemon runs, but for a    *)
(* message without an id whose card failed so late that its key was made    *)
(* from the next turn's nonce.                                              *)
MadeLate(d) == d.key.kind = "agent" /\ (d.key.turn # d.turn \/ d.key.turn # d.by)

SwallowsNothingWhileUp ==
  ToSet(incidents) \cap {"drop", "restart"} = {} => \A d \in out.dropped : MadeLate(d)

(* A card of the thread opened when its turn had been answered.             *)
OpenedLate(t) == \E c \in late : c[1] = t

(* "the turn's files are delivered exactly once" (state.js:1047), by the    *)
(* message that claims the card or by turnCompleted, unless an error        *)
(* cleared the marker, or a card of the thread opened when its turn had     *)
(* already been answered: a late card is found by turnCompleted, or even by *)
(* the next turn.                                                           *)
FilesOnceIfTimely == \A turn \in filedTwice : turn \in erred \/ OpenedLate(turn[1])

(* After a card was claimed no throttled update of it is sent any more.     *)
NoUpdateAfterFinal ==
  [][\A p \in patches' \ patches : ~p.final => p.card \notin detached]_vars
=============================================================================
