-------------------------- MODULE TurnRouting_proofs --------------------------
(***************************************************************************)
(* Proofs about TurnRouting, for any number of threads, turns, labels and   *)
(* incidents: the types, that a turn is watched and guarded exactly while  *)
(* it runs, that no reply is taken for a repetition while the daemon and   *)
(* the connection stay up, that a turn's files go out once, and that a     *)
(* claimed card gets no throttled update.                                  *)
(***************************************************************************)
EXTENDS TurnRouting, SequenceTheorems, TLAPS

(***************************************************************************)
(* The inductive invariant.                                                *)
(***************************************************************************)
Kinds    == {"error", "drop", "restart", "bind"}
Sessions == [card : TurnIds, pending : BOOLEAN, timer : BOOLEAN]
Replies  == [thread : Threads, turn : 1 .. MaxTurns, item : Items]

(* A card of a turn the thread has had.                                     *)
Past(c) == c \in TurnIds /\ c[2] <= turns[c[1]]

(* Neither the connection nor the daemon was lost so far.                   *)
Up == ToSet(incidents) \cap {"drop", "restart"} = {}

Counted ==
  /\ channel \in [Threads -> Channel] /\ running \in [Threads -> BOOLEAN]
  /\ turns \in [Threads -> 0 .. MaxTurns] /\ nonce \in [Threads -> Nat]
  /\ \A t \in Threads : nonce[t] <= turns[t] /\ (running[t] => turns[t] > 0)
  /\ filesDone \subseteq Threads /\ awake \subseteq Threads /\ unnamed \subseteq Threads
  /\ incidents \in Seq(Kinds) /\ Len(incidents) <= MaxIncidents
  /\ \A c \in erred : Past(c)

(* A watched thread's record, whose coalesced milestone has its timer.      *)
Beats(w) == IsWatch(w) /\ (w.pending # NoLabel => w.flush)

Watched ==
  /\ watch \in [Threads -> Watches \cup {NoWatch}]
  /\ \A t \in Threads : watch[t] # NoWatch => Beats(watch[t])
  /\ WatchedWhileRunning

(* While the daemon and the connection are up, the nonce counts the turns.  *)
InStep ==
  \A t \in Threads : nonce[t] = turns[t] /\ (watch[t] # NoWatch => watch[t].turn = turns[t])
Numbered == Up => InStep

(* A queue o, and what a key says of the turn it was made for if up.        *)
IsHeld(h) == IsKey(h.key) /\ h.turn \in 1 .. MaxTurns
Tells(h)  == h.key.kind # "agent" => h.key.turn = h.turn
Sound(o, up) ==
  /\ o = [keys |-> o.keys, dropped |-> o.dropped]
  /\ \A h \in o.keys : IsHeld(h) /\ (up => Tells(h))
  /\ \A d \in o.dropped : IsKey(d.key) /\ (up => MadeLate(d))

Queued == Sound(out, Up)

(* A session shows a card of its own thread, which nobody detached and no   *)
(* request will open again.                                                 *)
Carded ==
  /\ cards \in [Threads -> Sessions \cup {NoCard}]
  /\ \A t \in Threads : HasThreadCard(t) =>
       /\ cards[t] \in Sessions /\ cards[t].card[1] = t /\ Past(cards[t].card)
       /\ cards[t].card \in DOMAIN shown
       /\ cards[t].card \notin detached /\ cards[t].card \notin opening
  /\ \A c \in opening : Past(c) /\ c \notin detached
  /\ \A c \in detached : Past(c)

Reply(j) == [thread |-> j.thread, turn |-> j.turn, item |-> j.item]
TurnOf(j) == <<j.thread, j.turn>>

(* The deliveries under way are of turns the threads have had.              *)
Answers ==
  /\ \A j \in planning : Reply(j) \in Replies /\ Past(TurnOf(j))
  /\ \A p \in patches : p.reply = NoReply \/ p.reply \in Replies

(* A turn whose files went out or are about to.                             *)
Claimed(c) == c \in filed \/ \E j \in planning : TurnOf(j) = c

(* The marker stays while the turn whose files were claimed runs, no card   *)
(* is there meanwhile unless it came late, and one delivery has them.       *)
Filing ==
  /\ filedTwice \subseteq filed /\ \A c \in filed \cup late : Past(c)
  /\ \A t \in filesDone : HasThreadCard(t) => OpenedLate(t)
  /\ \A t \in Threads : running[t] /\ Claimed(Turn(t)) /\ Turn(t) \notin erred => t \in filesDone
  /\ \A i, j \in planning : TurnOf(i) = TurnOf(j) => i = j \/ TurnOf(i) \in erred
  /\ \A j \in planning : TurnOf(j) \in filed => TurnOf(j) \in erred \/ OpenedLate(j.thread)
  /\ FilesOnceIfTimely

Inv == Counted /\ Watched /\ Numbered /\ Queued /\ Carded /\ Answers /\ Filing

---------------------------------------------------------------------------
(***************************************************************************)
(* The queue and the milestones.                                           *)
(***************************************************************************)
(* A reply whose key tells its turn, or that is an answer, is enqueued      *)
(* soundly.                                                                 *)
LEMMA EnqueueSound ==
  ASSUME NEW o, NEW up \in BOOLEAN, Sound(o, up), NEW key, IsKey(key), NEW n \in 1 .. MaxTurns,
         up => key.kind = "agent" \/ key.turn = n
  PROVE  Sound(Enqueue(o, key, n), up)
<1>1. CASE \E h \in o.keys : h.key = key
  <2> DEFINE more == {[key |-> key, turn |-> n, by |-> h.turn] :
                         h \in {x \in o.keys : x.key = key /\ x.turn # n}}
  <2>1. Enqueue(o, key, n) = [keys |-> o.keys, dropped |-> o.dropped \cup more]
    BY <1>1 DEF Enqueue, Sound
  <2>2. \A d \in more : IsKey(d.key) /\ (up => MadeLate(d))
    BY DEF Sound, Tells, MadeLate, IsHeld
  <2> HIDE DEF more
  <2> QED BY <2>1, <2>2 DEF Sound
<1>2. CASE ~ \E h \in o.keys : h.key = key
  <2> DEFINE new == [key |-> key, turn |-> n]
  <2>1. Enqueue(o, key, n) = [keys |-> o.keys \cup {new}, dropped |-> o.dropped]
    BY <1>2 DEF Enqueue, Sound
  <2>2. IsHeld(new) /\ (up => Tells(new))
    BY DEF IsHeld, Tells
  <2> HIDE DEF new
  <2> QED BY <2>1, <2>2 DEF Sound
<1> QED BY <1>1, <1>2

(* Less is claimed of a queue when something was lost.                      *)
LEMMA SoundWeaker ==
  ASSUME NEW o, NEW up \in BOOLEAN, NEW down \in BOOLEAN, Sound(o, up), down => up
  PROVE  Sound(o, down)
BY DEF Sound

(* A union of what several enqueued is sound.                               *)
LEMMA UnionSound ==
  ASSUME NEW o, NEW up \in BOOLEAN, Sound(o, up), NEW S, \A x \in S : Sound(x, up)
  PROVE  Sound([keys    |-> o.keys \cup UNION {x.keys : x \in S},
                dropped |-> o.dropped \cup UNION {x.dropped : x \in S}], up)
<1> DEFINE ks == o.keys \cup UNION {x.keys : x \in S}
           ds == o.dropped \cup UNION {x.dropped : x \in S}
<1>1. \A h \in ks : IsHeld(h) /\ (up => Tells(h))
  BY DEF Sound
<1>2. \A d \in ds : IsKey(d.key) /\ (up => MadeLate(d))
  BY DEF Sound
<1> HIDE DEF ks, ds
<1>3. Sound([keys |-> ks, dropped |-> ds], up)
  BY <1>1, <1>2 DEF Sound
<1> QED BY <1>3 DEF ks, ds

(* A watch w of thread t, in step if up.                                    *)
Fits(t, w, up) ==
  /\ Beats(w) /\ turns[t] \in 1 .. MaxTurns
  /\ up => w.turn = turns[t]

LEMMA DeliverSound ==
  ASSUME NEW t \in Threads, NEW w, NEW up \in BOOLEAN, Fits(t, w, up), w.seq < MaxPerTurn,
         NEW o, Sound(o, up), NEW label \in Labels, NEW d, d = DeliverMilestone(t, w, o, label)
  PROVE  /\ Sound(d.o, up) /\ Fits(t, d.w, up) /\ d.w \in Watches
<1> DEFINE key == Key("ms", t, w.turn, w.seq + 1)
<1>1. w \in Watches /\ w.turn \in 1 .. MaxTurns /\ w.seq + 1 \in 0 .. MaxPerTurn
  BY RoutingAssumption DEF Fits, Beats, IsWatch, Watches
<1>2. d.w = [w EXCEPT !.seq = @ + 1, !.last = label, !.recent = TRUE, !.beatSent = FALSE]
      /\ d.o = Enqueue(o, key, turns[t])
  BY DEF DeliverMilestone
<1>3. IsKey(key) /\ key.kind = "ms" /\ key.turn = w.turn
  BY <1>1 DEF Key, IsKey
<1> HIDE DEF key
<1>4. Sound(d.o, up)
  BY <1>2, <1>3, EnqueueSound DEF Fits
<1>5. d.w \in Watches /\ d.w.turn = w.turn /\ d.w.seq = w.seq + 1
      /\ d.w.pending = w.pending /\ d.w.flush = w.flush
  <2> DEFINE n == w.seq + 1
             w2 == [w EXCEPT !.seq = n, !.last = label, !.recent = TRUE, !.beatSent = FALSE]
  <2>1. n \in Nat /\ label \in Labels \cup {NoLabel}
    BY <1>1
  <2>2. d.w = w2
    BY <1>2
  <2> HIDE DEF n
  <2>3. w2 \in Watches /\ w2.turn = w.turn /\ w2.seq = n
        /\ w2.pending = w.pending /\ w2.flush = w.flush
    BY <1>1, <2>1 DEF Watches
  <2> HIDE DEF w2
  <2> QED BY <2>2, <2>3 DEF n
<1> QED BY <1>1, <1>4, <1>5 DEF Fits, Beats, IsWatch

LEMMA FlushSound ==
  ASSUME NEW t \in Threads, NEW w, NEW up \in BOOLEAN, IsWatch(w), turns[t] \in 1 .. MaxTurns,
         up => w.turn = turns[t], NEW o, Sound(o, up),
         NEW d, d = FlushPendingMilestone(t, w, o)
  PROVE  Sound(d.o, up) /\ Fits(t, d.w, up) /\ d.w \in Watches
<1> DEFINE w1 == [w EXCEPT !.pending = NoLabel]
<1>1. w1 \in Watches /\ w1.turn = w.turn /\ w1.seq = w.seq /\ w1.pending = NoLabel
  BY DEF IsWatch, Watches
<1>2. IF w.pending = NoLabel \/ w.seq >= MaxPerTurn \/ ~MilestonesEnabled(t)
      THEN d = [w |-> w1, o |-> o] ELSE d = DeliverMilestone(t, w1, o, w.pending)
  BY DEF FlushPendingMilestone
<1> HIDE DEF w1
<1>3. Fits(t, w1, up)
  BY <1>1 DEF Fits, Beats, IsWatch
<1>4. CASE d = [w |-> w1, o |-> o]
  BY <1>1, <1>3, <1>4
<1>5. CASE ~ (w.pending = NoLabel \/ w.seq >= MaxPerTurn \/ ~MilestonesEnabled(t))
  <2>1. w.pending \in Labels /\ w1.seq < MaxPerTurn
    BY <1>1, <1>5, RoutingAssumption DEF IsWatch, Watches
  <2>2. d = DeliverMilestone(t, w1, o, w.pending)
    BY <1>2, <1>5
  <2> QED BY <1>3, <2>1, <2>2, DeliverSound
<1> QED BY <1>2, <1>4, <1>5

(* What a watched thread's record is.                                       *)
LEMMA WatchFits ==
  ASSUME Counted, Watched, NEW up \in BOOLEAN, up => InStep,
         NEW t \in Threads, watch[t] # NoWatch
  PROVE  Fits(t, watch[t], up) /\ watch[t] \in Watches /\ running[t]
<1>1. Beats(watch[t]) /\ running[t]
  BY DEF Watched, WatchedWhileRunning
<1>2. turns[t] \in 1 .. MaxTurns
  BY <1>1 DEF Counted
<1> QED BY <1>1, <1>2 DEF Fits, InStep, Beats, IsWatch

LEMMA ResidueSound ==
  ASSUME Counted, Watched, NEW up \in BOOLEAN, up => InStep, NEW o, Sound(o, up),
         NEW ts \in SUBSET Threads
  PROVE  Sound(Residue(ts, o), up)
<1> DEFINE after == {FlushPendingMilestone(t, watch[t], o).o : t \in {x \in ts : watch[x] # NoWatch}}
<1>1. \A x \in after : Sound(x, up)
  <2> SUFFICES ASSUME NEW t \in ts, watch[t] # NoWatch
               PROVE  Sound(FlushPendingMilestone(t, watch[t], o).o, up)
    OBVIOUS
  <2>1. Fits(t, watch[t], up)
    BY WatchFits
  <2> QED BY <2>1, FlushSound DEF Fits, Beats
<1>2. Residue(ts, o) = [keys    |-> o.keys \cup UNION {x.keys : x \in after},
                        dropped |-> o.dropped \cup UNION {x.dropped : x \in after}]
  BY DEF Residue
<1> HIDE DEF after
<1> QED BY <1>1, <1>2, UnionSound

---------------------------------------------------------------------------
(***************************************************************************)
(* What is counted, and what is lost.                                      *)
(***************************************************************************)
LEMMA IncidentMoves ==
  ASSUME Counted, NEW kind \in Kinds, Incident(kind)
  PROVE  /\ incidents' \in Seq(Kinds) /\ Len(incidents') <= MaxIncidents
         /\ Up' => Up /\ kind \notin {"drop", "restart"}
         /\ kind \notin {"drop", "restart"} => (Up <=> Up')
<1>1. incidents' = Append(incidents, kind) /\ Len(incidents) < MaxIncidents
      /\ incidents \in Seq(Kinds) /\ MaxIncidents \in Nat
  BY RoutingAssumption DEF Incident, Counted
<1>2. incidents' \in Seq(Kinds) /\ Len(incidents') <= MaxIncidents
  BY <1>1
<1>3. ToSet(incidents') = ToSet(incidents) \cup {kind}
  <2>1. \A x \in ToSet(incidents') : x \in ToSet(incidents) \cup {kind}
    BY <1>1 DEF ToSet
  <2>2. \A x \in ToSet(incidents) : x \in ToSet(incidents')
    <3> SUFFICES ASSUME NEW n \in DOMAIN incidents PROVE incidents[n] \in ToSet(incidents')
      BY DEF ToSet
    <3>1. n \in DOMAIN incidents' /\ incidents'[n] = incidents[n]
      BY <1>1
    <3> QED BY <3>1 DEF ToSet
  <2>3. kind \in ToSet(incidents')
    <3>1. Len(incidents) + 1 \in DOMAIN incidents' /\ incidents'[Len(incidents) + 1] = kind
      BY <1>1
    <3> QED BY <3>1 DEF ToSet
  <2> QED BY <2>1, <2>2, <2>3
<1>4. Up' <=> Up /\ kind \notin {"drop", "restart"}
  BY <1>3 DEF Up
<1> QED BY <1>2, <1>4

(* What was up is up no longer after a loss, never the other way.           *)
LEMMA UpLasts ==
  ASSUME Counted, Next
  PROVE  Up' => Up
<1>1. CASE UNCHANGED incidents
  BY <1>1 DEF Up
<1>2. CASE \E kind \in Kinds : Incident(kind)
  BY <1>2, IncidentMoves
<1>3. ASSUME NEW t \in Threads, CodexEvent(t)
      PROVE  UNCHANGED incidents \/ \E kind \in Kinds : Incident(kind)
  BY <1>3 DEF CodexEvent, TurnStarted, TurnCompleted, TurnError, CardEvent, Milestone,
              MessageAsText, MessageClaimsCard, Kinds, envVars
<1>4. ASSUME NEW t \in Threads, Timers(t) PROVE UNCHANGED incidents
  BY <1>4 DEF Timers, FlushTimer, IntervalElapses, RunHeartbeat, FlushCard, envVars
<1>5. ASSUME \/ \E j \in planning : DeliverChangedFiles(j)
             \/ \E c \in opening : OpenSettles(c)
             \/ \E p \in patches : PatchSettles(p)
      PROVE  UNCHANGED incidents
  BY <1>5 DEF DeliverChangedFiles, OpenSettles, PatchSettles, envVars
<1>6. ASSUME ConnectionLost \/ Restart \/ \E t \in Threads, k \in Channel : Rebind(t, k)
      PROVE  \E kind \in Kinds : Incident(kind)
  BY <1>6 DEF ConnectionLost, Restart, Rebind, Kinds
<1> QED BY <1>1, <1>2, <1>3, <1>4, <1>5, <1>6 DEF Next

(* The variables of Counted.                                                *)
LEMMA CountedSame ==
  ASSUME Counted, UNCHANGED <<channel, running, turns, nonce, filesDone, awake, unnamed,
                              incidents, erred>>
  PROVE  Counted'
BY DEF Counted, Past

LEMMA CountedStep ==
  ASSUME Counted, Next
  PROVE  Counted'
<1>1. ASSUME NEW t \in Threads, TurnStarted(t) PROVE Counted'
  <2>1. /\ turns[t] + 1 \in 0 .. MaxTurns /\ nonce[t] + 1 \in Nat /\ turns[t] < MaxTurns
        /\ turns' = [turns EXCEPT ![t] = @ + 1] /\ nonce' = [nonce EXCEPT ![t] = @ + 1]
        /\ running' = [running EXCEPT ![t] = TRUE]
    BY <1>1, RoutingAssumption DEF TurnStarted, Counted
  <2>2. \A c \in TurnIds : Past(c) => Past(c)'
    BY <2>1 DEF Counted, Past, TurnIds
  <2>3. \A x \in Threads : nonce'[x] <= turns'[x] /\ (running'[x] => turns'[x] > 0)
    BY <2>1 DEF Counted
  <2>4. /\ turns' \in [Threads -> 0 .. MaxTurns] /\ nonce' \in [Threads -> Nat]
        /\ running' \in [Threads -> BOOLEAN]
    BY <2>1 DEF Counted
  <2>5. /\ UNCHANGED <<channel, erred, incidents>> /\ filesDone' = filesDone \ {t}
        /\ awake' = awake \cup {t} /\ unnamed' = unnamed \ {t}
    BY <1>1 DEF TurnStarted
  <2>6. \A c \in erred' : Past(c)'
    BY <2>2, <2>5 DEF Counted, Past
  <2> QED BY <2>3, <2>4, <2>5, <2>6 DEF Counted
<1>2. ASSUME NEW t \in Threads, TurnCompleted(t) PROVE Counted'
  <2>1. /\ running' = [running EXCEPT ![t] = FALSE]
        /\ filesDone' = filesDone \ {t} /\ awake' = awake \ {t}
        /\ UNCHANGED <<nonce, channel, turns, erred, unnamed, incidents>>
    BY <1>2 DEF TurnCompleted
  <2> QED BY <2>1 DEF Counted, Past
<1>3. ASSUME NEW t \in Threads, TurnError(t) PROVE Counted'
  <2>1. /\ running[t] /\ Incident("error") /\ erred' = erred \cup {Turn(t)}
        /\ filesDone' = filesDone \ {t} /\ awake' = awake \ {t}
        /\ UNCHANGED <<nonce, channel, running, turns, unnamed>>
    BY <1>3 DEF TurnError
  <2>2. incidents' \in Seq(Kinds) /\ Len(incidents') <= MaxIncidents
    BY <2>1, IncidentMoves DEF Kinds
  <2>3. Past(Turn(t))
    BY <2>1 DEF Counted, Past, Turn, TurnIds
  <2>4. \A c \in erred' : Past(c)'
    BY <2>1, <2>3 DEF Counted, Past
  <2> QED BY <2>1, <2>2, <2>4 DEF Counted
<1>4. ASSUME ConnectionLost \/ Restart PROVE Counted'
  <2>1. /\ \E kind \in Kinds : Incident(kind)
        /\ running' = [t \in Threads |-> FALSE] /\ nonce' = [t \in Threads |-> 0]
        /\ awake' = {} /\ filesDone' = {}
        /\ UNCHANGED <<channel, turns, erred, unnamed>>
    BY <1>4 DEF ConnectionLost, FinishLiveCardsForDisconnect, Restart, Kinds
  <2>2. incidents' \in Seq(Kinds) /\ Len(incidents') <= MaxIncidents
    BY <2>1, IncidentMoves
  <2> QED BY <2>1, <2>2 DEF Counted, Past
<1>5. ASSUME NEW t \in Threads, NEW k \in Channel, Rebind(t, k) PROVE Counted'
  <2>1. /\ Incident("bind") /\ channel' = [channel EXCEPT ![t] = k]
        /\ UNCHANGED <<running, turns, nonce, filesDone, awake, erred, unnamed>>
    BY <1>5 DEF Rebind, routeVars
  <2>2. incidents' \in Seq(Kinds) /\ Len(incidents') <= MaxIncidents
    BY <2>1, IncidentMoves DEF Kinds
  <2> QED BY <2>1, <2>2 DEF Counted, Past
<1>6. ASSUME NEW t \in Threads, NEW item \in Items, MessageAsText(t, item) \/ MessageClaimsCard(t, item)
      PROVE  Counted'
  <2>1. /\ UNCHANGED <<channel, running, turns, nonce, awake, incidents, erred>>
        /\ filesDone' \subseteq filesDone \cup {t} /\ unnamed' \subseteq unnamed \cup {t}
    BY <1>6 DEF MessageAsText, MessageClaimsCard, Says
  <2> QED BY <2>1 DEF Counted, Past
<1>7. ASSUME NEW t \in Threads, CardEvent(t) \/ (\E label \in Labels : Milestone(t, label)) \/ Timers(t)
      PROVE  Counted'
  <2>1. UNCHANGED <<channel, running, turns, nonce, filesDone, awake, unnamed, incidents, erred>>
    BY <1>7 DEF CardEvent, Milestone, Timers, FlushTimer, IntervalElapses, RunHeartbeat, FlushCard,
                routeVars, envVars
  <2> QED BY <2>1, CountedSame
<1>8. ASSUME \/ \E j \in planning : DeliverChangedFiles(j)
             \/ \E c \in opening : OpenSettles(c)
             \/ \E p \in patches : PatchSettles(p)
      PROVE  Counted'
  <2>1. UNCHANGED <<channel, running, turns, nonce, filesDone, awake, unnamed, incidents, erred>>
    BY <1>8 DEF DeliverChangedFiles, OpenSettles, PatchSettles, routeVars, envVars
  <2> QED BY <2>1, CountedSame
<1> QED BY <1>1, <1>2, <1>3, <1>4, <1>5, <1>6, <1>7, <1>8 DEF Next, CodexEvent

---------------------------------------------------------------------------
(***************************************************************************)
(* A turn is watched while it runs.                                        *)
(***************************************************************************)
(* What a milestone, a flush, an interval or a heartbeat of t does.         *)
Ticks(t) == \/ \E label \in Labels : Milestone(t, label)
            \/ FlushTimer(t) \/ IntervalElapses(t) \/ RunHeartbeat(t)

LEMMA TickSound ==
  ASSUME Counted, Watched, NEW up \in BOOLEAN, up => InStep, Sound(out, up),
         NEW t \in Threads, Ticks(t)
  PROVE  /\ watch[t] # NoWatch /\ Sound(out', up)
         /\ \E w \in Watches : Fits(t, w, up) /\ watch' = [watch EXCEPT ![t] = w]
         /\ UNCHANGED <<nonce, filesDone, awake, planning, filed, filedTwice, envVars, cardVars>>
<1> DEFINE Goal == /\ watch[t] # NoWatch /\ Sound(out', up)
                   /\ \E w \in Watches : Fits(t, w, up) /\ watch' = [watch EXCEPT ![t] = w]
<1>1. UNCHANGED <<nonce, filesDone, awake, planning, filed, filedTwice, envVars, cardVars>>
  BY DEF Ticks, Milestone, FlushTimer, IntervalElapses, RunHeartbeat
<1>2. watch[t] # NoWatch
  BY DEF Ticks, Milestone, FlushTimer, IntervalElapses, RunHeartbeat
<1>3. Fits(t, watch[t], up) /\ watch[t] \in Watches
  BY <1>2, WatchFits
<1>4. ASSUME NEW label \in Labels, Milestone(t, label) PROVE Goal
  <2> DEFINE d == DeliverMilestone(t, watch[t], out, label)
  <2>1. CASE watch[t].recent
    <3> DEFINE w == Coalesced(watch[t], label)
    <3>1. watch' = [watch EXCEPT ![t] = w] /\ out' = out
      BY <1>4, <2>1 DEF Milestone
    <3>2. w \in Watches /\ w.turn = watch[t].turn /\ w.seq = watch[t].seq /\ w.flush
      BY <1>3 DEF Coalesced, Watches
    <3> HIDE DEF w
    <3>3. Fits(t, w, up)
      BY <1>3, <3>2 DEF Fits, Beats, IsWatch
    <3> QED BY <1>2, <3>1, <3>2, <3>3
  <2>2. CASE ~watch[t].recent
    <3>1. watch' = [watch EXCEPT ![t] = d.w] /\ out' = d.o /\ watch[t].seq < MaxPerTurn
      BY <1>4, <2>2 DEF Milestone
    <3>2. Sound(d.o, up) /\ Fits(t, d.w, up) /\ d.w \in Watches
      BY <1>3, <3>1, DeliverSound
    <3> HIDE DEF d
    <3> QED BY <1>2, <3>1, <3>2
  <2> QED BY <2>1, <2>2
<1>5. ASSUME FlushTimer(t) PROVE Goal
  <2> DEFINE w == [watch[t] EXCEPT !.flush = FALSE]
             d == FlushPendingMilestone(t, w, out)
  <2>1. watch' = [watch EXCEPT ![t] = d.w] /\ out' = d.o
    BY <1>5 DEF FlushTimer
  <2>2. w \in Watches /\ w.turn = watch[t].turn /\ w.seq = watch[t].seq
    BY <1>3 DEF Watches
  <2> HIDE DEF w
  <2>3. IsWatch(w) /\ turns[t] \in 1 .. MaxTurns /\ (up => w.turn = turns[t])
    BY <1>3, <2>2 DEF Fits, Beats, IsWatch
  <2>4. Sound(d.o, up) /\ Fits(t, d.w, up) /\ d.w \in Watches
    BY <2>3, FlushSound
  <2> HIDE DEF d
  <2> QED BY <1>2, <2>1, <2>4
<1>6. ASSUME IntervalElapses(t) PROVE Goal
  <2> DEFINE w == [watch[t] EXCEPT !.recent = FALSE]
  <2>1. watch' = [watch EXCEPT ![t] = w] /\ out' = out
    BY <1>6 DEF IntervalElapses
  <2>2. w \in Watches /\ w.turn = watch[t].turn /\ w.seq = watch[t].seq
        /\ w.pending = watch[t].pending /\ w.flush = watch[t].flush
    BY <1>3 DEF Watches
  <2> HIDE DEF w
  <2>3. Fits(t, w, up)
    BY <1>3, <2>2 DEF Fits, Beats, IsWatch
  <2> QED BY <1>2, <2>1, <2>2, <2>3
<1>7. ASSUME RunHeartbeat(t) PROVE Goal
  <2> DEFINE w   == [watch[t] EXCEPT !.beatSent = TRUE]
             key == Key("heartbeat", t, watch[t].turn, watch[t].seq)
  <2>1. watch' = [watch EXCEPT ![t] = w] /\ out' = Enqueue(out, key, turns[t])
    BY <1>7 DEF RunHeartbeat
  <2>2. w \in Watches /\ w.turn = watch[t].turn /\ w.seq = watch[t].seq
        /\ w.pending = watch[t].pending /\ w.flush = watch[t].flush
    BY <1>3 DEF Watches
  <2>3. IsKey(key) /\ key.turn = watch[t].turn
    BY <1>3 DEF Key, IsKey, Fits, Beats, IsWatch, Watches
  <2> HIDE DEF w, key
  <2>4. Fits(t, w, up) /\ Sound(Enqueue(out, key, turns[t]), up)
    BY <1>3, <2>2, <2>3, EnqueueSound DEF Fits, Beats, IsWatch
  <2> QED BY <1>2, <2>1, <2>2, <2>4
<1>8. Goal
  BY <1>4, <1>5, <1>6, <1>7 DEF Ticks
<1> QED BY <1>1, <1>8

(* What a new turn's record is.                                             *)
LEMMA NewWatchFits ==
  ASSUME NEW t \in Threads, NEW n \in 1 .. MaxTurns
  PROVE  LET w == NewWatch(t, n) IN w \in Watches /\ w.turn = n /\ Beats(w)
<1> DEFINE w == NewWatch(t, n)
<1>1. w \in Watches /\ w.turn = n /\ w.seq = 0 /\ w.pending = NoLabel
  BY DEF NewWatch, Watches, MilestonesEnabled
<1> HIDE DEF w
<1>2. w \in Watches /\ w.turn = n /\ Beats(w)
  BY <1>1, RoutingAssumption DEF Beats, IsWatch
<1> QED BY <1>2 DEF w

LEMMA WatchedSame ==
  ASSUME Watched, UNCHANGED <<running, turns, watch, awake, erred>>, filesDone' \subseteq filesDone
  PROVE  Watched'
BY DEF Watched, WatchedWhileRunning, Turn

LEMMA WatchedStep ==
  ASSUME Counted, Watched, Queued, Next
  PROVE  Watched'
<1>1. ASSUME NEW t \in Threads, TurnStarted(t) PROVE Watched'
  <2> DEFINE w == NewWatch(t, nonce'[t])
  <2>1. /\ watch' = [watch EXCEPT ![t] = w] /\ awake' = awake \cup {t}
        /\ running' = [running EXCEPT ![t] = TRUE] /\ turns' = [turns EXCEPT ![t] = @ + 1]
        /\ filesDone' = filesDone \ {t} /\ erred' = erred
    BY <1>1 DEF TurnStarted
  <2>2. nonce'[t] \in 1 .. MaxTurns
    BY <1>1, RoutingAssumption DEF TurnStarted, Counted
  <2>3. w \in Watches /\ Beats(w)
    BY <2>2, NewWatchFits
  <2> HIDE DEF w
  <2>4. \A x \in Threads \ {t} : Turn(x)' = Turn(x)
    BY <2>1 DEF Turn, Counted
  <2>5. Turn(t)' \notin erred
    BY <2>1 DEF Turn, Counted, Past
  <2>6. WatchedWhileRunning'
    <3> SUFFICES ASSUME NEW x \in Threads
                 PROVE  /\ x \in awake' <=> watch'[x] # NoWatch
                        /\ x \in awake' <=> running'[x] /\ Turn(x)' \notin erred'
                        /\ x \in filesDone' => running'[x]
      BY DEF WatchedWhileRunning
    <3>1. CASE x = t
      BY <2>1, <2>3, <2>5, <3>1, RoutingAssumption DEF Counted, Watched
    <3>2. CASE x # t
      BY <2>1, <2>4, <3>2 DEF Counted, Watched, WatchedWhileRunning
    <3> QED BY <3>1, <3>2
  <2>7. /\ watch' \in [Threads -> Watches \cup {NoWatch}]
        /\ \A x \in Threads : watch'[x] # NoWatch => Beats(watch'[x])
    BY <2>1, <2>3 DEF Watched
  <2> QED BY <2>6, <2>7 DEF Watched, Beats, IsWatch
<1>2. ASSUME NEW t \in Threads, TurnCompleted(t) PROVE Watched'
  <2>1. /\ running' = [running EXCEPT ![t] = FALSE] /\ watch' = Without({t})
        /\ filesDone' = filesDone \ {t} /\ awake' = awake \ {t}
        /\ UNCHANGED <<turns, erred>>
    BY <1>2 DEF TurnCompleted
  <2>2. /\ watch' \in [Threads -> Watches \cup {NoWatch}]
        /\ \A x \in Threads : watch'[x] = IF x = t THEN NoWatch ELSE watch[x]
    BY <2>1 DEF Without, Watched
  <2> QED BY <2>1, <2>2 DEF Watched, WatchedWhileRunning, Counted, Turn
<1>3. ASSUME NEW t \in Threads, TurnError(t) PROVE Watched'
  <2>1. /\ erred' = erred \cup {Turn(t)} /\ watch' = Without({t})
        /\ filesDone' = filesDone \ {t} /\ awake' = awake \ {t}
        /\ UNCHANGED <<running, turns>>
    BY <1>3 DEF TurnError
  <2>2. /\ watch' \in [Threads -> Watches \cup {NoWatch}]
        /\ \A x \in Threads : watch'[x] = IF x = t THEN NoWatch ELSE watch[x]
    BY <2>1 DEF Without, Watched
  <2>3. \A x \in Threads : x # t => Turn(x) # Turn(t)
    BY DEF Turn
  <2> QED BY <2>1, <2>2, <2>3 DEF Watched, WatchedWhileRunning, Counted, Turn
<1>4. ASSUME ConnectionLost \/ Restart PROVE Watched'
  <2>1. /\ running' = [t \in Threads |-> FALSE] /\ watch' = Without(Threads)
        /\ awake' = {} /\ filesDone' = {}
    BY <1>4 DEF ConnectionLost, FinishLiveCardsForDisconnect, Restart
  <2>2. watch' \in [Threads -> Watches \cup {NoWatch}] /\ \A x \in Threads : watch'[x] = NoWatch
    BY <2>1 DEF Without
  <2> QED BY <2>1, <2>2 DEF Watched, WatchedWhileRunning
<1>5. ASSUME NEW t \in Threads, NEW item \in Items, MessageAsText(t, item) \/ MessageClaimsCard(t, item)
      PROVE  Watched'
  <2>1. /\ UNCHANGED <<running, turns, watch, awake, erred>> /\ running[t]
        /\ filesDone' \subseteq filesDone \cup {t}
    BY <1>5 DEF MessageAsText, MessageClaimsCard, Says
  <2> QED BY <2>1 DEF Watched, WatchedWhileRunning, Turn
<1>6. ASSUME NEW t \in Threads, Ticks(t) PROVE Watched'
  <2>1. Sound(out, FALSE) /\ FALSE \in BOOLEAN
    BY DEF Queued, Sound
  <2>2. PICK w \in Watches : Fits(t, w, FALSE) /\ watch' = [watch EXCEPT ![t] = w]
    BY <1>6, <2>1, TickSound
  <2>3. /\ watch[t] # NoWatch
        /\ UNCHANGED <<nonce, filesDone, awake, planning, filed, filedTwice, envVars, cardVars>>
    BY <1>6, <2>1, TickSound
  <2>4. UNCHANGED <<running, turns, awake, erred, filesDone>> /\ Beats(w)
    BY <2>2, <2>3 DEF envVars, Fits
  <2>5. /\ watch' \in [Threads -> Watches \cup {NoWatch}]
        /\ \A x \in Threads : watch'[x] = IF x = t THEN w ELSE watch[x]
    BY <2>2 DEF Watched
  <2>6. w # NoWatch
    BY <2>2, RoutingAssumption
  <2> QED BY <2>3, <2>4, <2>5, <2>6 DEF Watched, WatchedWhileRunning, Turn
<1>7. ASSUME \/ \E t \in Threads : CardEvent(t) \/ FlushCard(t) \/ \E k \in Channel : Rebind(t, k)
             \/ \E j \in planning : DeliverChangedFiles(j)
             \/ \E c \in opening : OpenSettles(c)
             \/ \E p \in patches : PatchSettles(p)
      PROVE  Watched'
  <2>1. UNCHANGED <<running, turns, watch, awake, erred, filesDone>>
    BY <1>7 DEF CardEvent, FlushCard, Rebind, DeliverChangedFiles, OpenSettles, PatchSettles,
                routeVars, envVars
  <2> QED BY <2>1, WatchedSame
<1> QED BY <1>1, <1>2, <1>3, <1>4, <1>5, <1>6, <1>7 DEF Next, CodexEvent, Timers, Ticks

---------------------------------------------------------------------------
(***************************************************************************)
(* While nothing was lost a key tells its turn.                            *)
(***************************************************************************)
LEMMA NumberedStep ==
  ASSUME Counted, Watched, Numbered, Queued, Next
  PROVE  Numbered'
<1> SUFFICES ASSUME Up' PROVE InStep'
  BY DEF Numbered
<1>1. Up /\ InStep
  BY UpLasts DEF Numbered
<1>2. ASSUME NEW t \in Threads, TurnStarted(t) PROVE InStep'
  <2>1. /\ turns' = [turns EXCEPT ![t] = @ + 1] /\ nonce' = [nonce EXCEPT ![t] = @ + 1]
        /\ watch' = [watch EXCEPT ![t] = NewWatch(t, nonce'[t])]
    BY <1>2 DEF TurnStarted
  <2>2. nonce'[t] \in 1 .. MaxTurns
    BY <1>2, RoutingAssumption DEF TurnStarted, Counted
  <2>3. NewWatch(t, nonce'[t]).turn = nonce'[t]
    BY <2>2, NewWatchFits
  <2> QED BY <1>1, <2>1, <2>3 DEF InStep, Counted, Watched
<1>3. ASSUME NEW t \in Threads, TurnCompleted(t) \/ TurnError(t) PROVE InStep'
  <2>1. UNCHANGED <<turns, nonce>> /\ watch' = Without({t})
    BY <1>3 DEF TurnCompleted, TurnError
  <2> QED BY <1>1, <2>1 DEF InStep, Without
<1>4. ASSUME ConnectionLost \/ Restart PROVE FALSE
  <2>1. Incident("drop") \/ Incident("restart")
    BY <1>4 DEF ConnectionLost, Restart
  <2> QED BY <2>1, IncidentMoves DEF Kinds
<1>5. ASSUME NEW t \in Threads, Ticks(t) PROVE InStep'
  <2>1. Sound(out, TRUE) /\ TRUE \in BOOLEAN
    BY <1>1 DEF Queued, Sound
  <2>2. PICK w \in Watches : Fits(t, w, TRUE) /\ watch' = [watch EXCEPT ![t] = w]
    BY <1>1, <1>5, <2>1, TickSound
  <2>3. UNCHANGED <<nonce, filesDone, awake, planning, filed, filedTwice, envVars, cardVars>>
    BY <1>1, <1>5, <2>1, TickSound
  <2>4. UNCHANGED <<nonce, turns>> /\ w.turn = turns[t]
    BY <2>2, <2>3 DEF envVars, Fits
  <2> QED BY <1>1, <2>2, <2>4 DEF InStep, Watched
<1>6. ASSUME \/ \E t \in Threads : \/ CardEvent(t) \/ FlushCard(t) \/ \E k \in Channel : Rebind(t, k)
                                   \/ \E item \in Items : \/ MessageAsText(t, item)
                                                          \/ MessageClaimsCard(t, item)
             \/ \E j \in planning : DeliverChangedFiles(j)
             \/ \E c \in opening : OpenSettles(c)
             \/ \E p \in patches : PatchSettles(p)
      PROVE  InStep'
  <2>1. UNCHANGED <<turns, nonce, watch>>
    BY <1>6 DEF CardEvent, FlushCard, Rebind, MessageAsText, MessageClaimsCard, DeliverChangedFiles,
                OpenSettles, PatchSettles, routeVars, envVars
  <2> QED BY <1>1, <2>1 DEF InStep
<1> QED BY <1>2, <1>3, <1>4, <1>5, <1>6 DEF Next, CodexEvent, Timers, Ticks

(* An answer of the turn r.turn, as text.                                   *)
LEMMA FallbackSound ==
  ASSUME Counted, NEW up \in BOOLEAN, Sound(out, up), NEW r \in Replies
  PROVE  Sound(Fallback(r), up)
<1> DEFINE key == AgentDedupeKey(r.thread, r.turn, r.item)
<1>1. /\ r.thread \in Threads /\ r.turn \in 1 .. MaxTurns /\ r.item \in 0 .. MaxPerTurn
      /\ nonce[r.thread] \in 0 .. MaxTurns
  BY RoutingAssumption DEF Replies, Items, Counted
<1>2. IsKey(key) /\ (key.kind = "agent" \/ key.turn = r.turn)
  BY <1>1, RoutingAssumption DEF AgentDedupeKey, Key, IsKey
<1>3. Fallback(r) = Enqueue(out, key, r.turn)
  BY DEF Fallback
<1> HIDE DEF key
<1> QED BY <1>1, <1>2, <1>3, EnqueueSound

LEMMA QueuedStep ==
  ASSUME Counted, Watched, Numbered, Queued, Answers, Next
  PROVE  Queued'
<1>1. Sound(out, Up) /\ (Up => InStep) /\ Up \in BOOLEAN /\ Up' \in BOOLEAN /\ (Up' => Up)
  BY UpLasts DEF Queued, Numbered, Up
<1>2. ASSUME Sound(out', Up) PROVE Queued'
  BY <1>1, <1>2, SoundWeaker DEF Queued
<1>3. ASSUME NEW t \in Threads, TurnStarted(t) PROVE Queued'
  <2> DEFINE o   == Residue({t}, out)
             key == Key("turnstart", t, nonce'[t], 0)
  <2>1. /\ turns' = [turns EXCEPT ![t] = @ + 1] /\ nonce' = [nonce EXCEPT ![t] = @ + 1]
        /\ turns[t] < MaxTurns
        /\ out' = IF channel[t] = "degraded" THEN Enqueue(o, key, turns'[t]) ELSE o
    BY <1>3 DEF TurnStarted
  <2>2. nonce'[t] \in 1 .. MaxTurns /\ turns'[t] \in 1 .. MaxTurns /\ (Up => nonce'[t] = turns'[t])
    BY <1>1, <2>1, RoutingAssumption DEF Counted, InStep
  <2>3. IsKey(key) /\ key.turn = nonce'[t]
    BY <2>2, RoutingAssumption DEF Key, IsKey
  <2>4. Sound(o, Up)
    BY <1>1, ResidueSound
  <2> HIDE DEF o, key
  <2>5. Sound(Enqueue(o, key, turns'[t]), Up)
    BY <1>1, <2>2, <2>3, <2>4, EnqueueSound
  <2> QED BY <1>2, <2>1, <2>4, <2>5
<1>4. ASSUME NEW t \in Threads, TurnCompleted(t) \/ TurnError(t) PROVE Queued'
  <2>1. out' = Residue({t}, out)
    BY <1>4 DEF TurnCompleted, TurnError
  <2>2. Sound(Residue({t}, out), Up)
    BY <1>1, ResidueSound
  <2> QED BY <1>2, <2>1, <2>2
<1>5. ASSUME ConnectionLost PROVE Queued'
  <2> DEFINE noticed == NotifyDisconnectToCardlessThreads(out)
             told    == {Enqueue(out, Key("disconnect", t, nonce[t], 0), turns[t]) : t \in Noticed}
  <2>1. out' = Residue(Threads, noticed) /\ Incident("drop")
    BY <1>5 DEF ConnectionLost, FinishLiveCardsForDisconnect
  <2>2. Up' = FALSE
    BY <2>1, IncidentMoves DEF Kinds, Up
  <2>3. Sound(out, FALSE) /\ FALSE \in BOOLEAN
    BY <1>1 DEF Sound
  <2>4. \A x \in told : Sound(x, FALSE)
    <3> SUFFICES ASSUME NEW t \in Noticed
                 PROVE  Sound(Enqueue(out, Key("disconnect", t, nonce[t], 0), turns[t]), FALSE)
      OBVIOUS
    <3> DEFINE key == Key("disconnect", t, nonce[t], 0)
    <3>1. t \in Threads /\ watch[t] # NoWatch
      BY DEF Noticed
    <3>2. turns[t] \in 1 .. MaxTurns /\ nonce[t] \in 0 .. MaxTurns
      BY <3>1, WatchFits, RoutingAssumption DEF Fits, Counted
    <3>3. IsKey(key)
      BY <3>1, <3>2, RoutingAssumption DEF Key, IsKey
    <3> HIDE DEF key
    <3>4. Sound(Enqueue(out, key, turns[t]), FALSE)
      BY <2>3, <3>2, <3>3, EnqueueSound
    <3> QED BY <3>4 DEF key
  <2>5. noticed = [keys    |-> out.keys \cup UNION {x.keys : x \in told},
                   dropped |-> out.dropped \cup UNION {x.dropped : x \in told}]
    BY DEF NotifyDisconnectToCardlessThreads
  <2> HIDE DEF told, noticed
  <2>6. Sound(noticed, FALSE)
    BY <2>3, <2>4, <2>5, UnionSound
  <2>7. Sound(Residue(Threads, noticed), FALSE)
    BY <2>3, <2>6, ResidueSound
  <2> QED BY <2>1, <2>2, <2>7 DEF Queued
<1>6. ASSUME NEW t \in Threads, Ticks(t) PROVE Queued'
  BY <1>1, <1>2, <1>6, TickSound
<1>7. ASSUME NEW t \in Threads, NEW item \in Items, MessageAsText(t, item) PROVE Queued'
  <2> DEFINE r == [thread |-> t, turn |-> turns[t], item |-> item]
  <2>1. out' = Fallback(r) /\ running[t]
    BY <1>7 DEF MessageAsText, Says, Fallback
  <2>2. r \in Replies
    BY <2>1 DEF Replies, Counted
  <2> HIDE DEF r
  <2> QED BY <1>1, <1>2, <2>1, <2>2, FallbackSound
<1>8. ASSUME NEW j \in planning, DeliverChangedFiles(j) PROVE Queued'
  <2>1. out' = out \/ out' = Fallback(Reply(j))
    BY <1>8 DEF DeliverChangedFiles, Reply
  <2>2. Reply(j) \in Replies
    BY DEF Answers
  <2> QED BY <1>1, <1>2, <2>1, <2>2, FallbackSound
<1>9. ASSUME NEW p \in patches, PatchSettles(p) PROVE Queued'
  <2>1. out' = out \/ (p.reply # NoReply /\ out' = Fallback(p.reply))
    BY <1>9 DEF PatchSettles, routeVars
  <2>2. p.reply # NoReply => p.reply \in Replies
    BY DEF Answers
  <2> QED BY <1>1, <1>2, <2>1, <2>2, FallbackSound
<1>10. ASSUME \/ \E t \in Threads : \/ CardEvent(t) \/ FlushCard(t) \/ \E k \in Channel : Rebind(t, k)
                                    \/ \E item \in Items : MessageClaimsCard(t, item)
              \/ \E c \in opening : OpenSettles(c)
              \/ Restart
       PROVE  Queued'
  <2>1. UNCHANGED out
    BY <1>10 DEF CardEvent, FlushCard, Rebind, MessageClaimsCard, OpenSettles, Restart, routeVars
  <2> QED BY <1>1, <1>2, <2>1
<1> QED BY <1>3, <1>4, <1>5, <1>6, <1>7, <1>8, <1>9, <1>10 DEF Next, CodexEvent, Timers, Ticks

---------------------------------------------------------------------------
(***************************************************************************)
(* A claimed card is not updated.                                          *)
(***************************************************************************)
(* The variables of cards, and of the turns they belong to.                 *)
LEMMA CardedSame ==
  ASSUME Counted, Carded, UNCHANGED <<cards, opening, detached, turns>>,
         DOMAIN shown \subseteq DOMAIN shown'
  PROVE  Carded'
BY DEF Carded, Past, HasThreadCard

(* Detaching takes the cards of ts, and no other thread shows them.         *)
LEMMA DetachKeeps ==
  ASSUME Counted, Carded, NEW ts \in SUBSET Threads, Detach(ts), UNCHANGED <<opening, turns>>,
         DOMAIN shown \subseteq DOMAIN shown'
  PROVE  Carded'
<1>1. /\ cards' = [t \in Threads |-> IF t \in ts THEN NoCard ELSE cards[t]]
      /\ detached' = detached \cup {cards[t].card : t \in {x \in ts : HasThreadCard(x)}}
  BY DEF Detach
<1>2. \A c \in detached' : Past(c) /\ c \notin opening
  BY <1>1 DEF Carded
<1>3. \A t \in Threads \ ts : HasThreadCard(t) => cards[t].card \notin detached'
  <2> SUFFICES ASSUME NEW t \in Threads \ ts, HasThreadCard(t), cards[t].card \in detached'
               PROVE  FALSE
    OBVIOUS
  <2>1. PICK x \in ts : HasThreadCard(x) /\ cards[t].card = cards[x].card
    BY <1>1 DEF Carded
  <2> QED BY <2>1 DEF Carded
<1>4. \A t \in Threads : HasThreadCard(t)' => t \notin ts /\ HasThreadCard(t) /\ cards'[t] = cards[t]
  BY <1>1 DEF HasThreadCard
<1>5. cards' \in [Threads -> Sessions \cup {NoCard}]
  BY <1>1 DEF Carded
<1>6. \A c : Past(c)' <=> Past(c)
  BY DEF Past
<1>7. \A t \in Threads : HasThreadCard(t)' =>
         /\ cards'[t] \in Sessions /\ cards'[t].card[1] = t /\ Past(cards'[t].card)
         /\ cards'[t].card \in DOMAIN shown'
         /\ cards'[t].card \notin detached' /\ cards'[t].card \notin opening'
  BY <1>3, <1>4 DEF Carded
<1> QED BY <1>2, <1>5, <1>6, <1>7 DEF Carded

LEMMA CardedStep ==
  ASSUME Counted, Carded, Next
  PROVE  Carded'
<1>1. ASSUME NEW t \in Threads, TurnStarted(t) PROVE Carded'
  <2>1. /\ turns' = [turns EXCEPT ![t] = @ + 1] /\ turns[t] + 1 \in 1 .. MaxTurns
        /\ opening' \subseteq opening \cup {<<t, turns[t] + 1>>}
        /\ UNCHANGED <<cards, shown, detached>>
    BY <1>1, RoutingAssumption DEF TurnStarted, Counted
  <2>0. PICK c : c = <<t, turns[t] + 1>>
    OBVIOUS
  <2>2. \A x \in TurnIds : Past(x) => Past(x)'
    BY <2>1 DEF Counted, Past, TurnIds
  <2>3. Past(c)' /\ ~Past(c)
    BY <2>0, <2>1 DEF Counted, Past, TurnIds
  <2>4. \A x : Past(x) => Past(x)'
    BY <2>2 DEF Past
  <2>5. opening' \subseteq opening \cup {c}
    BY <2>0, <2>1
  <2>6. \A x \in opening' : Past(x)' /\ x \notin detached
    BY <2>3, <2>4, <2>5 DEF Carded
  <2>7. \A x \in Threads : HasThreadCard(x)' =>
          /\ cards[x] \in Sessions /\ cards[x].card[1] = x /\ Past(cards[x].card)
          /\ cards[x].card \in DOMAIN shown
          /\ cards[x].card \notin detached /\ cards[x].card \notin opening
    BY <2>1 DEF Carded, HasThreadCard
  <2>8. \A x \in Threads : HasThreadCard(x)' => Past(cards[x].card)' /\ cards[x].card \notin opening'
    <3> SUFFICES ASSUME NEW x \in Threads, HasThreadCard(x)'
                 PROVE  Past(cards[x].card)' /\ cards[x].card \notin opening'
      OBVIOUS
    <3>1. PICK d : d = cards[x].card
      OBVIOUS
    <3>2. Past(d)' /\ d \notin opening'
      BY <2>3, <2>4, <2>5, <2>7, <3>1
    <3>3. cards'[x].card = d
      BY <2>1, <3>1
    <3> QED BY <3>1, <3>2, <3>3
  <2> QED BY <2>1, <2>4, <2>6, <2>7, <2>8 DEF Carded
<1>2. ASSUME NEW t \in Threads, TurnCompleted(t) \/ TurnError(t) PROVE Carded'
  <2>1. UNCHANGED <<turns, opening, shown>> /\ Detach(IF LiveCards(t) THEN {t} ELSE {})
    BY <1>2 DEF TurnCompleted, TurnError, FinishThreadCards
  <2> DEFINE ts == IF LiveCards(t) THEN {t} ELSE {}
  <2>2. ts \in SUBSET Threads
    OBVIOUS
  <2> QED BY <2>1, <2>2, DetachKeeps
<1>3. ASSUME ConnectionLost PROVE Carded'
  <2>1. UNCHANGED <<turns, opening, shown>> /\ Detach(Threads)
    BY <1>3 DEF ConnectionLost, FinishLiveCardsForDisconnect, FinishAllLiveCards, FinishThreadCards
  <2> QED BY <2>1, DetachKeeps
<1>4. ASSUME NEW t \in Threads, NEW item \in Items, MessageClaimsCard(t, item) PROVE Carded'
  <2>1. UNCHANGED <<turns, opening, shown>> /\ Detach({t})
    BY <1>4 DEF MessageClaimsCard
  <2> QED BY <2>1, DetachKeeps
<1>5. ASSUME NEW c \in opening, OpenSettles(c) PROVE Carded'
  <2>1. Past(c) /\ c \notin detached /\ c \in TurnIds /\ c[1] \in Threads
    BY DEF Carded, Past, TurnIds
  <2>2. CASE CardOpened(c) /\ UNCHANGED turns
    <3>1. /\ opening' = opening \ {c} /\ cards' = [cards EXCEPT ![c[1]] = Session(c)]
          /\ DOMAIN shown' = DOMAIN shown \cup {c} /\ detached' = detached
      BY <2>2 DEF CardOpened
    <3>2. Session(c) \in Sessions /\ Session(c).card = c
      BY <2>1 DEF Session, Sessions
    <3>3. \A x : Past(x)' <=> Past(x)
      BY <2>2 DEF Past
    <3>4. cards' \in [Threads -> Sessions \cup {NoCard}]
      BY <3>1, <3>2 DEF Carded
    <3>5. \A t \in Threads : cards'[t] = IF t = c[1] THEN Session(c) ELSE cards[t]
      BY <3>1 DEF Carded
    <3> QED BY <2>1, <3>1, <3>2, <3>3, <3>4, <3>5 DEF Carded, HasThreadCard
  <2>3. CASE OpenFails(c) /\ UNCHANGED turns
    BY <2>3 DEF OpenFails, Carded, HasThreadCard, Past
  <2> QED BY <1>5, <2>2, <2>3 DEF OpenSettles, envVars
<1>6. ASSUME NEW t \in Threads, CardEvent(t) \/ FlushCard(t) PROVE Carded'
  <2>1. UNCHANGED <<turns, opening, shown, detached>>
    BY <1>6 DEF CardEvent, FlushCard, UpdateThreadCard, FlushThreadCard, envVars
  <2>2. CASE UNCHANGED cards
    BY <2>1, <2>2, CardedSame
  <2>3. CASE HasThreadCard(t) /\ cards' = [cards EXCEPT ![t] = [@ EXCEPT !.pending = TRUE, !.timer = TRUE]]
    <3> DEFINE n == [cards[t] EXCEPT !.pending = TRUE, !.timer = TRUE]
    <3>1. cards' = [cards EXCEPT ![t] = n]
      BY <2>3
    <3>2. n \in Sessions /\ n.card = cards[t].card
      BY <2>3 DEF Carded, Sessions
    <3> HIDE DEF n
    <3>3. \A x \in Threads : cards'[x] = IF x = t THEN n ELSE cards[x]
      BY <3>1 DEF Carded
    <3>4. cards' \in [Threads -> Sessions \cup {NoCard}]
      BY <3>1, <3>2 DEF Carded
    <3>5. \A x : Past(x)' <=> Past(x)
      BY <2>1 DEF Past
    <3> QED BY <2>1, <2>3, <3>2, <3>3, <3>4, <3>5 DEF Carded, HasThreadCard
  <2>4. CASE HasThreadCard(t) /\ cards' = [cards EXCEPT ![t] = Session(@.card)]
    <3> DEFINE n == Session(cards[t].card)
    <3>1. cards' = [cards EXCEPT ![t] = n]
      BY <2>4
    <3>2. n \in Sessions /\ n.card = cards[t].card
      BY <2>4 DEF Carded, Sessions, Session
    <3> HIDE DEF n
    <3>3. \A x \in Threads : cards'[x] = IF x = t THEN n ELSE cards[x]
      BY <3>1 DEF Carded
    <3>4. cards' \in [Threads -> Sessions \cup {NoCard}]
      BY <3>1, <3>2 DEF Carded
    <3>5. \A x : Past(x)' <=> Past(x)
      BY <2>1 DEF Past
    <3> QED BY <2>1, <2>4, <3>2, <3>3, <3>4, <3>5 DEF Carded, HasThreadCard
  <2> QED BY <1>6, <2>2, <2>3, <2>4 DEF CardEvent, FlushCard, UpdateThreadCard, FlushThreadCard
<1>7. ASSUME NEW p \in patches, PatchSettles(p) PROVE Carded'
  <2>1. UNCHANGED <<turns, cards, opening, detached>> /\ DOMAIN shown' = DOMAIN shown
    BY <1>7 DEF PatchSettles, PatchLands, PatchFails, envVars
  <2> QED BY <2>1, CardedSame
<1>8. ASSUME \/ \E t \in Threads : \/ Ticks(t) \/ \E k \in Channel : Rebind(t, k)
                                   \/ \E item \in Items : MessageAsText(t, item)
             \/ \E j \in planning : DeliverChangedFiles(j)
      PROVE  Carded'
  <2>1. UNCHANGED <<turns, cards, opening, detached, shown>>
    BY <1>8 DEF Ticks, Milestone, FlushTimer, IntervalElapses, RunHeartbeat, Rebind, MessageAsText,
                DeliverChangedFiles, envVars, cardVars
  <2> QED BY <2>1, CardedSame
<1>9. ASSUME Restart PROVE Carded'
  <2>1. /\ cards' = [t \in Threads |-> NoCard] /\ opening' = {} /\ UNCHANGED <<turns, detached>>
    BY <1>9 DEF Restart
  <2> QED BY <2>1 DEF Carded, HasThreadCard, Past
<1> QED BY <1>1, <1>2, <1>3, <1>4, <1>5, <1>6, <1>7, <1>8, <1>9
        DEF Next, CodexEvent, Timers, Ticks

LEMMA AnswersStep ==
  ASSUME Counted, Answers, Next
  PROVE  Answers'
<1>1. \A c : Past(c) => Past(c)'
  <2>1. CASE UNCHANGED turns
    BY <2>1 DEF Past
  <2>2. ASSUME NEW t \in Threads, TurnStarted(t) PROVE \A c : Past(c) => Past(c)'
    <3>1. turns' = [turns EXCEPT ![t] = @ + 1]
      BY <2>2 DEF TurnStarted
    <3> QED BY <3>1 DEF Past, Counted, TurnIds
  <2>3. UNCHANGED turns \/ \E t \in Threads : TurnStarted(t)
    <3>1. ASSUME NEW t \in Threads, CodexEvent(t) PROVE UNCHANGED turns \/ TurnStarted(t)
      BY <3>1 DEF CodexEvent, TurnCompleted, TurnError, CardEvent, Milestone,
                  MessageAsText, MessageClaimsCard, envVars
    <3>2. ASSUME NEW t \in Threads, Timers(t) PROVE UNCHANGED turns
      BY <3>2 DEF Timers, FlushTimer, IntervalElapses, RunHeartbeat, FlushCard, envVars
    <3>3. ASSUME \/ \E t \in Threads, k \in Channel : Rebind(t, k)
                 \/ \E j \in planning : DeliverChangedFiles(j)
                 \/ \E c \in opening : OpenSettles(c)
                 \/ \E p \in patches : PatchSettles(p)
                 \/ ConnectionLost \/ Restart
          PROVE  UNCHANGED turns
      BY <3>3 DEF Rebind, DeliverChangedFiles, OpenSettles, PatchSettles, ConnectionLost, Restart, envVars
    <3> QED BY <3>1, <3>2, <3>3 DEF Next
  <2> QED BY <2>1, <2>2, <2>3
<1>2. ASSUME \A j \in planning' : j \in planning \/ (Reply(j) \in Replies /\ Past(TurnOf(j))),
             \A p \in patches' : p \in patches \/ p.reply = NoReply \/ p.reply \in Replies
      PROVE  Answers'
  <2>1. \A j \in planning' : Reply(j) \in Replies /\ Past(TurnOf(j))
    BY <1>2 DEF Answers
  <2>2. \A p \in patches' : p.reply = NoReply \/ p.reply \in Replies
    BY <1>2 DEF Answers
  <2>3. \A j \in planning' : Past(TurnOf(j))'
    BY <1>1, <2>1 DEF TurnOf
  <2> QED BY <2>1, <2>2, <2>3 DEF Answers
<1>3. ASSUME NEW ts, FinishThreadCards(ts)
      PROVE  \A p \in patches' : p \in patches \/ p.reply = NoReply \/ p.reply \in Replies
  BY <1>3 DEF FinishThreadCards, Patch
<1>4. ASSUME NEW t \in Threads, TurnCompleted(t) \/ TurnError(t) PROVE Answers'
  <2>1. planning' = planning /\ \E ts : FinishThreadCards(ts)
    BY <1>4 DEF TurnCompleted, TurnError
  <2> QED BY <1>2, <1>3, <2>1
<1>5. ASSUME ConnectionLost PROVE Answers'
  <2>1. planning' = planning /\ \E ts : FinishThreadCards(ts)
    BY <1>5 DEF ConnectionLost, FinishLiveCardsForDisconnect, FinishAllLiveCards
  <2> QED BY <1>2, <1>3, <2>1
<1>6. ASSUME NEW t \in Threads, NEW item \in Items, MessageClaimsCard(t, item) PROVE Answers'
  <2> DEFINE j == [thread |-> t, turn |-> turns[t], item |-> item,
                   card |-> IF HasThreadCard(t) THEN cards[t].card ELSE NoCard]
  <2>1. planning' = planning \cup {j} /\ patches' = patches /\ running[t]
    BY <1>6 DEF MessageClaimsCard, Says
  <2>2. turns[t] \in 1 .. MaxTurns
    BY <2>1 DEF Counted
  <2>3. Reply(j) \in Replies /\ Past(TurnOf(j))
    BY <2>2 DEF Reply, Replies, TurnOf, Past, TurnIds, Counted
  <2> HIDE DEF j
  <2> QED BY <1>2, <2>1, <2>3
<1>7. ASSUME NEW j \in planning, DeliverChangedFiles(j) PROVE Answers'
  <2>1. planning' \subseteq planning
        /\ (patches' = patches \/ patches' = patches \cup {Patch(j.card, TRUE, Reply(j))})
    BY <1>7 DEF DeliverChangedFiles, Reply
  <2>2. Patch(j.card, TRUE, Reply(j)).reply \in Replies
    BY DEF Patch, Answers
  <2> QED BY <1>2, <2>1, <2>2
<1>8. ASSUME NEW t \in Threads, FlushCard(t) PROVE Answers'
  <2>1. planning' = planning
        /\ patches' \subseteq patches \cup {Patch(cards[t].card, FALSE, NoReply)}
    BY <1>8 DEF FlushCard, FlushThreadCard, routeVars
  <2>2. Patch(cards[t].card, FALSE, NoReply).reply = NoReply
    BY DEF Patch
  <2> QED BY <1>2, <2>1, <2>2
<1>9. ASSUME \/ \E p \in patches : PatchSettles(p)
             \/ Restart
             \/ \E c \in opening : OpenSettles(c)
             \/ \E t \in Threads : \/ TurnStarted(t) \/ CardEvent(t) \/ Ticks(t)
                                   \/ \E k \in Channel : Rebind(t, k)
                                   \/ \E item \in Items : MessageAsText(t, item)
      PROVE  Answers'
  <2>1. planning' \subseteq planning /\ patches' \subseteq patches
    <3>1. CASE (\E p \in patches : PatchSettles(p)) \/ Restart \/ \E c \in opening : OpenSettles(c)
      BY <3>1 DEF PatchSettles, PatchLands, PatchFails, Restart, OpenSettles, CardOpened, OpenFails,
                  routeVars
    <3>2. ASSUME NEW t \in Threads, \/ TurnStarted(t) \/ CardEvent(t) \/ Ticks(t)
                                    \/ \E k \in Channel : Rebind(t, k)
                                    \/ \E item \in Items : MessageAsText(t, item)
          PROVE  UNCHANGED <<planning, patches>>
      BY <3>2 DEF TurnStarted, CardEvent, UpdateThreadCard, Ticks, Milestone, FlushTimer,
                  IntervalElapses, RunHeartbeat, Rebind, MessageAsText, routeVars, cardVars
    <3> QED BY <1>9, <3>1, <3>2
  <2> QED BY <1>2, <2>1
<1> QED BY <1>4, <1>5, <1>6, <1>7, <1>8, <1>9 DEF Next, CodexEvent, Timers, Ticks

---------------------------------------------------------------------------
(***************************************************************************)
(* The files of a turn.                                                    *)
(***************************************************************************)
(* What Filing needs of a step that claims and files nothing: markers,      *)
(* cards and running turns only go, errors and late cards only come.        *)
Settles ==
  /\ UNCHANGED <<turns, filed, filedTwice>> /\ planning' \subseteq planning
  /\ erred \subseteq erred' /\ late \subseteq late' /\ \A c \in late' : Past(c)
  /\ \A t \in filesDone' : HasThreadCard(t)' => OpenedLate(t) \/ OpenedLate(t)'
  /\ \A t \in Threads : running'[t] /\ Turn(t) \notin erred' =>
       running[t] /\ (t \in filesDone => t \in filesDone')

LEMMA SettlesKeeps ==
  ASSUME Filing, Settles
  PROVE  Filing'
<1>1. /\ turns' = turns /\ filed' = filed /\ filedTwice' = filedTwice /\ planning' \subseteq planning
      /\ erred \subseteq erred' /\ late \subseteq late'
  BY DEF Settles
<1>2. \A c : (Past(c)' <=> Past(c)) /\ (Claimed(c)' => Claimed(c))
  BY <1>1 DEF Past, Claimed
<1>3. \A t : (Turn(t)' = Turn(t)) /\ (OpenedLate(t) => OpenedLate(t)')
  BY <1>1 DEF Turn, OpenedLate
<1>4. filedTwice' \subseteq filed' /\ \A c \in filed' \cup late' : Past(c)'
  BY <1>1, <1>2 DEF Filing, Settles
<1>5. \A t \in filesDone' : HasThreadCard(t)' => OpenedLate(t)'
  BY <1>3 DEF Settles
<1>6. \A t \in Threads : running'[t] /\ Claimed(Turn(t))' /\ Turn(t)' \notin erred' => t \in filesDone'
  <2> SUFFICES ASSUME NEW t \in Threads, running'[t], Claimed(Turn(t))', Turn(t)' \notin erred'
               PROVE  t \in filesDone'
    OBVIOUS
  <2>1. PICK c : c = Turn(t)
    OBVIOUS
  <2>2. Claimed(c)'
    BY <1>3, <2>1
  <2> QED BY <1>1, <1>2, <1>3, <2>1, <2>2 DEF Filing, Settles
<1>7. \A i, j \in planning' : TurnOf(i) = TurnOf(j) => i = j \/ TurnOf(i) \in erred'
  BY <1>1 DEF Filing
<1>8. \A j \in planning' : TurnOf(j) \in filed' => TurnOf(j) \in erred' \/ OpenedLate(j.thread)'
  BY <1>1, <1>3 DEF Filing
<1>9. FilesOnceIfTimely'
  BY <1>1, <1>3 DEF Filing, FilesOnceIfTimely
<1> QED BY <1>4, <1>5, <1>6, <1>7, <1>8, <1>9 DEF Filing

(* A turn that runs without its marker was claimed before an error.         *)
LEMMA UnmarkedErred ==
  ASSUME Filing, NEW t \in Threads, running[t], t \notin filesDone, Claimed(Turn(t))
  PROVE  Turn(t) \in erred
BY DEF Filing

LEMMA StartFiles ==
  ASSUME Counted, Answers, Filing, NEW t \in Threads, TurnStarted(t)
  PROVE  Filing'
<1>1. /\ turns' = [turns EXCEPT ![t] = @ + 1] /\ running' = [running EXCEPT ![t] = TRUE]
      /\ filesDone' = filesDone \ {t}
      /\ UNCHANGED <<planning, filed, filedTwice, erred, late, cards>>
  BY DEF TurnStarted
<1>2. \A c : Past(c) => Past(c)'
  BY <1>1 DEF Past, Counted, TurnIds
<1>3. \A c : (Claimed(c)' <=> Claimed(c)) /\ (Claimed(c) => Past(c))
  BY <1>1 DEF Claimed, Filing, Answers
<1>4. \A x : (OpenedLate(x)' <=> OpenedLate(x)) /\ (HasThreadCard(x)' <=> HasThreadCard(x))
  BY <1>1 DEF OpenedLate, HasThreadCard
<1>5. PICK c : c = <<t, turns[t] + 1>>
  OBVIOUS
<1>6. ~Past(c) /\ Turn(t)' = c
  BY <1>1, <1>5 DEF Past, Turn, Counted, TurnIds
<1>7. \A x \in Threads : running'[x] /\ Claimed(Turn(x))' /\ Turn(x)' \notin erred' => x \in filesDone'
  <2> SUFFICES ASSUME NEW x \in Threads, running'[x], Claimed(Turn(x))', Turn(x)' \notin erred'
               PROVE  x \in filesDone'
    OBVIOUS
  <2>1. PICK d : d = Turn(x)'
    OBVIOUS
  <2>2. Claimed(d)'
    BY <2>1
  <2>3. x # t
    BY <1>3, <1>6, <2>1, <2>2
  <2>4. Turn(x)' = Turn(x) /\ running[x]
    BY <1>1, <2>3 DEF Turn, Counted
  <2> QED BY <1>1, <1>3, <2>1, <2>2, <2>3, <2>4 DEF Filing
<1>8. FilesOnceIfTimely'
  BY <1>1, <1>4 DEF FilesOnceIfTimely, Filing
<1> QED BY <1>1, <1>2, <1>4, <1>7, <1>8 DEF Filing

LEMMA CompleteFiles ==
  ASSUME Counted, Answers, Filing, NEW t \in Threads, TurnCompleted(t)
  PROVE  Filing'
<1>1. /\ running[t] /\ running' = [running EXCEPT ![t] = FALSE] /\ filesDone' = filesDone \ {t}
      /\ UNCHANGED <<turns, planning, erred, late>>
      /\ Detach(IF LiveCards(t) THEN {t} ELSE {})
      /\ \/ UNCHANGED <<filed, filedTwice>>
         \/ HasThreadCard(t) /\ Files(Turn(t))
  BY DEF TurnCompleted, FinishThreadCards
<1>2. \A x \in Threads : HasThreadCard(x)' => HasThreadCard(x)
  BY <1>1 DEF Detach, HasThreadCard
<1>3. CASE UNCHANGED <<filed, filedTwice>>
  <2>1. Settles
    BY <1>1, <1>2, <1>3 DEF Settles, Filing, Counted
  <2> QED BY <2>1, SettlesKeeps
<1>4. CASE HasThreadCard(t) /\ Files(Turn(t))
  <2>1. filed' = filed \cup {Turn(t)} /\ filedTwice' = filedTwice \cup ({Turn(t)} \cap filed)
    BY <1>4 DEF Files
  <2>2. Past(Turn(t)) /\ Turn(t)[1] = t
    BY <1>1 DEF Past, Turn, TurnIds, Counted
  <2>3. Claimed(Turn(t)) => Turn(t) \in erred \/ OpenedLate(t)
    BY <1>1, <1>4 DEF Filing
  <2>4. \A x : (Past(x)' <=> Past(x)) /\ (Turn(x)' = Turn(x)) /\ (OpenedLate(x)' <=> OpenedLate(x))
    BY <1>1 DEF Past, Turn, OpenedLate
  <2>5. \A x \in Threads : running'[x] => x # t /\ running[x] /\ Turn(x) # Turn(t)
    BY <1>1 DEF Counted, Turn
  <2>6. \A c : Claimed(c)' => Claimed(c) \/ c = Turn(t)
    BY <1>1, <2>1 DEF Claimed
  <2>7. \A x \in Threads : running'[x] /\ Claimed(Turn(x))' /\ Turn(x)' \notin erred' => x \in filesDone'
    <3> SUFFICES ASSUME NEW x \in Threads, running'[x], Claimed(Turn(x))', Turn(x)' \notin erred'
                 PROVE  x \in filesDone'
      OBVIOUS
    <3>1. PICK d : d = Turn(x)
      OBVIOUS
    <3>2. Claimed(d)'
      BY <2>4, <3>1
    <3> QED BY <1>1, <2>4, <2>5, <2>6, <3>1, <3>2 DEF Filing
  <2>8. \A j \in planning : TurnOf(j) \in filed' => TurnOf(j) \in erred \/ OpenedLate(j.thread)
    <3> SUFFICES ASSUME NEW j \in planning, TurnOf(j) \in filed'
                 PROVE  TurnOf(j) \in erred \/ OpenedLate(j.thread)
      OBVIOUS
    <3>1. CASE TurnOf(j) \in filed
      BY <3>1 DEF Filing
    <3>2. CASE TurnOf(j) = Turn(t)
      <4>1. Claimed(Turn(t)) /\ j.thread = t
        BY <3>2 DEF Claimed, TurnOf, Turn
      <4> QED BY <2>3, <3>2, <4>1
    <3> QED BY <2>1, <3>1, <3>2
  <2>9. \A c \in filedTwice' : c \in erred \/ OpenedLate(c[1])
    BY <2>1, <2>2, <2>3 DEF Filing, FilesOnceIfTimely, Claimed
  <2>10. FilesOnceIfTimely'
    BY <1>1, <2>4, <2>9 DEF FilesOnceIfTimely
  <2>11. filedTwice' \subseteq filed' /\ \A c \in filed' \cup late' : Past(c)'
    BY <1>1, <2>1, <2>2, <2>4 DEF Filing
  <2>12. \A x \in filesDone' : HasThreadCard(x)' => OpenedLate(x)'
    BY <1>1, <1>2, <2>4 DEF Filing, Counted
  <2>13. \A j \in planning' : TurnOf(j) \in filed' => TurnOf(j) \in erred' \/ OpenedLate(j.thread)'
    BY <1>1, <2>4, <2>8
  <2> QED BY <1>1, <2>7, <2>10, <2>11, <2>12, <2>13 DEF Filing
<1> QED BY <1>1, <1>3, <1>4

LEMMA ClaimFiles ==
  ASSUME Counted, Filing, NEW t \in Threads, NEW item \in Items, MessageClaimsCard(t, item)
  PROVE  Filing'
<1> DEFINE new == [thread |-> t, turn |-> turns[t], item |-> item,
                   card |-> IF HasThreadCard(t) THEN cards[t].card ELSE NoCard]
<1>1. /\ running[t] /\ t \notin filesDone /\ filesDone' = filesDone \cup {t}
      /\ planning' = planning \cup {new} /\ Detach({t})
      /\ UNCHANGED <<filed, filedTwice, running, turns, erred, late>>
  BY DEF MessageClaimsCard, Says
<1>2. TurnOf(new) = Turn(t) /\ new.thread = t
  BY DEF TurnOf, Turn
<1> HIDE DEF new
<1>3. Claimed(Turn(t)) => Turn(t) \in erred
  BY <1>1, UnmarkedErred
<1>4. \A x : (Past(x)' <=> Past(x)) /\ (Turn(x)' = Turn(x)) /\ (OpenedLate(x)' <=> OpenedLate(x))
  BY <1>1 DEF Past, Turn, OpenedLate
<1>5. \A x \in filesDone' : HasThreadCard(x)' => OpenedLate(x)'
  <2>1. \A x \in Threads : HasThreadCard(x)' => x # t /\ HasThreadCard(x)
    BY <1>1 DEF Detach, HasThreadCard
  <2> QED BY <1>1, <1>4, <2>1 DEF Filing, Counted
<1>6. \A c : Claimed(c)' => Claimed(c) \/ c = Turn(t)
  BY <1>1, <1>2 DEF Claimed
<1>7. \A x \in Threads : running'[x] /\ Claimed(Turn(x))' /\ Turn(x)' \notin erred' => x \in filesDone'
  <2> SUFFICES ASSUME NEW x \in Threads, running'[x], Claimed(Turn(x))', Turn(x)' \notin erred', x # t
               PROVE  x \in filesDone'
    BY <1>1
  <2>1. PICK d : d = Turn(x)
    OBVIOUS
  <2>2. Claimed(d)' /\ d # Turn(t)
    BY <1>4, <2>1 DEF Turn
  <2> QED BY <1>1, <1>4, <1>6, <2>1, <2>2 DEF Filing
<1>8. \A i, j \in planning' : TurnOf(i) = TurnOf(j) => i = j \/ TurnOf(i) \in erred'
  <2>1. \A i \in planning : TurnOf(i) = Turn(t) => Turn(t) \in erred
    BY <1>3 DEF Claimed
  <2> QED BY <1>1, <1>2, <2>1 DEF Filing
<1>9. \A j \in planning' : TurnOf(j) \in filed' => TurnOf(j) \in erred' \/ OpenedLate(j.thread)'
  BY <1>1, <1>2, <1>3, <1>4 DEF Filing, Claimed
<1>10. FilesOnceIfTimely' /\ filedTwice' \subseteq filed' /\ \A c \in filed' \cup late' : Past(c)'
  BY <1>1, <1>4 DEF Filing, FilesOnceIfTimely
<1> QED BY <1>5, <1>7, <1>8, <1>9, <1>10 DEF Filing

LEMMA DeliverFiles ==
  ASSUME Counted, Answers, Filing, NEW j \in planning, DeliverChangedFiles(j)
  PROVE  Filing'
<1>1. /\ planning' = planning \ {j} /\ filed' = filed \cup {TurnOf(j)}
      /\ filedTwice' = filedTwice \cup ({TurnOf(j)} \cap filed)
      /\ UNCHANGED <<filesDone, running, turns, erred, late, cards>>
  BY DEF DeliverChangedFiles, Files, TurnOf, envVars
<1>2. Past(TurnOf(j)) /\ TurnOf(j)[1] = j.thread
  BY DEF Answers, TurnOf
<1>3. \A x : /\ (Past(x)' <=> Past(x)) /\ (Turn(x)' = Turn(x)) /\ (OpenedLate(x)' <=> OpenedLate(x))
             /\ (HasThreadCard(x)' <=> HasThreadCard(x))
  BY <1>1 DEF Past, Turn, OpenedLate, HasThreadCard
<1>4. \A c : Claimed(c)' => Claimed(c)
  BY <1>1 DEF Claimed
<1>5. \A x \in Threads : running'[x] /\ Claimed(Turn(x))' /\ Turn(x)' \notin erred' => x \in filesDone'
  <2> SUFFICES ASSUME NEW x \in Threads, running'[x], Claimed(Turn(x))', Turn(x)' \notin erred'
               PROVE  x \in filesDone'
    OBVIOUS
  <2>1. PICK d : d = Turn(x)
    OBVIOUS
  <2>2. Claimed(d)'
    BY <1>3, <2>1
  <2> QED BY <1>1, <1>3, <1>4, <2>1, <2>2 DEF Filing
<1>6. \A i \in planning' : TurnOf(i) \in filed' => TurnOf(i) \in erred' \/ OpenedLate(i.thread)'
  <2> SUFFICES ASSUME NEW i \in planning', TurnOf(i) \in filed'
               PROVE  TurnOf(i) \in erred \/ OpenedLate(i.thread)
    BY <1>1, <1>3
  <2>1. CASE TurnOf(i) \in filed
    BY <1>1, <2>1 DEF Filing
  <2>2. CASE TurnOf(i) = TurnOf(j)
    BY <1>1, <2>2 DEF Filing
  <2> QED BY <1>1, <2>1, <2>2
<1>7. \A c \in filedTwice' : c \in erred \/ OpenedLate(c[1])
  BY <1>1, <1>2 DEF Filing, FilesOnceIfTimely
<1>8. FilesOnceIfTimely'
  BY <1>1, <1>3, <1>7 DEF FilesOnceIfTimely
<1> QED BY <1>1, <1>2, <1>3, <1>5, <1>6, <1>8 DEF Filing

LEMMA FilingStep ==
  ASSUME Counted, Watched, Carded, Answers, Filing, Next
  PROVE  Filing'
<1>1. ASSUME NEW t \in Threads, TurnError(t) PROVE Filing'
  <2>1. /\ erred' = erred \cup {Turn(t)} /\ filesDone' = filesDone \ {t}
        /\ Detach(IF LiveCards(t) THEN {t} ELSE {})
        /\ UNCHANGED <<turns, planning, filed, filedTwice, running, late>>
    BY <1>1 DEF TurnError, FinishThreadCards
  <2>2. \A x \in Threads : HasThreadCard(x)' => HasThreadCard(x)
    BY <2>1 DEF Detach, HasThreadCard
  <2>3. Settles
    BY <2>1, <2>2 DEF Settles, Filing, Counted
  <2> QED BY <2>3, SettlesKeeps
<1>2. ASSUME ConnectionLost \/ Restart PROVE Filing'
  <2>1. /\ UNCHANGED <<turns, filed, filedTwice, erred, late>> /\ planning' \subseteq planning
        /\ filesDone' = {} /\ running' = [t \in Threads |-> FALSE]
    BY <1>2 DEF ConnectionLost, FinishLiveCardsForDisconnect, Restart
  <2>2. Settles
    BY <2>1 DEF Settles, Filing
  <2> QED BY <2>2, SettlesKeeps
<1>3. ASSUME NEW c \in opening, OpenSettles(c) PROVE Filing'
  <2>1. UNCHANGED <<turns, filed, filedTwice, planning, erred, filesDone, running>>
    BY <1>3 DEF OpenSettles, routeVars, envVars
  <2>2. CASE CardOpened(c) /\ late' = IF running[c[1]] /\ Turn(c[1]) = c /\ c[1] \notin filesDone
                                     THEN late ELSE late \cup {c}
    <3>1. late \subseteq late' /\ \A x \in late' : Past(x)
      BY <2>2 DEF Filing, Carded
    <3>2. \A x \in Threads : x # c[1] => (HasThreadCard(x)' => HasThreadCard(x))
      BY <2>2 DEF CardOpened, HasThreadCard, Carded
    <3>3. c[1] \in filesDone => OpenedLate(c[1])'
      BY <2>2 DEF OpenedLate
    <3>4. \A x \in filesDone' : HasThreadCard(x)' => OpenedLate(x) \/ OpenedLate(x)'
      <4> SUFFICES ASSUME NEW x \in filesDone, HasThreadCard(x)'
                   PROVE  OpenedLate(x) \/ OpenedLate(x)'
        BY <2>1
      <4>1. CASE x = c[1]
        <5>1. \E y \in late' : y[1] = x
          BY <3>3, <4>1 DEF OpenedLate
        <5> QED BY <5>1 DEF OpenedLate
      <4>2. CASE x # c[1]
        BY <3>2, <4>2 DEF Filing, Counted
      <4> QED BY <4>1, <4>2
    <3>5. Settles
      BY <2>1, <3>1, <3>4 DEF Settles
    <3> QED BY <3>5, SettlesKeeps
  <2>3. CASE UNCHANGED <<cards, late>>
    <3>1. \A x : HasThreadCard(x)' <=> HasThreadCard(x)
      BY <2>3 DEF HasThreadCard
    <3>2. Settles
      BY <2>1, <2>3, <3>1 DEF Settles, Filing
    <3> QED BY <3>2, SettlesKeeps
  <2> QED BY <1>3, <2>2, <2>3 DEF OpenSettles, OpenFails, envVars
<1>4. ASSUME NEW t \in Threads, CardEvent(t) \/ FlushCard(t) PROVE Filing'
  <2>1. UNCHANGED <<turns, filed, filedTwice, planning, erred, late, filesDone, running>>
    BY <1>4 DEF CardEvent, FlushCard, routeVars, envVars
  <2>2. \A x \in Threads : HasThreadCard(x)' => HasThreadCard(x)
    BY <1>4 DEF CardEvent, FlushCard, UpdateThreadCard, FlushThreadCard, HasThreadCard, Carded
  <2>3. Settles
    BY <2>1, <2>2 DEF Settles, Filing, Counted
  <2> QED BY <2>3, SettlesKeeps
<1>5. ASSUME \/ \E t \in Threads : \/ Ticks(t) \/ \E k \in Channel : Rebind(t, k)
                                   \/ \E item \in Items : MessageAsText(t, item)
             \/ \E p \in patches : PatchSettles(p)
      PROVE  Filing'
  <2>1. UNCHANGED <<turns, filed, filedTwice, planning, erred, late, filesDone, running, cards>>
    <3>1. CASE \E p \in patches : PatchSettles(p)
      BY <3>1 DEF PatchSettles, PatchLands, PatchFails, routeVars, envVars
    <3>2. ASSUME NEW t \in Threads, \/ Ticks(t) \/ \E k \in Channel : Rebind(t, k)
                                    \/ \E item \in Items : MessageAsText(t, item)
          PROVE  UNCHANGED <<turns, filed, filedTwice, planning, erred, late, filesDone, running, cards>>
      BY <3>2 DEF Ticks, Milestone, FlushTimer, IntervalElapses, RunHeartbeat, Rebind, MessageAsText,
                  routeVars, envVars, cardVars
    <3> QED BY <1>5, <3>1, <3>2
  <2>2. \A x : HasThreadCard(x)' <=> HasThreadCard(x)
    BY <2>1 DEF HasThreadCard
  <2>3. Settles
    BY <2>1, <2>2 DEF Settles, Filing
  <2> QED BY <2>3, SettlesKeeps
<1> QED BY <1>1, <1>2, <1>3, <1>4, <1>5, StartFiles, CompleteFiles, ClaimFiles, DeliverFiles
        DEF Next, CodexEvent, Timers, Ticks

---------------------------------------------------------------------------
(***************************************************************************)
(* The theorems.                                                           *)
(***************************************************************************)
LEMMA InvInit == Init => Inv
<1> SUFFICES ASSUME Init PROVE Inv
  OBVIOUS
<1>1. Counted
  <2>1. <<>> \in Seq(Kinds) /\ Len(<<>>) = 0
    OBVIOUS
  <2> QED BY <2>1, RoutingAssumption DEF Init, Counted
<1>2. Watched
  BY DEF Init, Watched, WatchedWhileRunning
<1>3. Numbered
  BY DEF Init, Numbered, InStep
<1>4. Queued
  <2>1. out = [keys |-> {}, dropped |-> {}]
    BY DEF Init
  <2>2. Sound([keys |-> {}, dropped |-> {}], Up)
    BY DEF Sound
  <2> QED BY <2>1, <2>2 DEF Queued
<1>5. Carded
  BY DEF Init, CardInit, Carded, HasThreadCard
<1>6. Answers /\ Filing
  BY DEF Init, CardInit, Answers, Filing, Claimed, FilesOnceIfTimely
<1> QED BY <1>1, <1>2, <1>3, <1>4, <1>5, <1>6 DEF Inv

LEMMA InvStep == Inv /\ [Next]_vars => Inv'
<1> SUFFICES ASSUME Inv, [Next]_vars PROVE Inv'
  OBVIOUS
<1>1. CASE Next
  BY <1>1, CountedStep, WatchedStep, NumberedStep, QueuedStep, CardedStep, AnswersStep, FilingStep
     DEF Inv
<1>2. CASE UNCHANGED vars
  <2>1. UNCHANGED <<nonce, watch, filesDone, awake, planning, out, filed, filedTwice>>
        /\ UNCHANGED <<channel, running, turns, erred, late, unnamed, incidents>>
        /\ UNCHANGED <<cards, opening, patches, shown, detached>>
    BY <1>2 DEF vars, routeVars, envVars, cardVars
  <2>2. Up' <=> Up
    BY <2>1 DEF Up
  <2>3. Counted' /\ Watched' /\ Carded'
    BY <2>1, CountedSame, WatchedSame, CardedSame DEF Inv
  <2>4. Numbered' /\ Answers'
    BY <2>1, <2>2 DEF Inv, Numbered, InStep, Answers, Past
  <2>5. Queued'
    BY <2>1, <2>2 DEF Inv, Queued
  <2>6. Filing'
    <3>1. \A x : HasThreadCard(x)' <=> HasThreadCard(x)
      BY <2>1 DEF HasThreadCard
    <3>2. Settles
      BY <2>1, <3>1 DEF Inv, Settles, Filing
    <3> QED BY <3>2, SettlesKeeps DEF Inv
  <2> QED BY <2>3, <2>4, <2>5, <2>6 DEF Inv
<1> QED BY <1>1, <1>2

LEMMA Invariant == Spec => []Inv
BY InvInit, InvStep, PTL DEF Spec

(* Every variable has its type: a coalesced milestone always has its timer, *)
(* a nonce never runs ahead of the turns, a session never shows a card that *)
(* was closed.                                                              *)
THEOREM RoutingTypes == Spec => []TypeOK
<1>1. Inv => TypeOK
  <2> SUFFICES ASSUME Inv PROVE TypeOK
    OBVIOUS
  <2>1. /\ channel \in [Threads -> Channel] /\ running \in [Threads -> BOOLEAN]
        /\ turns \in [Threads -> 0 .. MaxTurns] /\ \A t \in Threads : nonce[t] \in 0 .. turns[t]
        /\ filesDone \subseteq Threads /\ awake \subseteq Threads /\ unnamed \subseteq Threads
        /\ Len(incidents) <= MaxIncidents
    BY DEF Inv, Counted
  <2>2. ToSet(incidents) \subseteq {"error", "drop", "restart", "bind"}
    BY DEF Inv, Counted, ToSet, Kinds
  <2>3. \A t \in Threads : watch[t] # NoWatch =>
          IsWatch(watch[t]) /\ (watch[t].pending # NoLabel => watch[t].flush)
    BY DEF Inv, Watched, Beats
  <2>4. /\ \A h \in out.keys : IsKey(h.key) /\ h.turn \in 1 .. MaxTurns
        /\ \A d \in out.dropped : IsKey(d.key)
    BY DEF Inv, Queued, Sound, IsHeld
  <2>5. filedTwice \subseteq filed /\ (filed \cup erred \cup late \cup opening) \subseteq TurnIds
    BY DEF Inv, Filing, Counted, Carded, Past
  <2>6. \A t \in Threads : HasThreadCard(t) => cards[t].card \in DOMAIN shown \ detached
    BY DEF Inv, Carded
  <2> QED BY <2>1, <2>2, <2>3, <2>4, <2>5, <2>6 DEF TypeOK
<1> QED BY <1>1, Invariant, PTL

(* Whichever way a turn ends - completed, failed, with the connection, with *)
(* the daemon - its guard, its milestone state and its marker end with it,  *)
(* and an error that did not end it is the one exception.                   *)
THEOREM WatchedTogether == Spec => []WatchedWhileRunning
<1>1. Inv => WatchedWhileRunning
  BY DEF Inv, Watched
<1> QED BY <1>1, Invariant, PTL

(* As long as neither the connection nor the daemon is lost, no reply of a  *)
(* turn is dropped for one of another turn, but for a nameless message      *)
(* whose card failed a turn too late.                                       *)
THEOREM KeysTellTurns == Spec => []SwallowsNothingWhileUp
<1>1. Inv => SwallowsNothingWhileUp
  BY DEF Inv, Queued, Sound, Up, SwallowsNothingWhileUp
<1> QED BY <1>1, Invariant, PTL

(* A turn's files go out once: two deliveries of a turn mean that it        *)
(* reported an error or that a card of the thread opened late.              *)
THEOREM FilesOnce == Spec => []FilesOnceIfTimely
<1>1. Inv => FilesOnceIfTimely
  BY DEF Inv, Filing
<1> QED BY <1>1, Invariant, PTL

(* No step sends a throttled update of a card that was claimed or closed,   *)
(* however opening, flushing and finishing race.                            *)
THEOREM ClosedStaysClosed == Spec => NoUpdateAfterFinal
<1> DEFINE Goal == \A p \in patches' \ patches : ~p.final => p.card \notin detached
<1>1. Inv /\ [Next]_vars => [Goal]_vars
  <2> SUFFICES ASSUME Inv, Next PROVE Goal
    OBVIOUS
  <2>1. ASSUME NEW ts, FinishThreadCards(ts) PROVE Goal
    BY <2>1 DEF FinishThreadCards, Patch
  <2>2. ASSUME NEW t \in Threads, TurnCompleted(t) \/ TurnError(t) PROVE Goal
    BY <2>1, <2>2 DEF TurnCompleted, TurnError
  <2>3. ASSUME ConnectionLost PROVE Goal
    BY <2>1, <2>3 DEF ConnectionLost, FinishLiveCardsForDisconnect, FinishAllLiveCards
  <2>4. ASSUME NEW t \in Threads, FlushCard(t) PROVE Goal
    <3>1. HasThreadCard(t) /\ patches' \subseteq patches \cup {Patch(cards[t].card, FALSE, NoReply)}
      BY <2>4 DEF FlushCard, FlushThreadCard
    <3>2. cards[t].card \notin detached
      BY <3>1 DEF Inv, Carded
    <3>3. \A p \in patches' \ patches : p = Patch(cards[t].card, FALSE, NoReply)
      BY <3>1
    <3> QED BY <3>2, <3>3 DEF Patch
  <2>5. ASSUME NEW j \in planning, DeliverChangedFiles(j) PROVE Goal
    <3>1. patches' = patches \/ \E r : patches' = patches \cup {Patch(j.card, TRUE, r)}
      BY <2>5 DEF DeliverChangedFiles
    <3> QED BY <3>1 DEF Patch
  <2>6. ASSUME \/ \E p \in patches : PatchSettles(p)
               \/ Restart
               \/ \E c \in opening : OpenSettles(c)
        PROVE  Goal
    <3>1. patches' \subseteq patches
      BY <2>6 DEF PatchSettles, PatchLands, PatchFails, Restart, OpenSettles, CardOpened, OpenFails
    <3> QED BY <3>1
  <2>7. ASSUME NEW t \in Threads,
               \/ TurnStarted(t) \/ CardEvent(t) \/ Ticks(t)
               \/ \E k \in Channel : Rebind(t, k)
               \/ \E item \in Items : MessageAsText(t, item) \/ MessageClaimsCard(t, item)
        PROVE  Goal
    <3>1. patches' = patches
      BY <2>7 DEF TurnStarted, CardEvent, UpdateThreadCard, Ticks, Milestone, FlushTimer,
                  IntervalElapses, RunHeartbeat, Rebind, MessageAsText, MessageClaimsCard, cardVars
    <3> QED BY <3>1
  <2> HIDE DEF Goal
  <2> QED BY <2>2, <2>3, <2>4, <2>5, <2>6, <2>7 DEF Next, CodexEvent, Timers, Ticks
<1> QED BY <1>1, Invariant, PTL DEF Spec, NoUpdateAfterFinal

=============================================================================
