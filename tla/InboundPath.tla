----------------------------- MODULE InboundPath -----------------------------
(***************************************************************************)
(* The way in: from a platform's updates to the command router.            *)
(*                                                                         *)
(* One channel runtime of any of the four kinds.  WeChat is polled by a    *)
(* timer behind a cursor (kind "poll"), Telegram by a long-poll loop with  *)
(* an offset ("longpoll"), Feishu and DingTalk push events that are        *)
(* handled concurrently.  A worker is a poll, a loop or a pushed event in  *)
(* progress: the list of updates it still has to handle and the await it   *)
(* is suspended at.  The platform keeps what it was sent (log), hands it   *)
(* out again from any cursor and may push an event more than once.         *)
(***************************************************************************)
EXTENDS Naturals, Sequences, FiniteSets, SequencesExt

CONSTANTS Kinds,       \* which kinds of channel the instance explores
          Senders,     \* identities that write to the channel
          Workers,     \* bound on polls, loops and pushed events in progress
          MaxUpd,      \* bound on updates sent
          MaxDeliver,  \* bound on the deliveries of one pushed event
          MaxRestarts, \* bound on crashes, stops and reconfigurations
          DedupMax,    \* ids the duplicate filter remembers
          MaxPrompts   \* pairing prompts per sender

ASSUME KindsAssumption == Kinds \subseteq {"poll", "longpoll", "feishu", "dingtalk"}
ASSUME BoundsAssumption ==
    {MaxUpd, MaxDeliver, MaxRestarts, DedupMax, MaxPrompts} \subseteq Nat \ {0}

VARIABLES kind,      \* the kind of this channel
          log,       \* updates the platform was sent, in order
          pushed,    \* how often each event was pushed
          up,        \* the daemon runs
          running,   \* runtime.running, and the driver's flag
          cursor,    \* runtime.cursor / driver.offset: updates passed
          confirmed, \* the highest offset a getUpdates call carried
          saved,     \* what state.json holds of this channel
          seen,      \* ids the duplicate filter remembers, oldest first
          noticed,   \* the group was told "direct messages only"
          paired,    \* identities the pairing gate lets through
          code,      \* a pairing code is set
          prompts,   \* prompts sent to each sender
          work,      \* the workers
          aborter,   \* the loop (at most one) whose request a stop can abort
          routed,    \* history: how often an update reached the router, up to 2
          answered,  \* history: updates whose sender got some reply
          gaveUp,    \* history: failed and given up
          hushed,    \* history: dropped in silence on purpose
          dropped,   \* history: in a worker's hands when it was cut off
          evicted,   \* history: ids the filter forgot while up
          disturbed, \* history: crash, overlapping loop or rewound offset
          restarts   \* crashes, stops and reconfigurations so far

history == <<routed, answered, gaveUp, hushed, dropped, evicted>>
gate    == <<noticed, paired, code, prompts>>
source  == <<kind, log, pushed>>
vars == <<source, up, running, cursor, confirmed, saved, seen, gate, work,
          aborter, history, disturbed, restarts>>

Updates == 1..MaxUpd
Idle == [at |-> "idle", batch |-> <<>>, from |-> 0, old |-> FALSE]
Bigger(a, b) == IF a > b THEN a ELSE b

(***************************************************************************)
(* Messages, as the adapters' normalizeInbound returns them.  "bad" is a   *)
(* payload without a sender, on which normalizeInbound throws.  caption    *)
(* says whether there is text, media whether there are attachments, code   *)
(* whether the text is the pairing code.                                   *)
(***************************************************************************)
Message == [conv : {"direct", "group", "bad"}, from : Senders,
            caption : BOOLEAN, media : BOOLEAN, code : BOOLEAN]

\* One sender stands for all where the sender makes no difference.
Someone == CHOOSE s \in Senders : TRUE
Plain(m) == m.conv = "direct" \/ (m.caption /\ ~m.media /\ ~m.code /\ m.from = Someone)

\* normalizeInbound of Feishu: a text has a caption, an image or a file has no
\* text at all, only a post carries both.
FeishuMessages ==
    {m \in Message : Plain(m) /\ m.from = Someone /\ ~m.code /\ (m.caption \/ m.media)}
\* normalizeUpdate of WeChat: text and attachments come independently.
WeChatMessages ==
    {m \in Message : Plain(m) /\ m.from = Someone /\ ~m.code /\ (m.caption \/ m.media)}
\* normalizeInbound of Telegram: a text, which may be the pairing code, or a
\* photo or document with or without a caption.  A sticker, which has neither,
\* goes the way of a text, and a caption that is the code that of the code.
TelegramMessages ==
    {m \in Message : Plain(m) /\ (m.caption \/ m.media)
                     /\ (m.media => m.from = Someone /\ ~m.code)}
\* normalizeInbound of DingTalk: text, or one picture or file without text.
DingTalkMessages ==
    {m \in Message : Plain(m) /\ m.from = Someone /\ ~m.code /\ (m.caption <=> ~m.media)}

MessagesOf(k) == CASE k = "poll" -> WeChatMessages
                   [] k = "longpoll" -> TelegramMessages
                   [] k = "feishu" -> FeishuMessages
                   [] OTHER -> DingTalkMessages

\* capabilities.media of the plugin; WeChat declares none.
SupportsMedia == kind # "poll"
Push == kind \in {"feishu", "dingtalk"}

(***************************************************************************)
(* The duplicate filters.                                                  *)
(***************************************************************************)
\* Has of the LRU tracker moves the id to the fresh end.
Touch(s, u) == IF u \in ToSet(s) THEN Append(RemoveFirst(s, u), u) ELSE s
\* Mutant: the tracker never evicts.
MutRememberAll(s, u) == IF u \in ToSet(s) THEN Touch(s, u) ELSE Append(s, u)
\* add of the LRU tracker: a new id pushes out the least recently seen one.
Remember(s, u) ==
    LET t == IF u \in ToSet(s) THEN Touch(s, u) ELSE Append(s, u)
    IN IF Len(t) > DedupMax THEN Tail(t) ELSE t
\* Mutant: a full filter records nothing new instead of dropping the oldest.
MutRememberUntilFull(s, u) == IF Len(s) = DedupMax THEN s ELSE Append(s, u)
\* Feishu's own filter: insertion order, the id is recorded before the work.
RememberFirst(s, u) ==
    LET t == Append(s, u) IN IF Len(t) > DedupMax THEN Tail(t) ELSE t

Forgotten(s, t) == ToSet(s) \ ToSet(t)

\* How the downloads of a message end: the identity has no project open, or
\* all, some or none of the files arrive in the project's upload directory.
DownloadResults == {"noproject", "all", "some", "none"}

\* Mutant: on a channel without media an attachment without text is dropped
\* without the reply that says so.
MutAttachmentStageSilent(m) ==
    IF ~m.media THEN {[go |-> TRUE, reply |-> FALSE]}
    ELSE IF ~SupportsMedia THEN {[go |-> m.caption, reply |-> m.caption]}
    ELSE {[go |-> d \in {"all", "some"} \/ (d = "none" /\ m.caption),
           reply |-> d # "all"] : d \in DownloadResults}

(***************************************************************************)
(* What the attachment stage makes of a message: the set of its possible   *)
(* results.  go: a turn is submitted; reply: the sender is told something. *)
(***************************************************************************)
AttachmentStage(m) ==
    IF ~m.media THEN {[go |-> TRUE, reply |-> FALSE]}
    ELSE IF ~SupportsMedia THEN {[go |-> m.caption, reply |-> TRUE]}
    ELSE {[go |-> d \in {"all", "some"} \/ (d = "none" /\ m.caption),
           reply |-> d # "all"] : d \in DownloadResults}

TypeOK ==
    /\ kind \in Kinds /\ log \in Seq(Message) /\ Len(log) <= MaxUpd
    /\ pushed \in [Updates -> 0..MaxDeliver]
    /\ {up, running, noticed, code, disturbed} \subseteq BOOLEAN
    /\ cursor \in 0..MaxUpd /\ confirmed \in 0..MaxUpd
    /\ saved \in [cursor : 0..MaxUpd, paired : SUBSET Senders, code : BOOLEAN]
    /\ ToSet(seen) \subseteq Updates /\ Len(seen) <= DedupMax
    /\ paired \subseteq Senders /\ prompts \in [Senders -> 0..MaxPrompts]
    /\ \A w \in Workers :
        /\ work[w].at \in {"idle", "fetch", "asleep", "next", "media", "router", "fallback"}
        /\ ToSet(work[w].batch) \subseteq Updates
    /\ aborter \subseteq Workers /\ Cardinality(aborter) <= 1
    /\ routed \in [Updates -> 0..2]
    /\ answered \cup gaveUp \cup hushed \cup dropped \cup evicted \subseteq Updates

Init ==
    /\ kind \in Kinds /\ log = <<>> /\ pushed = [u \in Updates |-> 0]
    /\ up = TRUE /\ running = FALSE /\ cursor = 0 /\ confirmed = 0
    /\ saved = [cursor |-> 0, paired |-> {}, code |-> FALSE]
    /\ seen = <<>> /\ noticed = FALSE /\ paired = {} /\ code = FALSE
    /\ prompts = [s \in Senders |-> 0]
    /\ work = [w \in Workers |-> Idle] /\ aborter = {}
    /\ routed = [u \in Updates |-> 0]
    /\ answered = {} /\ gaveUp = {} /\ hushed = {} /\ dropped = {} /\ evicted = {}
    /\ disturbed = FALSE /\ restarts = 0

(***************************************************************************)
(* The platform.                                                           *)
(***************************************************************************)
Arrive(m) ==
    /\ Len(log) < MaxUpd /\ m \in MessagesOf(kind)
    /\ log' = Append(log, m)
    /\ UNCHANGED <<kind, pushed, up, running, cursor, confirmed, saved, seen, gate,
                   work, aborter, history, disturbed, restarts>>

\* An event is pushed, again if the platform likes, and handled on its own.
Deliver(u, w) ==
    /\ Push /\ up /\ running /\ u <= Len(log) /\ pushed[u] < MaxDeliver
    /\ work[w] = Idle
    /\ pushed' = [pushed EXCEPT ![u] = @ + 1]
    /\ work' = [work EXCEPT ![w] = [Idle EXCEPT !.at = "next", !.batch = <<u>>]]
    /\ UNCHANGED <<kind, log, up, running, cursor, confirmed, saved, seen, gate,
                   aborter, history, disturbed, restarts>>

(***************************************************************************)
(* Starting and stopping.                                                  *)
(***************************************************************************)
Busy == {w \in Workers : work[w] # Idle}
\* stopEventStream aborts the one request its controller belongs to.
Aborted(wk) == [w \in Workers |-> IF w \in aborter /\ wk[w].at = "fetch" THEN Idle ELSE wk[w]]
\* A loop issues getUpdates with the driver's offset, under a new controller.
Request(wk, w, c) == [wk EXCEPT ![w] = [Idle EXCEPT !.at = "fetch", !.from = c]]

\* ensurePairingCode of the Telegram runtime, before it starts.
EnsureCode == IF kind = "longpoll" /\ paired = {} THEN TRUE ELSE code

Start(w) ==
    /\ up /\ ~running /\ work[w] = Idle
    /\ running' = TRUE /\ code' = EnsureCode
    /\ saved' = [saved EXCEPT !.code = code', !.paired = paired, !.cursor = cursor]
    /\ IF kind = "longpoll"
       THEN /\ work' = Request(work, w, cursor) /\ aborter' = {w}
            /\ confirmed' = Bigger(confirmed, cursor)
            /\ disturbed' = (disturbed \/ Busy # {})
       ELSE UNCHANGED <<work, aborter, confirmed, disturbed>>
    /\ UNCHANGED <<source, up, cursor, seen, noticed, paired, prompts, history, restarts>>

Stop ==
    /\ up /\ running /\ restarts < MaxRestarts
    /\ restarts' = restarts + 1
    /\ running' = FALSE /\ aborter' = {}
    /\ work' = IF kind = "longpoll" THEN Aborted(work) ELSE work
    /\ UNCHANGED <<source, up, cursor, confirmed, saved, seen, gate, history, disturbed>>

\* Saving the channel's settings builds a new driver: the old one is stopped,
\* the new one gets the offset of the last save, and its loop is started.
Configure(w) ==
    /\ kind = "longpoll" /\ up /\ running /\ restarts < MaxRestarts
    /\ LET rest == [v \in Workers |-> IF Aborted(work)[v] = Idle THEN Idle
                                      ELSE [work[v] EXCEPT !.old = TRUE]]
       IN /\ rest[w] = Idle
          /\ work' = Request(rest, w, saved.cursor)
          /\ disturbed' = (disturbed \/ cursor > saved.cursor
                                     \/ \E v \in Workers : rest[v] # Idle)
    /\ restarts' = restarts + 1 /\ aborter' = {w}
    /\ cursor' = saved.cursor /\ confirmed' = Bigger(confirmed, saved.cursor)
    /\ UNCHANGED <<source, up, running, saved, seen, gate, history>>

\* Any part of the daemon may save, and that saves the channel's state too.
Persist ==
    /\ up
    /\ saved' = [cursor |-> cursor, paired |-> paired, code |-> code]
    /\ UNCHANGED <<source, up, running, cursor, confirmed, seen, gate, work, aborter,
                   history, disturbed, restarts>>

\* The updates in the hands of some worker.
InHand == UNION {ToSet(work[w].batch) : w \in Workers}

Crash ==
    /\ up /\ restarts < MaxRestarts
    /\ restarts' = restarts + 1 /\ disturbed' = TRUE
    /\ up' = FALSE /\ running' = FALSE
    /\ work' = [w \in Workers |-> Idle] /\ aborter' = {}
    /\ seen' = <<>> /\ noticed' = FALSE /\ prompts' = [s \in Senders |-> 0]
    /\ dropped' = dropped \cup InHand
    /\ UNCHANGED <<source, cursor, confirmed, saved, paired, code, routed, answered,
                   gaveUp, hushed, evicted>>

Boot ==
    /\ ~up /\ up' = TRUE
    /\ cursor' = saved.cursor /\ paired' = saved.paired /\ code' = saved.code
    /\ UNCHANGED <<source, running, confirmed, saved, seen, noticed, prompts, work,
                   aborter, history, disturbed, restarts>>

(***************************************************************************)
(* Fetching.                                                               *)
(***************************************************************************)
\* The timer, or POST /poll, starts a poll unless one is under way.
PollStart(w) ==
    /\ kind = "poll" /\ up /\ Busy = {}
    /\ work' = Request(work, w, cursor)
    /\ UNCHANGED <<source, up, running, cursor, confirmed, saved, seen, gate, aborter,
                   history, disturbed, restarts>>

\* The cursor moves past the whole batch before any update of it is handled,
\* if the answer carries one: an answer without a cursor leaves it in place
\* and the next poll fetches the same updates again.
Fetched(w, moves) ==
    /\ up /\ work[w].at = "fetch"
    /\ LET first == IF kind = "longpoll" THEN Bigger(work[w].from, confirmed) ELSE work[w].from
           batch == [i \in 1..(Len(log) - first) |-> first + i]
       IN /\ (kind = "longpoll" => batch # <<>>)
          /\ work' = [work EXCEPT ![w].at = "next", ![w].batch = batch]
          /\ cursor' = IF moves THEN Len(log) ELSE cursor
          /\ (moves => kind = "poll")
    /\ UNCHANGED <<source, up, running, confirmed, saved, seen, gate, aborter, history,
                   disturbed, restarts>>

\* A refused token ends the poll loop and the long-poll loop; any other
\* failure is retried by the next tick or after the backoff.
FetchFails(w, refused) ==
    /\ up /\ work[w].at = "fetch"
    /\ running' = (running /\ ~(refused /\ ~work[w].old))
    /\ work' = [work EXCEPT ![w] = IF kind = "longpoll" /\ ~refused
                                   THEN [@ EXCEPT !.at = "asleep"] ELSE Idle]
    /\ UNCHANGED <<source, up, cursor, confirmed, saved, seen, gate, aborter, history,
                   disturbed, restarts>>

\* The head of the while loop: go on while this driver is running.
LoopAgain(w) ==
    IF running /\ ~work[w].old
    THEN /\ work' = Request(work, w, cursor) /\ aborter' = {w}
         /\ confirmed' = Bigger(confirmed, cursor)
    ELSE work' = [work EXCEPT ![w] = Idle] /\ UNCHANGED <<aborter, confirmed>>

Wake(w) ==
    /\ up /\ work[w].at = "asleep" /\ LoopAgain(w)
    /\ UNCHANGED <<source, up, running, cursor, saved, seen, gate, history, disturbed, restarts>>

\* The batch is through: the poll delivers and saves, the loop asks again.
BatchDone(w) ==
    /\ up /\ work[w].at = "next" /\ work[w].batch = <<>>
    /\ IF kind = "longpoll" THEN LoopAgain(w)
       ELSE work' = [work EXCEPT ![w] = Idle] /\ UNCHANGED <<aborter, confirmed>>
    /\ saved' = IF kind = "longpoll" THEN saved
                ELSE [cursor |-> cursor, paired |-> paired, code |-> code]
    /\ UNCHANGED <<source, up, running, cursor, seen, gate, history, disturbed, restarts>>

(***************************************************************************)
(* Handling one update.                                                    *)
(***************************************************************************)
Current(w) == Head(work[w].batch)
Has(w) == up /\ work[w].at = "next" /\ work[w].batch # <<>>
Goes(w, to) == work' = [work EXCEPT ![w].at = to]
Finished(w) == work' = [work EXCEPT ![w].at = "next", ![w].batch = Tail(@)]
\* The long-poll loop moves its driver's offset past an update it takes up.
Advance(w) ==
    cursor' = IF kind = "longpoll" /\ ~work[w].old THEN Current(w) ELSE cursor
\* What the filter remembers once an update is handled (WeChat only).
Recall(w) ==
    /\ seen' = IF kind = "poll" THEN Remember(seen, Current(w)) ELSE seen
    /\ evicted' = evicted \cup (Forgotten(seen, seen') \ {Current(w)})

Duplicate(w) == Current(w) \in ToSet(seen) /\ kind \in {"poll", "feishu"}

SkipSeen(w) ==
    /\ Has(w) /\ log[Current(w)].conv # "bad" /\ Duplicate(w) /\ Finished(w)
    /\ seen' = IF kind = "poll" THEN Touch(seen, Current(w)) ELSE seen
    /\ UNCHANGED <<source, up, running, cursor, confirmed, saved, gate, aborter, history,
                   disturbed, restarts>>

\* Taking an update up: offset and Feishu's filter move before the work.
TakeUp(w) ==
    /\ Has(w) /\ ~Duplicate(w) /\ Advance(w)
    /\ seen' = IF kind = "feishu" THEN RememberFirst(seen, Current(w)) ELSE seen
    /\ evicted' = evicted \cup Forgotten(seen, seen')
    /\ UNCHANGED <<source, up, running, confirmed, aborter, disturbed, restarts>>

\* normalizeUpdate throws out of the poll and takes the rest of the batch with
\* it; elsewhere the payload alone is lost, its fallback throwing as well.
Malformed(w) ==
    /\ log[Current(w)].conv = "bad" /\ TakeUp(w)
    /\ gaveUp' = gaveUp \cup {Current(w)}
    /\ IF kind = "poll"
       THEN /\ work' = [work EXCEPT ![w] = Idle]
            /\ dropped' = dropped \cup ToSet(Tail(work[w].batch))
       ELSE Finished(w) /\ UNCHANGED dropped
    /\ UNCHANGED <<saved, gate, routed, answered, hushed>>

\* The sender is told something, or deliberately nothing.
Tell(w, aloud) ==
    /\ answered' = IF aloud THEN answered \cup {Current(w)} ELSE answered
    /\ hushed' = IF aloud THEN hushed ELSE hushed \cup {Current(w)}

\* A group is told once that only direct messages are served.
GroupGate(w) ==
    /\ log[Current(w)].conv = "group" /\ kind # "poll" /\ TakeUp(w) /\ Finished(w)
    /\ noticed' = TRUE /\ Tell(w, ~noticed)
    /\ UNCHANGED <<saved, paired, code, prompts, routed, gaveUp, dropped>>
PollGroupGate(w) ==
    /\ Has(w) /\ kind = "poll" /\ log[Current(w)].conv = "group" /\ ~Duplicate(w)
    /\ Recall(w) /\ Finished(w)
    /\ noticed' = TRUE /\ Tell(w, ~noticed)
    /\ UNCHANGED <<source, up, running, cursor, confirmed, saved, paired, code, prompts,
                   aborter, routed, gaveUp, dropped, disturbed, restarts>>

Unpaired(w) == kind = "longpoll" /\ log[Current(w)].from \notin paired

\* The right code binds the sender and burns the code, in one step with no
\* await between the comparison and the assignment.
Pair(w) ==
    LET m == log[Current(w)] IN
    /\ Unpaired(w) /\ m.conv = "direct" /\ m.code /\ code
    /\ TakeUp(w) /\ Finished(w)
    /\ paired' = paired \cup {m.from} /\ code' = FALSE
    /\ prompts' = [prompts EXCEPT ![m.from] = 0]
    /\ saved' = [cursor |-> cursor', paired |-> paired', code |-> code']
    /\ answered' = answered \cup {Current(w)}
    /\ UNCHANGED <<noticed, routed, gaveUp, hushed, dropped>>

\* Anything else of an unpaired sender is answered by at most MaxPrompts
\* prompts and dropped in silence after that.
Prompt(w) ==
    LET m == log[Current(w)] IN
    /\ Unpaired(w) /\ m.conv = "direct" /\ ~(m.code /\ code)
    /\ TakeUp(w) /\ Finished(w)
    /\ prompts' = [prompts EXCEPT ![m.from] = IF @ < MaxPrompts THEN @ + 1 ELSE @]
    /\ Tell(w, prompts[m.from] < MaxPrompts)
    /\ UNCHANGED <<noticed, paired, code, saved, routed, gaveUp, dropped>>

\* A direct message that passes the gates enters the base pipeline.
Admit(w) ==
    /\ log[Current(w)].conv = "direct" /\ ~Unpaired(w) /\ TakeUp(w)
    /\ Goes(w, "media")
    /\ UNCHANGED <<saved, gate, routed, answered, gaveUp, hushed, dropped>>

\* The attachment stage ends in a turn for the router or in a refusal.
Attachments(w) ==
    /\ up /\ work[w].at = "media"
    /\ \E r \in AttachmentStage(log[Current(w)]) :
        /\ answered' = IF r.reply THEN answered \cup {Current(w)} ELSE answered
        /\ IF r.go
           THEN /\ Goes(w, "router")
                /\ routed' = [routed EXCEPT ![Current(w)] = IF @ = 2 THEN 2 ELSE @ + 1]
                /\ UNCHANGED <<seen, evicted>>
           ELSE Finished(w) /\ Recall(w) /\ UNCHANGED routed
    /\ UNCHANGED <<source, up, running, cursor, confirmed, saved, gate, aborter, gaveUp,
                   hushed, dropped, disturbed, restarts>>

RouterDone(w) ==
    /\ up /\ work[w].at = "router" /\ Finished(w) /\ Recall(w)
    /\ UNCHANGED <<source, up, running, cursor, confirmed, saved, gate, aborter, routed,
                   answered, gaveUp, hushed, dropped, disturbed, restarts>>

\* The pipeline throws before or inside the router.  Feishu's own start() only
\* logs it; the others fall back to a generic reply.
HandlerFails(w) ==
    /\ up /\ work[w].at \in {"media", "router"}
    /\ IF kind = "feishu"
       THEN Finished(w) /\ gaveUp' = gaveUp \cup {Current(w)}
       ELSE Goes(w, "fallback") /\ UNCHANGED gaveUp
    /\ UNCHANGED <<source, up, running, cursor, confirmed, saved, seen, gate, aborter,
                   routed, answered, hushed, dropped, evicted, disturbed, restarts>>

\* handleInboundFailure: the fallback reply goes out, or fails as well without
\* a word to pollOnce, which remembers the id in either case.
Fallback(w, works) ==
    /\ up /\ work[w].at = "fallback" /\ Finished(w) /\ Recall(w)
    /\ IF works THEN answered' = answered \cup {Current(w)} /\ UNCHANGED gaveUp
                ELSE gaveUp' = gaveUp \cup {Current(w)} /\ UNCHANGED answered
    /\ UNCHANGED <<source, up, running, cursor, confirmed, saved, gate, aborter, routed,
                   hushed, dropped, disturbed, restarts>>

Next ==
    \/ \E m \in Message : Arrive(m)
    \/ Stop \/ Persist \/ Crash \/ Boot
    \/ \E w \in Workers :
        \/ \E u \in Updates : Deliver(u, w)
        \/ Start(w) \/ Configure(w) \/ PollStart(w) \/ Wake(w) \/ BatchDone(w)
        \/ \E b \in BOOLEAN : Fetched(w, b) \/ FetchFails(w, b) \/ Fallback(w, b)
        \/ Has(w) /\ (\/ SkipSeen(w) \/ Malformed(w) \/ GroupGate(w) \/ PollGroupGate(w)
                      \/ Pair(w) \/ Prompt(w) \/ Admit(w))
        \/ Attachments(w) \/ RouterDone(w) \/ HandlerFails(w)

Spec == Init /\ [][Next]_vars

(***************************************************************************)
(* Properties.                                                             *)
(***************************************************************************)
\* Between crashes, and as long as the filter still remembers it, an update is
\* submitted as a turn at most once, however often it is fetched or pushed.
\* DingTalk has no filter; overlapping Telegram loops count as a disturbance.
RoutedOnce ==
    \A u \in Updates :
        routed[u] > 1 => disturbed \/ kind = "dingtalk" \/ u \in evicted

Handled(u) == routed[u] > 0 \/ u \in answered \cup gaveUp \cup hushed

\* An update the cursor or the offset has passed, or that was pushed, is not
\* lost, whatever stops, reconfigurations, crashes and overlapping loops do: it
\* was submitted, or its sender answered, or left without an answer on purpose
\* (a group that was told already, a sender over the prompt cap), or it failed
\* and was given up, its fallback reply having failed too or there being none
\* (the next poll does not retry it, though a comment in pollOnce says so); or
\* it is in a worker's hands, or was when the daemon died or when a malformed
\* update before it ended the poll.
NothingVanishes ==
    \A u \in Updates :
        u <= cursor \/ pushed[u] > 0 => Handled(u) \/ u \in InHand \cup dropped

=============================================================================
