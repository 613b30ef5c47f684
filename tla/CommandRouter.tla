---------------------------- MODULE CommandRouter ----------------------------
(***************************************************************************)
(* The command router: what a chat message of an authorised identity does  *)
(* to the identity's project, picker prompt, active session, thread        *)
(* bindings and hourly quota.                                              *)
(*                                                                         *)
(* Pushed messages are handled concurrently, also two of one identity, so  *)
(* a handler is a record of the await it is suspended at and of the values *)
(* it read before it: other handlers run in between.  A number or a name   *)
(* that selects an entry of a list is a choice among the entries; only the *)
(* project lists keep their order, because their numbers are a matter of   *)
(* correctness.                                                            *)
(***************************************************************************)
EXTENDS ProjectListing

CONSTANTS Ids,       \* chat identities
          Threads,   \* threads, on Codex's side or still to be created
          Handlers,  \* bound on messages handled at once
          MaxTurns,  \* maxTurnsPerHour; a behaviour lasts less than an hour
          Lists,     \* the project lists Codex and the local scan may report
          MaxEvents, \* bound on restarts, drops and removals
          MaxAsked   \* bound on messages

ASSUME ListsAssumption == IsFiniteSet(Projects) /\ Lists \subseteq Seq(Projects)
ASSUME NoneAssumption == None \notin Ids \cup Projects \cup Threads
ASSUME HandlersAssumption == IsFiniteSet(Handlers)
ASSUME QuotaAssumption == MaxTurns \in Nat \ {0} /\ MaxEvents \in Nat /\ MaxAsked \in Nat

VARIABLES auth,     \* authorised identities
          noticed,  \* strangers that got the one notice
          desk,     \* Codex Desktop is connected
          listing,  \* ProjectStore.projects, in order
          numberOf, \* its path -> id map (0: not seen yet)
          cur,      \* currentProjectByIdentity
          shown,    \* lastProjectsByIdentity: path and printed number
          pending,  \* pendingByIdentity
          theirs,   \* Codex's threads of each project
          stored,   \* SessionStore: sessions of each project
          active,   \* its per-identity pointer
          owner,    \* threadBindings: ownerStableId
          spent,    \* turn reservations of the last hour
          op,       \* the handlers
          picked,   \* history: threads an identity chose or created
          started,  \* history: turns an identity was told were started
          face,     \* history: the picker the last reply to an identity was
          forgot,   \* history: identities whose picker a restart forgot
          mixed,    \* history: an identity's last messages overlapped
          events,   \* restarts, drops and removals so far
          asked     \* messages so far

people == <<auth, noticed>>
lists  == <<listing, numberOf>>
menu   == <<cur, shown, pending>>
store  == <<stored, active, picked>>
quota  == <<spent, started>>
screen == <<face, forgot>>
vars == <<people, desk, lists, menu, theirs, store, owner, quota, op, screen, mixed, events, asked>>

Idle == [at |-> "idle", id |-> None, proj |-> None, thr |-> None]
Stages == {"idle", "projects", "threads", "use", "resume", "create", "first",
           "cli", "reopen", "turn", "again", "cancel", "interrupt"}
\* The stages between enforceTurnRate and the answer of the turn.
Paid == {"create", "first", "cli", "reopen", "turn", "again"}
\* What a plain text is taken for.  "again" is a picker that was missed once.
Prompts == {"none", "project", "session", "projectAgain", "sessionAgain", "first"}
Picking == Prompts \ {"none", "first"}
\* What a reply shows, if it shows a list to pick from.
Pickers == {"none", "project", "session"}

\* ProjectStore is keyed by path: Codex projects that share a root are one entry.
Collapsed(l) == FirstOfEach(l, l)
Answers == Lists \cup {<<>>}
Listings == {Collapsed(l) : l \in Lists} \cup {<<>>}

Live(id) == {h \in Handlers : op[h].id = id}
InPaid(id) == {h \in Live(id) : op[h].at \in Paid}

TypeOK ==
    /\ auth \cup noticed \subseteq Ids /\ desk \in BOOLEAN
    /\ listing \in Listings /\ numberOf \in [Projects -> Nat]
    /\ cur \in [Ids -> Projects \cup {None}]
    /\ \A id \in Ids : \A e \in ToSet(shown[id]) : e.path \in Projects /\ e.num \in Nat
    /\ pending \in [Ids -> Prompts]
    /\ theirs \in [Projects -> SUBSET Threads] /\ stored \in [Projects -> SUBSET Threads]
    /\ active \in [Ids -> [Projects -> Threads \cup {None}]]
    /\ owner \in [Threads -> Ids \cup {None}]
    /\ spent \in [Ids -> 0..MaxTurns] /\ started \in [Ids -> 0..MaxTurns]
    /\ op \in [Handlers -> [at : Stages, id : Ids \cup {None},
                            proj : Projects \cup {None}, thr : Threads \cup {None}]]
    /\ picked \in [Ids -> SUBSET Threads] /\ face \in [Ids -> Pickers]

Init ==
    /\ auth \in SUBSET Ids /\ auth # {} /\ noticed = {} /\ desk = TRUE
    /\ listing = <<>> /\ numberOf = [p \in Projects |-> 0]
    /\ cur = [i \in Ids |-> None] /\ shown = [i \in Ids |-> <<>>]
    /\ pending = [i \in Ids |-> "none"]
    /\ theirs = [p \in Projects |-> {}] /\ stored = [p \in Projects |-> {}]
    /\ active = [i \in Ids |-> [p \in Projects |-> None]]
    /\ owner = [t \in Threads |-> None]
    /\ spent = [i \in Ids |-> 0] /\ started = [i \in Ids |-> 0]
    /\ op = [h \in Handlers |-> Idle] /\ picked = [i \in Ids |-> {}]
    /\ face = [i \in Ids |-> "none"] /\ forgot = {} /\ mixed = [i \in Ids |-> FALSE] /\ events = 0 /\ asked = 0

(***************************************************************************)
(* Projects and their numbers.                                             *)
(***************************************************************************)
\* ProjectStore._replace: known paths keep their id, new ones get the next.
NewPaths(l) == {p \in ToSet(l) : numberOf[p] = 0}
Place(l, p) == CHOOSE i \in DOMAIN l : l[i] = p /\ \A j \in 1 .. i - 1 : l[j] # p
Highest == Cardinality({p \in Projects : numberOf[p] # 0})
ReplaceProjects(l) ==
    /\ listing' = Collapsed(l)
    /\ numberOf' = [p \in Projects |->
           IF p \in NewPaths(l)
           THEN Highest + Cardinality({r \in NewPaths(l) : Place(l, r) <= Place(l, p)})
           ELSE numberOf[p]]

\* formatProjects prints a store entry's id, a Desktop entry's position.
Printed(l, fromStore) ==
    [i \in DOMAIN l |-> [path |-> l[i], num |-> IF fromStore THEN numberOf'[l[i]] ELSE i]]

\* discoverProjects, for the web UI: Codex's list, or a local scan offline.
Discover(l) ==
    /\ ReplaceProjects(l)
    /\ UNCHANGED <<people, desk, menu, theirs, store, owner, quota, op, screen, mixed, events, asked>>

(***************************************************************************)
(* Taking a message up, and replying.                                      *)
(***************************************************************************)
\* handleMessageAsync lets an authorised identity through.
Ask(h, id) ==
    /\ op[h] = Idle /\ id \in auth /\ asked < MaxAsked /\ asked' = asked + 1
    /\ mixed' = [mixed EXCEPT ![id] = Live(id) # {}]
    /\ UNCHANGED <<auth, noticed>>

Await(h, id, at, p, t) ==
    /\ op' = [op EXCEPT ![h] = [at |-> at, id |-> id, proj |-> p, thr |-> t]]
    /\ UNCHANGED screen
Proceed(h, at, t) == op' = [op EXCEPT ![h].at = at, ![h].thr = t]
\* The reply goes out.
Reply(h, id, picker) ==
    /\ op' = [op EXCEPT ![h] = Idle]
    /\ face' = [face EXCEPT ![id] = picker] /\ forgot' = forgot \ {id}
SetPending(id, what) == pending' = [pending EXCEPT ![id] = what]
\* A second plain text that is no number gives the picker up.
GiveUpPicker(id) == IF pending[id] \in Picking \ {"project", "session"}
                    THEN SetPending(id, "none") ELSE UNCHANGED pending

\* bindThreadForIdentity: the events of the thread go where the identity
\* wrote from, and its approvals are the identity's.
Bind(id, t) == owner' = [owner EXCEPT ![t] = id]
\* upsertExternalSession with the identity's key: the session is stored and
\* becomes the active one of this identity in this project.
\* Mutant: the pointer of everyone in the project follows.
MutSetActiveForAll(id, p, t) ==
    /\ stored' = [stored EXCEPT ![p] = @ \cup {t}]
    /\ active' = [i \in Ids |-> [active[i] EXCEPT ![p] = t]]
    /\ picked' = [picked EXCEPT ![id] = @ \cup {t}]
SetActive(id, p, t) ==
    /\ stored' = [stored EXCEPT ![p] = @ \cup {t}]
    /\ active' = [active EXCEPT ![id][p] = t]
    /\ picked' = [picked EXCEPT ![id] = @ \cup {t}]

\* An identity nobody confirmed gets one notice, then refusals.
Stranger(id) ==
    /\ id \in Ids \ auth /\ noticed' = noticed \cup {id}
    /\ UNCHANGED <<auth, desk, lists, menu, theirs, store, owner, quota, op,
                   screen, mixed, events, asked>>

Confirm(id) ==
    /\ id \in noticed \ auth /\ auth' = auth \cup {id}
    /\ UNCHANGED <<noticed, desk, lists, menu, theirs, store, owner, quota, op,
                   screen, mixed, events, asked>>

\* removeIdentity: handlers already past the check go on.
RemoveIdentity(id) ==
    /\ id \in auth /\ events < MaxEvents /\ events' = events + 1
    /\ auth' = auth \ {id}
    /\ UNCHANGED <<noticed, desk, lists, menu, theirs, store, owner, quota, op,
                   screen, mixed, asked>>

(***************************************************************************)
(* /projects, and a plain text when no project is open.                    *)
(***************************************************************************)
AskProjects(h, id) ==
    /\ Ask(h, id)
    /\ IF desk
       THEN /\ Await(h, id, "projects", None, None) /\ UNCHANGED <<lists, cur, shown>>
            /\ UNCHANGED pending \/ GiveUpPicker(id)
       ELSE \E l \in IF listing = <<>> THEN Answers ELSE {listing} :
            /\ IF listing = <<>> /\ l # <<>> THEN ReplaceProjects(l) ELSE UNCHANGED lists
            /\ Reply(h, id, IF l = <<>> THEN "none" ELSE "project") /\ UNCHANGED cur
            /\ IF l = <<>> THEN UNCHANGED shown /\ (UNCHANGED pending \/ GiveUpPicker(id))
               ELSE /\ shown' = [shown EXCEPT ![id] = Printed(l, TRUE)]
                    /\ SetPending(id, "project")
    /\ UNCHANGED <<desk, theirs, store, owner, quota, events>>

\* listProjects answers; the picker is armed only now, after the await.
ProjectsListed(h, l) ==
    LET id == op[h].id IN
    /\ op[h].at = "projects" /\ l \in Answers
    /\ shown' = [shown EXCEPT ![id] = [i \in DOMAIN l |-> [path |-> l[i], num |-> i]]]
    /\ SetPending(id, IF l = <<>> THEN "none" ELSE "project")
    /\ Reply(h, id, IF l = <<>> THEN "none" ELSE "project")
    /\ UNCHANGED <<auth, noticed, desk, lists, cur, theirs, store, owner, quota, mixed, events, asked>>

(***************************************************************************)
(* Opening a project, and /sessions.                                       *)
(***************************************************************************)
\* sessionsTextAsync arms its picker before it asks for the threads.
\* Mutant: the prompt is set only where the threads are asked for.
MutShowSessionsUnarmed(h, id, p) ==
    IF desk THEN SetPending(id, "session") /\ Await(h, id, "threads", p, None)
            ELSE Reply(h, id, "session") /\ UNCHANGED pending
ShowSessions(h, id, p) ==
    /\ SetPending(id, "session")
    /\ IF desk THEN Await(h, id, "threads", p, None) ELSE Reply(h, id, "session")

\* /open, or a number answering the project picker: an entry of the list last
\* shown to this identity, a project of the store or any path.
Open(h, id, p) ==
    /\ Ask(h, id)
    /\ cur' = [cur EXCEPT ![id] = p] /\ ShowSessions(h, id, p)
    /\ UNCHANGED <<desk, lists, shown, theirs, store, owner, quota, events>>

AskSessions(h, id) ==
    /\ Ask(h, id) /\ cur[id] # None /\ ShowSessions(h, id, cur[id])
    /\ UNCHANGED <<desk, lists, cur, shown, theirs, store, owner, quota, events>>

ThreadsListed(h) ==
    /\ op[h].at = "threads" /\ Reply(h, op[h].id, "session")
    /\ UNCHANGED <<auth, noticed, desk, lists, menu, theirs, store, owner, quota, mixed, events, asked>>

(***************************************************************************)
(* /use, /switch, and a number answering the session picker.               *)
(***************************************************************************)
\* "0" asks for the first message of a new session, as /new without text.
AskFirstMessage(h, id) ==
    /\ Ask(h, id) /\ cur[id] # None /\ SetPending(id, "first") /\ Reply(h, id, "none")
    /\ UNCHANGED <<desk, lists, cur, shown, theirs, store, owner, quota, events>>

\* A session of the store is chosen without Codex.
UseStored(h, id, p) ==
    \/ \E t \in stored[p] : SetActive(id, p, t) /\ SetPending(id, "none") /\ Reply(h, id, "none")
    \/ UNCHANGED <<store, pending>> /\ Reply(h, id, "none")     \* unknown session

Use(h, id) ==
    /\ Ask(h, id) /\ cur[id] # None
    /\ IF desk
       THEN Await(h, id, "use", cur[id], None) /\ UNCHANGED <<store, pending>>
       ELSE UseStored(h, id, cur[id])
    /\ UNCHANGED <<desk, lists, cur, shown, theirs, owner, quota, events>>

\* Typed, or a card's button pressed: the callback is answered at once and
\* what it picks (dispatchPickAsync) overlaps with the messages, as any
\* handler; its index is one of the list shown last, however old the card.
Choose(h, id) == Use(h, id) \/ \E p \in Projects : Open(h, id, p)

\* The threads are listed again; the chosen one is resumed, and a selector
\* that names none of them is looked up in the store.
UseListed(h) ==
    LET p == op[h].proj IN
    /\ op[h].at = "use"
    /\ \/ \E t \in theirs[p] : Proceed(h, "resume", t) /\ UNCHANGED <<store, pending, screen>>
       \/ UseStored(h, op[h].id, p)
    /\ UNCHANGED <<auth, noticed, desk, lists, cur, shown, theirs, owner, quota, mixed, events, asked>>

\* The history shown with the reply is read after all this and changes nothing.
UseResumed(h) ==
    LET o == op[h] IN
    /\ o.at = "resume"
    /\ Bind(o.id, o.thr) /\ SetActive(o.id, o.proj, o.thr)
    /\ SetPending(o.id, "none") /\ Reply(h, o.id, "none")
    /\ UNCHANGED <<auth, noticed, desk, lists, cur, shown, theirs, quota, mixed, events, asked>>

(***************************************************************************)
(* Turns.  The quota is reserved before the first await and given back     *)
(* when any await of the turn fails.                                       *)
(***************************************************************************)
\* Mutant: the bound itself is let through.
MutEnforceTurnRateOffByOne(id) == spent[id] <= MaxTurns /\ spent' = [spent EXCEPT ![id] = @ + 1]
EnforceTurnRate(id) == spent[id] < MaxTurns /\ spent' = [spent EXCEPT ![id] = @ + 1]
RefundTurnStart(id) == spent' = [spent EXCEPT ![id] = @ - 1]
\* The reply of a started turn.
Started(h, id) ==
    /\ started' = [started EXCEPT ![id] = @ + 1] /\ UNCHANGED spent /\ Reply(h, id, "none")

\* /new with text, or the text asked for by AskFirstMessage.
NewSession(h, id) ==
    /\ Ask(h, id) /\ cur[id] # None /\ EnforceTurnRate(id)
    /\ Await(h, id, IF desk THEN "create" ELSE "cli", cur[id], None)
    /\ UNCHANGED <<desk, lists, menu, theirs, store, owner, started, events>>

\* startThread answers: the thread is bound before its first turn is asked for.
ThreadStarted(h, t) ==
    LET o == op[h] IN
    /\ o.at = "create" /\ \A p \in Projects : t \notin theirs[p] \cup stored[p]
    /\ theirs' = [theirs EXCEPT ![o.proj] = @ \cup {t}]
    /\ Bind(o.id, t) /\ Proceed(h, "first", t)
    /\ UNCHANGED <<people, desk, lists, menu, store, quota, screen, mixed, events, asked>>

FirstTurnStarted(h) ==
    LET o == op[h] IN
    /\ o.at = "first"
    /\ SetActive(o.id, o.proj, o.thr) /\ SetPending(o.id, "none") /\ Started(h, o.id)
    /\ UNCHANGED <<auth, noticed, desk, lists, cur, shown, theirs, owner, mixed, events, asked>>

\* Without Desktop the prompt runs in codex-cli and its output is the reply.
CliRan(h, t) ==
    LET o == op[h] IN
    /\ o.at = "cli" /\ \A p \in Projects : t \notin theirs[p] \cup stored[p]
    /\ SetActive(o.id, o.proj, t) /\ SetPending(o.id, "none") /\ Started(h, o.id)
    /\ UNCHANGED <<auth, noticed, desk, lists, cur, shown, theirs, owner, mixed, events, asked>>

\* A plain text while a picker waits: a reminder once, then the picker goes.
MissPicker(h, id) ==
    /\ Ask(h, id) /\ pending[id] \in {"project", "session"}
    /\ SetPending(id, IF pending[id] = "project" THEN "projectAgain" ELSE "sessionAgain")
    /\ Reply(h, id, "none")
    /\ UNCHANGED <<desk, lists, cur, shown, theirs, store, owner, quota, events>>
TakenAsText(id) == pending[id] \in {"none", "projectAgain", "sessionAgain"}

\* A plain text without an active session shows the sessions.
TextWithoutSession(h, id) ==
    /\ Ask(h, id) /\ TakenAsText(id) /\ cur[id] # None
    /\ active[id][cur[id]] = None \/ active[id][cur[id]] \notin stored[cur[id]]
    /\ ShowSessions(h, id, cur[id])
    /\ UNCHANGED <<desk, lists, cur, shown, theirs, store, owner, quota, events>>

\* sendToActiveSession: quota, binding, resume, turn.
Send(h, id) ==
    /\ Ask(h, id) /\ TakenAsText(id) /\ cur[id] # None /\ desk
    /\ LET t == active[id][cur[id]] IN
        /\ t \in stored[cur[id]] /\ EnforceTurnRate(id) /\ Bind(id, t)
        /\ Await(h, id, "reopen", cur[id], t)
    /\ GiveUpPicker(id)
    /\ UNCHANGED <<desk, lists, cur, shown, theirs, store, started, events>>

Reopened(h) ==
    /\ op[h].at = "reopen" /\ Proceed(h, "turn", op[h].thr)
    /\ UNCHANGED <<people, desk, lists, menu, theirs, store, owner, quota, screen, mixed, events, asked>>

\* "thread not found" is answered by one more resume and one more try.
ThreadNotFound(h) ==
    /\ op[h].at = "turn" /\ Proceed(h, "again", op[h].thr)
    /\ UNCHANGED <<people, desk, lists, menu, theirs, store, owner, quota, screen, mixed, events, asked>>

TurnStarted(h) ==
    /\ op[h].at \in {"turn", "again"} /\ Started(h, op[h].id)
    /\ UNCHANGED <<auth, noticed, desk, lists, menu, theirs, store, owner, mixed, events, asked>>

(***************************************************************************)
(* /cancel, failures, and what goes on around the router.                  *)
(***************************************************************************)
Cancel(h, id) ==
    /\ Ask(h, id)
    /\ IF pending[id] \in Picking
       THEN SetPending(id, "none") /\ Reply(h, id, "none")
       ELSE /\ cur[id] # None /\ active[id][cur[id]] # None /\ UNCHANGED pending
            /\ Await(h, id, "cancel", cur[id], active[id][cur[id]])
    /\ UNCHANGED <<desk, lists, cur, shown, theirs, store, owner, quota, events>>
\* cancelTurn reads the turns of the thread; without an active one it fails.
CancelTurn(h) ==
    /\ op[h].at = "cancel" /\ Proceed(h, "interrupt", op[h].thr)
    /\ UNCHANGED <<people, desk, lists, menu, theirs, store, owner, quota, screen, mixed, events, asked>>
Cancelled(h) ==
    /\ op[h].at = "interrupt" /\ Reply(h, op[h].id, "none")
    /\ UNCHANGED <<auth, noticed, desk, lists, menu, theirs, store, owner, quota, mixed, events, asked>>

\* A command that only reads or is refused: no project is open, the quota is
\* used up, Desktop is not connected, a number is on no list.
AnswerOnly(h, id) ==
    /\ Ask(h, id) /\ Reply(h, id, "none")
    /\ UNCHANGED pending \/ GiveUpPicker(id)
    /\ UNCHANGED <<desk, lists, cur, shown, theirs, store, owner, quota, events>>

\* Mutant: a failure of the retried turn is not refunded.
MutFailsKeepsQuota(h) ==
    /\ op[h].at # "idle" /\ Reply(h, op[h].id, "none")
    /\ IF op[h].at \in Paid \ {"again"} THEN RefundTurnStart(op[h].id) ELSE UNCHANGED spent
    /\ UNCHANGED <<auth, noticed, desk, lists, menu, theirs, store, owner, started, mixed, events, asked>>
\* Any await may fail; the error text is the reply.
Fails(h) ==
    /\ op[h].at # "idle" /\ Reply(h, op[h].id, "none")
    /\ IF op[h].at \in Paid THEN RefundTurnStart(op[h].id) ELSE UNCHANGED spent
    /\ UNCHANGED <<auth, noticed, desk, lists, menu, theirs, store, owner, started, mixed, events, asked>>

\* The connection to Codex Desktop comes and goes.
Toggle ==
    /\ desk \/ events < MaxEvents
    /\ desk' = ~desk /\ events' = IF desk THEN events ELSE events + 1
    /\ UNCHANGED <<people, lists, menu, theirs, store, owner, quota, op, screen, mixed, asked>>

\* A restart restores snapshot(): prompts, shown lists, quota and project
\* numbers are not in it.  The chat still shows what it showed.
Restart ==
    /\ events < MaxEvents /\ events' = events + 1
    /\ pending' = [i \in Ids |-> "none"] /\ shown' = [i \in Ids |-> <<>>]
    /\ listing' = <<>> /\ numberOf' = [p \in Projects |-> 0]
    /\ spent' = [i \in Ids |-> 0] /\ started' = [i \in Ids |-> 0]
    /\ op' = [h \in Handlers |-> Idle] /\ forgot' = {i \in Ids : face[i] # "none"}
    /\ UNCHANGED <<people, desk, cur, theirs, store, owner, face, mixed, asked>>

Next ==
    \/ Toggle \/ Restart
    \/ \E l \in Lists : Discover(l)
    \/ \E id \in Ids : Stranger(id) \/ Confirm(id) \/ RemoveIdentity(id)
    \/ \E h \in Handlers :
        \/ ThreadsListed(h) \/ UseListed(h) \/ UseResumed(h) \/ FirstTurnStarted(h)
        \/ Reopened(h) \/ ThreadNotFound(h) \/ TurnStarted(h) \/ CancelTurn(h)
        \/ Cancelled(h) \/ Fails(h)
        \/ \E l \in Answers : ProjectsListed(h, l)
        \/ \E t \in Threads : ThreadStarted(h, t) \/ CliRan(h, t)
        \/ \E id \in Ids :
            \/ AskProjects(h, id) \/ AskSessions(h, id) \/ AskFirstMessage(h, id)
            \/ Choose(h, id) \/ NewSession(h, id) \/ MissPicker(h, id)
            \/ TextWithoutSession(h, id) \/ Send(h, id) \/ Cancel(h, id) \/ AnswerOnly(h, id)

Spec == Init /\ [][Next]_vars

(***************************************************************************)
(* Properties.                                                             *)
(***************************************************************************)
\* A user's /use never redirects another user's messages: the session an
\* identity's text goes to is one it chose or created itself.
OwnSessionsOnly ==
    \A id \in Ids, p \in Projects : active[id][p] \in picked[id] \cup {None}

\* The quota is exact: whatever overlaps and fails, an identity has spent one
\* turn for each turn started and each one on its way, and never too many.
QuotaExact ==
    \A id \in Ids : spent[id] = started[id] + Cardinality(InPaid(id))

\* The picker printed last is the one that is armed: a number is taken for one
\* of its entries and is neither sent to Codex as a prompt nor looked up in
\* another list.  Two exceptions are the code's.  Messages that overlap may
\* break this, since one handler clears the prompt another one has set; and a
\* restart forgets the prompt while the chat still shows the picker (snapshot
\* keeps the project and the session), so that the number goes to the session.
PickerArmed ==
    \A id \in Ids :
        face[id] # "none" /\ Live(id) = {} /\ ~mixed[id] /\ id \notin forgot =>
            pending[id] = face[id] /\ (face[id] = "project" => shown[id] # <<>>)

=============================================================================
