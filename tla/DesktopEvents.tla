---------------------------- MODULE DesktopEvents ----------------------------
(***************************************************************************)
(* What Codex sends over one connection after another, and what is         *)
(* answered: approval requests with their short codes and the prompts and  *)
(* screens they are resolved from, and the file changes collected for each *)
(* turn.                                                                   *)
(*                                                                         *)
(* Codex numbers its requests from 1 on each connection.  A resolve runs   *)
(* from the button to the answer without another event in between: its     *)
(* awaits settle in the same turn of the event loop, even when a child has *)
(* to be spawned for it.                                                   *)
(*                                                                         *)
(* A connection can be given up while its child lives, when a heartbeat is *)
(* not answered.  The child goes on reporting until the backoff timer, a   *)
(* second later or more, closes it; what it wrote is read before.          *)
(***************************************************************************)
EXTENDS Naturals, FiniteSets

CONSTANTS Ids,      \* authorised identities
          Threads,
          Paths,    \* files a turn may change
          MaxReq,   \* bound on approval requests of one connection
          MaxGen,   \* bound on connections
          MaxCode,  \* bound on the short codes of one daemon
          None

ASSUME BoundsAssumption == {MaxReq, MaxGen, MaxCode} \subseteq Nat \ {0}
ASSUME NoneAssumption == None \notin Ids \cup Threads

Console == "console"   \* the web UI and the CLI
Numbers == 1..MaxReq

VARIABLES
    link,     \* the connection: its number, whether its child lives, whether
              \* it is given up, whether the backoff timer is due
    asked,    \* the highest request number of this connection
    waits,    \* Codex's requests that wait for an answer
    pend,     \* pendingApprovals
    keyOf,    \* shortCodeToKey (0: no entry)
    counter,  \* approvalCounter
    owner,    \* threadBindings
    keys,     \* the dedupe keys approval:<id> the outbound queue remembers
    cards,    \* prompts in chats
    screen,   \* the list the web UI or the CLI got last
    log,      \* history: the answer of the last step to a waiting request
    running,  \* turns under way
    lastTurn, \* _activeThreadId
    paths,    \* changedPathsByThread
    touched,  \* history: what each turn under way changed
    strays    \* history: files collected while the backoff timer was due

requests  == <<asked, waits, pend, keyOf, counter>>
prompts   == <<keys, cards, screen>>
showing   == <<keys, screen>>
turns     == <<running, lastTurn, paths, touched, strays>>
vars == <<link, requests, owner, prompts, log, turns>>

NoApproval == [gen |-> 0, thread |-> None, code |-> 0]
Pending == {n \in Numbers : pend[n] # NoApproval}

TypeOK ==
    /\ link \in [gen : 1..MaxGen, up : BOOLEAN, lost : BOOLEAN, due : BOOLEAN]
    /\ link.lost => link.due
    /\ asked \in 0..MaxReq
    /\ \A w \in waits : w.n \in 1..asked /\ w.thread \in Threads /\ w.conv \in Ids \cup {None}
    /\ pend \in [Numbers -> [gen : 0..MaxGen, thread : Threads \cup {None}, code : 0..MaxCode]]
    /\ keyOf \in [1..MaxCode -> 0..MaxReq] /\ counter \in 0..MaxCode
    /\ \A n \in Pending : keyOf[pend[n].code] = n
    /\ \A c \in 1..MaxCode : keyOf[c] # 0 => keyOf[c] \in Pending /\ c <= counter
    /\ owner \in [Threads -> Ids \cup {None}] /\ keys \subseteq Numbers
    /\ cards \subseteq [code : 1..MaxCode, gen : 1..MaxGen, n : Numbers]
    /\ screen \subseteq [gen : 1..MaxGen, n : Numbers]
    /\ running \subseteq Threads /\ lastTurn \in Threads \cup {None}
    /\ paths \in [Threads -> SUBSET Paths] /\ touched \in [Threads -> SUBSET Paths]
    /\ strays \in [Threads -> SUBSET Paths]

Init ==
    /\ link = [gen |-> 1, up |-> TRUE, lost |-> FALSE, due |-> FALSE] /\ asked = 0 /\ waits = {}
    /\ pend = [n \in Numbers |-> NoApproval] /\ keyOf = [c \in 1..MaxCode |-> 0]
    /\ counter = 0
    /\ owner = [t \in Threads |-> None] /\ keys = {} /\ cards = {} /\ screen = {}
    /\ log = {} /\ running = {} /\ lastTurn = None
    /\ paths = [t \in Threads |-> {}] /\ touched = [t \in Threads |-> {}]
    /\ strays = [t \in Threads |-> {}]

(***************************************************************************)
(* Approval requests.                                                      *)
(***************************************************************************)
\* Mutant: codes count what is pending.
MutCodeForSize(n) == IF pend[n] # NoApproval THEN pend[n].code ELSE Cardinality(Pending) + 1
\* A number that is pending already keeps its code.
CodeFor(n) == IF pend[n] # NoApproval THEN pend[n].code ELSE counter + 1

\* routeDesktopEvent: an unbound thread's request is shown nowhere; a bound
\* one's is queued, unless the queue remembers its number.
Prompt(n, conv, code) ==
    IF conv = None \/ n \in keys THEN UNCHANGED <<keys, cards>>
    ELSE /\ keys' = keys \cup {n}
         /\ cards' = cards \cup {[code |-> code, gen |-> link.gen, n |-> n]}

\* handleServerRequest
ServerRequest(t) ==
    LET n == asked + 1  code == CodeFor(n) IN
    /\ link.up /\ t \in running /\ n \in Numbers /\ code <= MaxCode
    /\ asked' = n /\ waits' = waits \cup {[n |-> n, thread |-> t, conv |-> owner[t]]}
    /\ counter' = IF code > counter THEN code ELSE counter
    /\ pend' = [pend EXCEPT ![n] = [gen |-> link.gen, thread |-> t, code |-> code]]
    /\ keyOf' = [keyOf EXCEPT ![code] = n]
    /\ Prompt(n, owner[t], code)
    /\ log' = {} /\ UNCHANGED <<link, owner, screen, turns>>

\* The queue forgets its oldest delivered entries.
ForgetKey(n) ==
    /\ n \in keys /\ keys' = keys \ {n}
    /\ log' = {} /\ UNCHANGED <<link, requests, owner, cards, screen, turns>>

\* GET /api/approvals, by the web UI's refresh or `comote approvals`.
ListApprovals ==
    /\ screen' = {[gen |-> pend[n].gen, n |-> n] : n \in Pending}
    /\ log' = {} /\ UNCHANGED <<link, requests, owner, keys, cards, turns>>

(***************************************************************************)
(* Answers.                                                                *)
(***************************************************************************)
\* The connector's resolveApproval: the answer carries the number n, and it is
\* Codex's request only if Codex asked it on the connection that is up now.
\* Without one a child is spawned that never asked.  seen is what the one who
\* answers was shown.
Resolve(n, by, seen) ==
    LET mine == {w \in waits : w.n = n} IN
    /\ n \in Pending
    /\ pend' = [pend EXCEPT ![n] = NoApproval] /\ keyOf' = [keyOf EXCEPT ![pend[n].code] = 0]
    /\ waits' = IF link.up THEN waits \ mine ELSE waits
    /\ log' = IF ~link.up THEN {}
              ELSE {[gen |-> link.gen, n |-> n, by |-> by, seen |-> seen,
                     owner |-> owner[w.thread]] : w \in mine}
    /\ UNCHANGED <<link, asked, counter, owner, showing, turns>>

\* findPendingApproval looks for the code among the pending ones, the connector
\* in shortCodeToKey.
Found(code) == {n \in Pending : pend[n].code = code}
\* Only the owner of the thread, if it has one.  An approval that is not found
\* is let through, for the connector to refuse.
MayDecide(id, ns) == \A n \in ns : owner[pend[n].thread] \in {None, id}

\* The router takes the decision that came with the code of a prompt.
ByCode(id, card) ==
    /\ MayDecide(id, Found(card.code)) /\ keyOf[card.code] # 0
    /\ Resolve(keyOf[card.code], id, [gen |-> card.gen, n |-> card.n])

\* Cards can be pressed by everyone in the chat, and as long as they are
\* there.  Feishu replaces a decided card by a request that may fail, DingTalk
\* with its answer to the press; Telegram's buttons stay.  A decision that is
\* refused leaves the card.
FeishuButton(id, card)   == ByCode(id, card) /\ cards' \in {cards, cards \ {card}}
DingTalkButton(id, card) == ByCode(id, card) /\ cards' = cards \ {card}
TelegramButton(id, card) == ByCode(id, card) /\ UNCHANGED cards

\* Mutant: the router looks for codes only, the connector takes ids as well.
MutByIdUngated(id, s) == Resolve(s.n, id, s) /\ UNCHANGED cards
\* /approve and /deny with the id a screen shows; typed with the code of a
\* card they do what TelegramButton does.
ById(id, s) == MayDecide(id, {s.n} \cap Pending) /\ Resolve(s.n, id, s) /\ UNCHANGED cards

\* POST /api/approvals/<id>: the machine's owner, no gate.
PostApproval(s) == Resolve(s.n, Console, s) /\ UNCHANGED cards
ByConsole(s) == PostApproval(s)

(***************************************************************************)
(* Turns and the files they change.                                        *)
(***************************************************************************)
\* A turn started from a chat binds its thread to the sender before; one that
\* was started in Codex Desktop leaves the binding.
TurnStarts(t, id) ==
    /\ link.up /\ t \notin running
    /\ running' = running \cup {t} /\ lastTurn' = t
    /\ owner' = IF id = None THEN owner ELSE [owner EXCEPT ![t] = id]
    /\ log' = {} /\ UNCHANGED <<link, requests, prompts, paths, touched, strays>>

\* A notification that names no thread is about the turn that started last.
AccumulateChangedPaths(t, p, named) ==
    LET id == IF named THEN t ELSE lastTurn IN
    IF id = None THEN UNCHANGED <<paths, strays>>
    ELSE /\ paths' = [paths EXCEPT ![id] = @ \cup {p}]
         /\ strays' = IF link.due THEN [strays EXCEPT ![id] = @ \cup {p}] ELSE strays

\* fileChange, patchUpdated; Codex leaves the name out only of a turn alone.
FileChanged(t, p, named) ==
    /\ link.up /\ t \in running /\ (named \/ running = {t})
    /\ touched' = [touched EXCEPT ![t] = @ \cup {p}]
    /\ AccumulateChangedPaths(t, p, named)
    /\ log' = {} /\ UNCHANGED <<link, requests, owner, prompts, running, lastTurn>>

\* turn/completed: the only event that clears the paths of a turn that goes on.
TurnCompletes(t) ==
    /\ link.up /\ t \in running /\ \A w \in waits : w.thread # t
    /\ running' = running \ {t} /\ lastTurn' = None
    /\ paths' = [paths EXCEPT ![t] = {}] /\ touched' = [touched EXCEPT ![t] = {}]
    /\ strays' = [strays EXCEPT ![t] = {}]
    /\ log' = {} /\ UNCHANGED <<link, requests, owner, prompts>>

(***************************************************************************)
(* Connections.                                                            *)
(***************************************************************************)
\* Mutant: a drop leaves the paths of the turns it cut off.
MutForgetTurnsKeepsPaths ==
    IF link.lost THEN UNCHANGED <<lastTurn, paths, strays>>
    ELSE lastTurn' = None /\ UNCHANGED <<paths, strays>>
\* handleDisconnect: the pending approvals stay; what was collected goes, but only once.
ForgetTurns ==
    IF link.lost THEN UNCHANGED <<lastTurn, paths, strays>>
    ELSE /\ lastTurn' = None /\ paths' = [t \in Threads |-> {}]
         /\ strays' = [t \in Threads |-> {}]

\* A child takes its requests and its turns with it.
ChildGone == waits' = {} /\ running' = {} /\ touched' = [t \in Threads |-> {}]

\* The child exits.
Disconnect ==
    /\ link.up /\ link.gen < MaxGen /\ link' = [link EXCEPT !.up = FALSE, !.lost = TRUE, !.due = TRUE]
    /\ ChildGone /\ ForgetTurns
    /\ log' = {} /\ UNCHANGED <<asked, pend, keyOf, counter, owner, prompts>>

\* A heartbeat fails: the child, if there is one, is left alone.
HeartbeatLost ==
    /\ ~link.lost /\ link.gen < MaxGen /\ link' = [link EXCEPT !.lost = TRUE, !.due = TRUE]
    /\ ForgetTurns
    /\ log' = {} /\ UNCHANGED <<requests, owner, prompts, running, touched>>

\* The backoff timer closes the client, whose child may live, and opens
\* another one, which may fail; it opens none when the button was faster.
Reconnect ==
    /\ link.due /\ ChildGone
    /\ \/ /\ link.lost /\ link.gen < MaxGen /\ asked' = 0
          /\ link' = [gen |-> link.gen + 1, up |-> TRUE, lost |-> FALSE, due |-> FALSE]
       \/ link' = [link EXCEPT !.up = FALSE, !.due = link.lost] /\ UNCHANGED asked
    /\ log' = {} /\ UNCHANGED <<pend, keyOf, counter, owner, prompts, lastTurn, paths, strays>>

\* The button: a child that lives is initialized already, and the timer stays.
Reinitialize ==
    /\ link.lost
    /\ \/ link.up /\ link' = [link EXCEPT !.lost = FALSE] /\ UNCHANGED asked
       \/ /\ ~link.up /\ link.gen < MaxGen /\ asked' = 0
          /\ link' = [link EXCEPT !.gen = @ + 1, !.up = TRUE, !.lost = FALSE]
    /\ log' = {} /\ UNCHANGED <<waits, pend, keyOf, counter, owner, prompts, turns>>

\* A new daemon: bindings and the queue are restored, chats keep their cards.
Restart ==
    /\ link.gen < MaxGen /\ link' = [gen |-> link.gen + 1, up |-> TRUE, lost |-> FALSE, due |-> FALSE]
    /\ asked' = 0 /\ waits' = {} /\ counter' = 0
    /\ pend' = [n \in Numbers |-> NoApproval] /\ keyOf' = [c \in 1..MaxCode |-> 0]
    /\ running' = {} /\ lastTurn' = None /\ paths' = [t \in Threads |-> {}]
    /\ touched' = [t \in Threads |-> {}] /\ strays' = [t \in Threads |-> {}]
    /\ log' = {} /\ UNCHANGED <<owner, prompts>>

Next ==
    \/ ListApprovals \/ Restart
    \/ Disconnect \/ HeartbeatLost \/ Reconnect \/ Reinitialize
    \/ \E n \in Numbers : ForgetKey(n)
    \/ \E s \in screen : ByConsole(s) \/ \E id \in Ids : ById(id, s)
    \/ \E card \in cards, id \in Ids :
        FeishuButton(id, card) \/ DingTalkButton(id, card) \/ TelegramButton(id, card)
    \/ \E t \in Threads :
        \/ ServerRequest(t) \/ TurnCompletes(t)
        \/ \E id \in Ids \cup {None} : TurnStarts(t, id)
        \/ \E p \in Paths, named \in BOOLEAN : FileChanged(t, p, named)

Spec == Init /\ [][Next]_vars

(***************************************************************************)
(* Properties.                                                             *)
(***************************************************************************)
\* A chat answer to a request of an owned thread is its owner's: the gate and
\* the connector look for the approval in two places and find the same one,
\* also when numbers come back on a new connection.
OwnerDecides ==
    \A a \in log : a.by # Console => a.owner \in {None, a.by}

\* On one connection an answer decides the request its giver was shown: no
\* code or id comes to stand for another request.
DecidesWhatWasShown ==
    \A a \in log : a.seen.gen = a.gen => a.seen.n = a.n

\* The files offered at the end of a turn were changed in that turn: nothing
\* of a turn a lost connection cut off, or of another thread, slips in.  What
\* does slip in, against the comment in handleDisconnect, is what a child that
\* was given up reported until the timer closed it.
PathsOfThisTurn == \A t \in Threads : paths[t] \subseteq touched[t] \cup strays[t]

=============================================================================
