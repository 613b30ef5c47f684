------------------------------- MODULE LiveCard -------------------------------
(***************************************************************************)
(* The status card a turn shows in a chat that can update messages         *)
(* (channels/feishu/runtime.js; telegram and dingtalk repeat it): opened   *)
(* by an awaited request, updated behind a throttle, and closed with one   *)
(* final update by whoever detaches the session first.                     *)
(*                                                                         *)
(* The module has the runtime's state and the parts its callers put their  *)
(* handlers together from; TurnRouting is the caller.  A card is named     *)
(* <<thread, turn>> after the turn that asked for it.  Its text is either  *)
(* "live" or "final".                                                      *)
(***************************************************************************)
EXTENDS Naturals, FiniteSets, Functions

CONSTANTS
  Threads,      (* the Codex threads                                         *)
  NoCard        (* no session                                                *)

VARIABLES
  cards,        (* cardSessions: a thread's session, or NoCard               *)
  opening,      (* cards whose opening request is under way                  *)
  patches,      (* updates under way                                         *)
  shown,        (* what the chat shows of each card                          *)
  detached      (* history: cards whose session was detached                 *)

cardVars == <<cards, opening, patches, shown, detached>>

Session(c)     == [card |-> c, pending |-> FALSE, timer |-> FALSE]

(* An update; "reply" is what is sent as text instead if a final one fails. *)
Patch(c, final, reply) == [card |-> c, final |-> final, reply |-> reply]
NoReply                == [thread |-> NoCard, turn |-> 0, item |-> 0]

CardInit ==
  /\ cards = [t \in Threads |-> NoCard]
  /\ opening = {} /\ patches = {} /\ detached = {}
  /\ shown = [c \in {} |-> "live"]

HasThreadCard(t) == cards[t] # NoCard

---------------------------------------------------------------------------
(* openThreadCard awaits the request; the session only exists once it is    *)
(* answered, and takes the place of the thread's earlier one.               *)
CardOpened(c) ==
  /\ opening' = opening \ {c}
  /\ cards' = [cards EXCEPT ![c[1]] = Session(c)]
  /\ shown' = [x \in DOMAIN shown \cup {c} |-> IF x = c THEN "live" ELSE shown[x]]
  /\ UNCHANGED <<patches, detached>>

OpenFails(c) ==
  /\ opening' = opening \ {c}
  /\ UNCHANGED <<cards, patches, shown, detached>>

UpdateThreadCard(t) ==
  /\ cards' = IF HasThreadCard(t)
              THEN [cards EXCEPT ![t] = [@ EXCEPT !.pending = TRUE, !.timer = TRUE]] ELSE cards
  /\ UNCHANGED <<opening, patches, shown, detached>>

(* The throttle timer: flushThreadCard sends the newest card.               *)
FlushThreadCard(t) ==
  /\ HasThreadCard(t) /\ cards[t].timer
  /\ cards' = [cards EXCEPT ![t] = Session(@.card)]
  /\ patches' = IF cards[t].pending
                THEN patches \cup {Patch(cards[t].card, FALSE, NoReply)} ELSE patches
  /\ UNCHANGED <<opening, shown, detached>>

(* An update reaches the chat.  Updates under way are separate requests and *)
(* arrive in any order.                                                     *)
PatchLands(p) ==
  /\ patches' = patches \ {p}
  /\ shown' = [shown EXCEPT ![p.card] = IF p.final THEN "final" ELSE "live"]
  /\ UNCHANGED <<cards, opening, detached>>

PatchFails(p) ==
  /\ patches' = patches \ {p}
  /\ UNCHANGED <<cards, opening, shown, detached>>

---------------------------------------------------------------------------
(* Slip: the session stays in the map.                                      *)
MutDetachKeeps(ts) ==
  /\ detached' = detached \cup {cards[t].card : t \in {x \in ts : HasThreadCard(x)}}
  /\ cards' = cards

(* detachThreadCard for each of ts: the session and its throttle are gone   *)
(* at once, before anything is awaited.                                     *)
Detach(ts) ==
  /\ detached' = detached \cup {cards[t].card : t \in {x \in ts : HasThreadCard(x)}}
  /\ cards' = [t \in Threads |-> IF t \in ts THEN NoCard ELSE cards[t]]

(* finishThreadCard: detach and send the final card; a failure is ignored.  *)
FinishThreadCards(ts) ==
  /\ Detach(ts)
  /\ patches' = patches \cup {Patch(cards[t].card, TRUE, NoReply) : t \in {x \in ts : HasThreadCard(x)}}
  /\ UNCHANGED <<opening, shown>>
=============================================================================
