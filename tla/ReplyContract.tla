--------------------------- MODULE ReplyContract ---------------------------
(***************************************************************************)
(* What the outbound path promises for each reply, whatever the queue, the *)
(* drains and the timers do: a reply is accepted once, stays pending until *)
(* exactly one of delivered, failed or dropped decides it, is handed to    *)
(* the channel successfully at most once, and what is decided is final.    *)
(***************************************************************************)
EXTENDS Integers

CONSTANT Ids          (* the ids the queue may ever hand out *)

VARIABLES fate, sent

vars == <<fate, sent>>

Fate == {"none", "pending", "delivered", "failed", "gone"}

TypeOK == fate \in [Ids -> Fate] /\ sent \in SUBSET Ids

Init == fate = [i \in Ids |-> "none"] /\ sent = {}

(* "gone" is an entry the queue no longer holds: shed while pending, or     *)
(* forgotten after it was decided.                                          *)
MayBecome(old, new) ==
  \/ new = old
  \/ old = "none"                    /\ new = "pending"
  \/ old = "pending"                 /\ new \in {"delivered", "failed", "gone"}
  \/ old \in {"delivered", "failed"} /\ new = "gone"

(* One step of the outbound path moves any number of replies (a delivery    *)
(* prunes, a failure adds its notice), each along its own fate, and at most *)
(* one goes out to the channel: one that was not sent before and that the   *)
(* step itself marks delivered, unless the queue had dropped it in flight.  *)
Next ==
  /\ fate' \in [Ids -> Fate]
  /\ \A i \in Ids : MayBecome(fate[i], fate'[i])
  /\ \/ sent' = sent
     \/ \E i \in Ids \ sent : /\ fate[i] \in {"pending", "gone"}
                              /\ fate'[i] \in {"delivered", "gone"}
                              /\ sent' = sent \cup {i}
  /\ \A i \in Ids : fate[i] = "pending" /\ fate'[i] = "delivered" => i \in sent'

Spec == Init /\ [][Next]_vars
=============================================================================
