------------------------------ MODULE TodoCards ------------------------------
(***************************************************************************)
(* What the dashboard promises an employee about the card of a todo,       *)
(* without graph calls, reply handlers, cron runs and their batches: what  *)
(* the employee has dealt with is never touched again; the agent clears    *)
(* what is due; only what was acknowledged falls due; and due it remains,  *)
(* even for a card the employee has put back.                              *)
(***************************************************************************)
CONSTANT Mails

VARIABLES card,     \* "none", "active", "user" or "agent", for each mail
          acked,    \* mails that the employee has acknowledged
          due       \* mails whose todo the agent may clear

vars == <<card, acked, due>>

Init ==
    /\ card = [m \in Mails |-> "none"]
    /\ acked = {}
    /\ due = {}

Turn(m, from, to) ==
    /\ card[m] = from
    /\ card' = [card EXCEPT ![m] = to]
    /\ UNCHANGED <<acked, due>>

Show(m)     == Turn(m, "none", "active")
DealWith(m) == Turn(m, "active", "user")
Clear(m)    == m \in due /\ Turn(m, "active", "agent")
PutBack(m)  == Turn(m, "agent", "active")

Acknowledge(m) ==
    /\ acked' = acked \union {m}
    /\ UNCHANGED <<card, due>>

FallDue(m) ==
    /\ m \in acked
    /\ due' = due \union {m}
    /\ UNCHANGED <<card, acked>>

Next ==
    \E m \in Mails :
        \/ Show(m) \/ DealWith(m) \/ Clear(m) \/ PutBack(m)
        \/ Acknowledge(m) \/ FallDue(m)

Spec == Init /\ [][Next]_vars

=============================================================================
