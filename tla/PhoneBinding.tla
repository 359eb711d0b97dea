---------------------------- MODULE PhoneBinding ----------------------------
(***************************************************************************)
(* What pairing promises, without transactions, requests or LinkedIn: a    *)
(* pairing code is redeemed at most once, by one phone, for one student;   *)
(* redeeming it binds that phone to that student; and a student who has a  *)
(* phone can lose it, but never have it replaced by another one.           *)
(***************************************************************************)

CONSTANTS Students, Codes, Phones, None

VARIABLES phone,      \* the phone bound to each student, or None
          redeemed    \* who redeemed each code: a set of at most one
                      \* <<student, phone>> pair

vars == <<phone, redeemed>>

Init ==
    /\ phone = [s \in Students |-> None]
    /\ redeemed = [c \in Codes |-> {}]

Redeem(c, s, p) ==
    /\ redeemed[c] = {}
    /\ phone[s] \in {None, p}
    /\ redeemed' = [redeemed EXCEPT ![c] = {<<s, p>>}]
    /\ phone' = [phone EXCEPT ![s] = p]

Unbind(s) ==
    /\ phone' = [phone EXCEPT ![s] = None]
    /\ UNCHANGED redeemed

Next ==
    \/ \E c \in Codes, s \in Students, p \in Phones : Redeem(c, s, p)
    \/ \E s \in Students : Unbind(s)

Spec == Init /\ [][Next]_vars

=============================================================================
