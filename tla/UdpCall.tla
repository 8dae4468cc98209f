------------------------------- MODULE UdpCall -------------------------------
(***************************************************************************)
(* What UDPTransport.sendMessage promises its caller: each call settles at *)
(* most once, and it resolves only after the other node handled the        *)
(* message.  It promises nothing about a call that is rejected: the other  *)
(* node may have handled that one too, or may still do so.                 *)
(***************************************************************************)
CONSTANT Call

VARIABLES outcome, handled

vars == <<outcome, handled>>

Init ==
    /\ outcome = [c \in Call |-> "unsent"]
    /\ handled = {}

Start(c) ==
    /\ outcome[c] = "unsent"
    /\ outcome' = [outcome EXCEPT ![c] = "pending"]
    /\ UNCHANGED handled

Handle(c) ==
    /\ outcome[c] # "unsent"
    /\ handled' = handled \cup {c}
    /\ UNCHANGED outcome

Resolve(c) ==
    /\ outcome[c] = "pending"
    /\ c \in handled
    /\ outcome' = [outcome EXCEPT ![c] = "resolved"]
    /\ UNCHANGED handled

Reject(c) ==
    /\ outcome[c] = "pending"
    /\ outcome' = [outcome EXCEPT ![c] = "rejected"]
    /\ UNCHANGED handled

Next == \E c \in Call : Start(c) \/ Handle(c) \/ Resolve(c) \/ Reject(c)

Spec == Init /\ [][Next]_vars
=============================================================================
