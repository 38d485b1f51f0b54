------------------------------ MODULE PeerTable ------------------------------
(***************************************************************************)
(* What the Core's peer table promises to the rest of the Core and to the  *)
(* debugger, whatever happens to the starts behind it: a peer connects     *)
(* only when mDNS announces it, is ready only after it was connecting,     *)
(* stays in the table no longer than mDNS advertises it, and one event     *)
(* changes the status of one peer.                                         *)
(***************************************************************************)
CONSTANTS Names, Matching

VARIABLES present, status

tableVars == <<present, status>>

Init ==
    /\ present = {}
    /\ status = [n \in Names |-> "absent"]

Announce(n) ==
    /\ present' = present \cup {n}
    /\ IF n \in Matching /\ status[n] = "absent"
       THEN status' = [status EXCEPT ![n] = "connecting"]
       ELSE UNCHANGED status

Withdraw(n) ==
    /\ present' = present \ {n}
    /\ status' = [status EXCEPT ![n] = "absent"]

BecomeReady(n) ==
    /\ status[n] = "connecting"
    /\ n \in present
    /\ status' = [status EXCEPT ![n] = "ready"]
    /\ UNCHANGED present

GiveUp(n) ==
    /\ status[n] = "connecting"
    /\ status' = [status EXCEPT ![n] = "absent"]
    /\ UNCHANGED present

Next == \E n \in Names : Announce(n) \/ Withdraw(n) \/ BecomeReady(n) \/ GiveUp(n)

Spec == Init /\ [][Next]_tableVars
=============================================================================
