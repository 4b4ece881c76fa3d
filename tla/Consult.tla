------------------------------ MODULE Consult ------------------------------
(***************************************************************************)
(* What asking the driver promises to the user: a program asks, the driver *)
(* grants the request while the stick is present or refuses it, and the    *)
(* editor is run for a granted request only. The stick may go at any time, *)
(* and a granted request may come to nothing.                              *)
(***************************************************************************)
CONSTANT Clients

VARIABLES
  present,  \* is the stick there?
  phase     \* of each client's request

Phases == {"idle", "asked", "granted", "refused", "editing"}

Init ==
  /\ present \in BOOLEAN
  /\ phase = [c \in Clients |-> "idle"]

Goes(c, from, to) ==
  /\ phase[c] \in from
  /\ phase' = [phase EXCEPT ![c] = to]
  /\ UNCHANGED present

Ask(c) == Goes(c, {"idle"}, "asked")
Grant(c) == present /\ Goes(c, {"asked"}, "granted")
Refuse(c) == Goes(c, {"asked", "granted"}, "refused")
Edit(c) == Goes(c, {"granted"}, "editing")
Leave(c) == Goes(c, {"granted", "refused", "editing"}, "idle")

StickMoves == present' = ~present /\ UNCHANGED phase

Next ==
  \/ StickMoves
  \/ \E c \in Clients : Ask(c) \/ Grant(c) \/ Refuse(c) \/ Edit(c) \/ Leave(c)

Spec == Init /\ [][Next]_<<present, phase>>
=============================================================================
