--------------------------- MODULE OrderLifecycle ---------------------------
(* What the ordering side of the shop promises, without saying how: every  *)
(* order has one authoritative status that moves only along the state      *)
(* machine, and a status board for those who poll, which may lag behind or *)
(* be blank but never shows a status the order has not got to.             *)
EXTENDS OrderStatus

CONSTANTS
  Orders,
  Transitions  \* the state machine: <<from, to>> pairs

VARIABLES status,   \* the authoritative status of each order, None before it is placed
          board     \* what a poller is shown, None when nothing is posted

lifecycle == <<status, board>>

May(s, t) == <<s, t>> \in Transitions

\* t is s or follows it within two transitions.
NotAhead(s, t) == s = t \/ May(s, t) \/ \E u \in Status : May(s, u) /\ May(u, t)

Init == /\ status = [o \in Orders |-> None]
        /\ board = [o \in Orders |-> None]

\* A customer places the order.
Placed(o) ==
  /\ status[o] = None
  /\ status' = [status EXCEPT ![o] = "PENDING"]
  /\ UNCHANGED board

\* The kitchen moves the order on.
Advanced(o) ==
  \E t \in Status :
    /\ May(status[o], t)
    /\ status' = [status EXCEPT ![o] = t]
    /\ UNCHANGED board

\* Somebody posts a status: the current one or one it has left behind.
Posted(o) ==
  \E s \in Status :
    /\ NotAhead(s, status[o])
    /\ board' = [board EXCEPT ![o] = s]
    /\ UNCHANGED status

\* The posted status is taken down.
TakenDown(o) ==
  /\ board' = [board EXCEPT ![o] = None]
  /\ UNCHANGED status

Next == \E o \in Orders : Placed(o) \/ Advanced(o) \/ Posted(o) \/ TakenDown(o)

Spec == Init /\ [][Next]_lifecycle

=============================================================================
