---------------------------- MODULE OrderStatus ----------------------------
(* The status of an order and the state machine of order_service.py.      *)

Status == {"PENDING", "PREPARING", "READY", "FAILED"}

\* No row in Postgres, no entry in Redis, no value in hand.
None == "NONE"

MaybeStatus == Status \cup {None}

\* The table update_order_status consults: <<from, to>> is a legal transition.
ValidTransitions ==
  { <<"PENDING", "PREPARING">>, <<"PENDING", "FAILED">>,
    <<"PREPARING", "READY">>,   <<"PREPARING", "FAILED">> }

CanBecome(s, t) == <<s, t>> \in ValidTransitions

\* "no further transitions are allowed"
Terminal == {s \in Status : \A t \in Status : ~CanBecome(s, t)}

\* t is s or lies on a chain of legal transitions from s (chains are at most
\* two transitions long, so one intermediate status is enough).
Reaches(s, t) ==
  \/ s = t
  \/ CanBecome(s, t)
  \/ \E u \in Status : CanBecome(s, u) /\ CanBecome(u, t)

=============================================================================
