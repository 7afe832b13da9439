------------------------------ MODULE OrderLife ------------------------------
(***************************************************************************)
(* What the orders table promises of an order: its local state only moves  *)
(* forward, and a final state is only ever replaced by another name of the *)
(* same end.  A write that is lost skips states but never turns an order   *)
(* back.  Only an order the engine has given up while it was alive may     *)
(* become REJECTED late and come back from it.                             *)
(***************************************************************************)
EXTENDS Naturals

CONSTANT Orders

VARIABLES
    life,             \* the local state of an order
    doubted           \* the orders the engine has given up while they were alive

\* The states in the order in which an order can pass through them.
Stage == [NONE |-> 0, SUBMIT_QUEUED |-> 1, WORKING |-> 2, PARTIALLY_FILLED |-> 3,
          FILLED |-> 4, CANCELED |-> 4, EXTERNAL_CANCELED |-> 4, REJECTED |-> 4,
          EXPIRED |-> 4, MISSED |-> 4]

\* The same end told again: the engine makes a missed level of an expired order,
\* an expiry delivered twice takes that back until the engine has seen it, and a
\* cancellation delivered again while the bot stops is taken for its own.
Renamed == {<<"EXPIRED", "MISSED">>, <<"MISSED", "EXPIRED">>,
            <<"EXTERNAL_CANCELED", "CANCELED">>}

Follows(s, t) == Stage[s] < Stage[t] \/ <<s, t>> \in Renamed

Init == life = [o \in Orders |-> "NONE"] /\ doubted = {}

Move(o) ==
    /\ \E s \in DOMAIN Stage :
          /\ Follows(life[o], s) \/ (o \in doubted /\ "REJECTED" \in {life[o], s})
          /\ life' = [life EXCEPT ![o] = s]
    /\ UNCHANGED doubted

Doubt(o) == doubted' = doubted \cup {o} /\ UNCHANGED life

Next == \E o \in Orders : Move(o) \/ Doubt(o)

Spec == Init /\ [][Next]_<<life, doubted>>
=============================================================================
