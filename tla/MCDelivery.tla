----------------------------- MODULE MCDelivery -----------------------------
(***************************************************************************)
(* Delivery in two kinds of behaviour: one fan-out has several peers, or   *)
(* several fan-outs meet at one.                                           *)
(***************************************************************************)
EXTENDS Delivery

CONSTANTS near, far

Targets(i) == {p \in Peer : task[i][p] # "none"}

Apart ==
    \/ \A i \in Fanout : Targets(i) \subseteq {near} /\ far \notin offline
    \/ \A i \in Fanout \ {1} : Targets(i) = {}
=============================================================================
