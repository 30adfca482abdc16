------------------------------- MODULE MCRelay -------------------------------
(***************************************************************************)
(* Two peers that have five and six of seven blocks; and nodes of which    *)
(* one may leave and one stop and start again, with a hard-coded seed that *)
(* is dead, or there.                                                      *)
(***************************************************************************)
EXTENDS Relay

CONSTANTS p1, p2

\* One of the peers has a block more than the other.
AheadBy == [p \in Peer |-> IF p = p1 THEN 5 ELSE 6]

\* Either nobody; or nodes of which three are connected in a ring, and one to one of these; or
\* three that are to be connected in a row; or a node that starts, with the seed or without.
Nodes0  == [online |-> {}, started |-> {}, links |-> {}, restarts |-> 0]
InRing  == [online |-> {"a", "b", "c", "d"}, started |-> {}, restarts |-> MaxRestarts,
            links |-> {<<"a", "b">>, <<"b", "c">>, <<"c", "d">>, <<"d", "b">>}]
InRow   == [online |-> {"a", "b", "c"}, started |-> {"c"}, links |-> {<<"b", "a">>}, restarts |-> 0]
AtStart == [online |-> {"a", "s"}, started |-> {"a"}, links |-> {}, restarts |-> 0]
Alone   == [online |-> {"b"}, started |-> {"b"}, links |-> {}, restarts |-> 0]
AllSituations == {Nodes0, InRing, InRow, AtStart, Alone}

ToOpen == {<<"b", "s">>, <<"c", "b">>, <<"d", "b">>}
=============================================================================
