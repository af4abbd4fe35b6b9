------------------------- MODULE MCConnectorSession -------------------------
(* An instance of ConnectorSession for TLC: four documents in two tables.  *)
EXTENDS ConnectorSession

MCItem == 1..4
MCStock == {1..n : n \in 0..4}
MCTable == <<"t1", "t2">>
=============================================================================
