------------------------- MODULE MCQueryObservation -------------------------
(* An instance of QueryObservation for TLC: two of the store's constants with  *)
(* the layout of their source, and a statement it has no name for.             *)
EXTENDS QueryObservation

Insert == <<"\n", "\t", "a", " ", " ", "b", "\n">>
Select == <<"a">>
Exists == <<"b">>

MCQueryNames == [q \in {Insert, Select} |-> IF q = Insert THEN "insert_order" ELSE "list_orders"]

MCStatements ==
    {[sql |-> Insert, how |-> "exec"], [sql |-> Select, how |-> "rows"],
     [sql |-> Exists, how |-> "row"], [sql |-> <<>>, how |-> "ping"]}

CONSTANTS c1, c2

\* The second call reads rows; the first runs any of the statements.
MCInit == Init /\ stmt[c2].how = "rows"

MCSpec == MCInit /\ [][Next]_vars /\ Fairness
=============================================================================
