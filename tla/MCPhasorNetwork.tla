--------------------------- MODULE MCPhasorNetwork ---------------------------
EXTENDS PhasorNetwork

MCPMUNames == <<"p1", "p2", "p3">>

Part(n) == <<"part", n>>

\* The name of p2 has the padding character in it.
MCName ==
  [p1 |-> <<Part("1")>>, p2 |-> <<Part("2"), padding_char>>, p3 |-> <<Part("3")>>]

MCPieces == {Part("1"), Part("2"), Part("3")}

MCTarget == [p1 |-> "PDC1", p2 |-> "PDC1", p3 |-> "PDC2"]

MCNbAggregates == [PDC1 |-> 2, PDC2 |-> 1, SPDC |-> 2]

MCTimer == [PDC1 |-> 2, PDC2 |-> 2, SPDC |-> 5]

\* The float of the second time stamp is too large.
MCStof == [ts \in {1, 3} |-> IF ts = 3 THEN 4 ELSE ts]

ASSUME ScenarioAssumption == NamesDiffer

==============================================================================
