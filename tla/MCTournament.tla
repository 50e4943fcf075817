---------------------------- MODULE MCTournament ----------------------------
(* Three players once, two players three times, with and without a clock.    *)
EXTENDS Tournament

MCConfigs ==
    {[players |-> <<"bot", "uci", "custom">>, gamesPerPair |-> 1, maxPlies |-> 2,
      timed |-> TRUE, base |-> 2, increment |-> 1],
     [players |-> <<"custom", "bot">>, gamesPerPair |-> 3, maxPlies |-> 2,
      timed |-> FALSE, base |-> 0, increment |-> 0],
     [players |-> <<"uci", "bot">>, gamesPerPair |-> 2, maxPlies |-> 4,
      timed |-> TRUE, base |-> 2, increment |-> 0],
     [players |-> <<"uci", "bot">>, gamesPerPair |-> 2, maxPlies |-> 3,
      timed |-> TRUE, base |-> 1, increment |-> 1]}
MCKind == [player \in {"bot", "uci", "custom"} |-> player]
=============================================================================
