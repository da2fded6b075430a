----------------------------- MODULE MCResearch -----------------------------
EXTENDS Research
MCTechCost == [t \in Tech |-> 1]
MCFate == [l \in Lab |-> IF l = 1 THEN {"Off", "Dark", "Lit"} ELSE {"Lit", "None"}]
MCTechDuration == [t \in Tech |-> IF t = 2 THEN 2 ELSE 1]
MCContribution == [t \in Tech |->
  IF t = 1 THEN {[kind |-> "ResearchSpeed", group |-> "Patch", delta |-> 1000]} ELSE {}]
=============================================================================
