--------------------------- MODULE MCSpecLearning ---------------------------
(* SpecLearning for TLC.  Drafting pays at one request and costs at four; the *)
(* faster decode of a larger frac moves the best draft size.                  *)
EXTENDS SpecLearning

OffFirst == <<0, 1, 3>>

RateTable ==
    [f \in {15, 40} |-> [p \in {1, 4} |-> [n \in {0, 1, 3} |->
        IF p = 4 THEN 40 - n ELSE IF f = 15 THEN 10 + n ELSE 30 + n * (2 - n)]]]

RateTableOne == [f \in {15, 40} |-> [p \in {1} |-> RateTable[f][p]]]

RateTableNumber == [f \in {15} |-> RateTable[15]]
=============================================================================
