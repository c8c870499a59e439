------------------------------ MODULE MCLearning ------------------------------
(* Learning for TLC.  Geometry a would like more slots than fit beside the   *)
(* other programs, whose memory varies by less than the hysteresis; no step  *)
(* is worth its memory to geometry b.  The fastest ubatch differs from frac  *)
(* to frac, as docs/RESULTS.md 10.16 measured it.                            *)
EXTENDS Learning

TwoCandidates == <<1024, 2048>>
OneGeometry == {"a"}
TwoGeometries == {"a", "b"}

\* Hits rise by 10 a slot up to the knee.
Curve(experts, knee) == [c \in 0 .. experts |-> 10 * Min({c, knee})]

TwoModels ==
    [a |-> [experts |-> 160, per |-> 1, need |-> 11, hits |-> Curve(160, 96)],
     b |-> [experts |-> 64, per |-> 2, need |-> 11, hits |-> Curve(64, 0)]]

SomeMemory == {37, 39}
MuchMemory == {100}

RateTable ==
    [g \in TwoGeometries |->
        [f \in 0 .. 100 |->
            [ub \in Ubatch |->
                IF f \in {15, 38} THEN 10 + ub \div 1024
                ELSE IF ub = 2048 THEN 30 ELSE 40 - ub \div 1024]]]
=============================================================================
