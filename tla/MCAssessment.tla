---------------------------- MODULE MCAssessment ----------------------------
EXTENDS ArtifactProduction, TLC
CONSTANTS c1, t1, p1, p2, d1
AllOf == [t \in Targets |-> c1]
AtOnce == [j \in Jobs |-> IF j \in Targets THEN 1 ELSE 0]
Deadlines == [j \in Jobs |-> 2]
Delays == <<1, 1>>
=============================================================================
