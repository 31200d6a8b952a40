------------------------------- MODULE MCEquity -------------------------------
(* Instances of the supervisor and the scheduler: a news slot early in the *)
(* day and a weekly publication late in the day.  The clock starts on the  *)
(* day of a publication and runs into the next one, when a publication     *)
(* that failed can still be caught up.                                     *)
EXTENDS EquitySupervisor

TwoStages == <<"news", "tdcc">>
Clocks == [s \in Stages |-> IF s = "news" THEN 0 ELSE 1]
=============================================================================
