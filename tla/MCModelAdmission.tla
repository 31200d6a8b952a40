-------------------------- MODULE MCModelAdmission --------------------------
(* Instances of ModelAdmission: three interactive tasks, a shadow task that *)
(* can be cancelled and a maintenance task that cannot.                     *)
EXTENDS ModelAdmission

CONSTANTS chat, stock, vision, shadow, upkeep

PriorityOf ==
  [t \in Tasks |-> CASE t = shadow -> 10 [] t = upkeep -> 20 [] OTHER -> 0]

(* Replies with close deadlines; background work has none.                 *)
CloseDeadlines ==
  [t \in Tasks |-> CASE t = stock -> 2 [] t = chat -> 3 [] OTHER -> Never]
SomePredicted == [t \in Tasks |-> IF t \in {stock, upkeep} THEN 1 ELSE 0]

(* Every duration is predicted, and backlogs decide who can still make it. *)
SpreadDeadlines ==
  [t \in Tasks |-> CASE t = stock -> 5 [] t = chat -> 4 [] t = vision -> 6
                     [] OTHER -> Never]
AllPredicted ==
  [t \in Tasks |-> CASE t = stock -> 2 [] t = chat -> 1 [] t = vision -> 2
                     [] t = upkeep -> 2 [] OTHER -> 0]
=============================================================================
