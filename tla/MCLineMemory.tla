---------------------------- MODULE MCLineMemory ----------------------------
(* Instances of LineMemory: two events, e1 before e2, the first about a    *)
(* stock; threads a and c, each in a process of its own.                   *)
EXTENDS LineMemory, TLC

CONSTANTS e1, e2, a, c, tsmc

StampOf == [e \in Events |-> IF e = e1 THEN 1 ELSE 2]
TopicOf == [e \in Events |-> IF e = e1 THEN tsmc ELSE General]
OneThreadEach == [h \in Handlers |-> h]

(* A user who clears the memory and unfollows, and one who takes messages  *)
(* back.                                                                   *)
Forgetting == [clears |-> {e2}, unsends |-> {}, unfollows |-> TRUE]
Unsending == [clears |-> {}, unsends |-> {e1}, unfollows |-> FALSE]
AnyUser == {Forgetting, Unsending}
OnlyUnsending == {Unsending}

Symmetry == Permutations(Handlers)
=============================================================================
