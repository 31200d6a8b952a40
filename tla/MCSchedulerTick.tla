--------------------------- MODULE MCSchedulerTick ---------------------------
EXTENDS SchedulerTick, TLC
CONSTANTS r1, r2, s1, s2, p1, p2
Lists == r1 :> {s1, s2} @@ r2 :> {s2}
Ranks == r1 :> 1 @@ r2 :> 2
Days == s1 :> 2 @@ s2 :> 9
Opens == s1 :> 4 @@ s2 :> 12
Both == Permutations({p1, p2})
Offsets == [evening |-> -2, preopen |-> 0]
Dues == [evening |-> -1, preopen |-> 1]
=============================================================================
