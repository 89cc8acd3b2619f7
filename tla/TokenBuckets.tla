---------------------------- MODULE TokenBuckets ----------------------------
(***************************************************************************)
(* What a rate limiter promises: every caller has a bucket of its own that *)
(* starts full, gains Rate with every tick up to Burst, and pays One for   *)
(* every request that is let through.  So no caller gets more than         *)
(* Burst / One requests and Rate / One per tick after them.                *)
(***************************************************************************)
EXTENDS Naturals

CONSTANTS Callers, One, Rate, Burst

VARIABLE level

Least(a, b) == IF a <= b THEN a ELSE b

Init == level = [c \in Callers |-> Burst]

Take(c) ==
  /\ level[c] >= One
  /\ level' = [level EXCEPT ![c] = @ - One]

Refill == level' = [c \in Callers |-> Least(Burst, level[c] + Rate)]

Next == Refill \/ \E c \in Callers : Take(c)

Spec == Init /\ [][Next]_level
=============================================================================
