----------------------------- MODULE MCCooldown -----------------------------
(* Two Homes; which is which does not matter. *)
EXTENDS Cooldown, TLC

CONSTANTS h1, h2

TwoHomes == {h1, h2}
CoolingWorkers == TwoHomes \X {1}
\* After a database error the first tick is followed to its end.
ErrorsAreEarly == coolBudget.errors > 0 => coolNow = 1
HomeSymmetry == Permutations(TwoHomes)
=============================================================================
