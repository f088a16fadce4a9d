-------------------------- MODULE XmemoryBudgets --------------------------
(***************************************************************************)
(* config.py: how much of the deadline Temporal assigned to an activity    *)
(* the xmemory client may use.  Durations are whole ticks.                 *)
(***************************************************************************)
EXTENDS Integers, FiniteSetsExt

CONSTANT
  Tenth   (* ticks in a tenth of a second, the client's smallest budget *)

ASSUME TenthAssumption == Tenth \in Nat \ {0}

Second == 10 * Tenth

\* Mutant: a floor of a second in place of the proportional budget.
ClientTimeout_SecondFloor(budget, margin) == Max({Second, budget - margin})

\* A budget at or under the margin gets four fifths of itself instead.
ClientTimeout(budget, margin) ==
  IF budget <= margin
  THEN Max({Tenth, (budget * 8) \div 10})
  ELSE budget - margin
============================================================================
