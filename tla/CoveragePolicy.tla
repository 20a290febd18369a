--------------------------- MODULE CoveragePolicy ---------------------------
(***************************************************************************)
(* The coverage policy of scheduling/policy.py: how intensely a token is   *)
(* polled, as a function of its lifecycle state, its admission time, the   *)
(* time of its last lifecycle decision and the time of asking.  Times are  *)
(* natural numbers; the code's unit is the microsecond.                    *)
(***************************************************************************)
EXTENDS Integers

CONSTANTS
  NewInitialDuration, EarlyUntil, MatureUntil,   \* age boundaries of the
  CooledUntil, LongTailDayUntil, RetireAfter,    \* ordinary coverage path
  FadingFastDuration, FadingTotalDuration,       \* the FADING tail
  Intervals,                                     \* target interval of a class
  None                                           \* SQL NULL, Python None

LifecycleState ==
  {"NEW", "ACTIVE", "WATCH", "FADING", "DORMANT", "RESURRECTED"}

\* The classes with an ordinary due time; RETIRED_CONTROL has none.
OrdinaryClass ==
  {"PROTECTED_ACTIVE", "PROTECTED_RESURRECTED", "PROTECTED_WATCH", "INITIAL",
   "EARLY", "MATURE", "FADING_TAIL", "FADING_COOL", "COOLED",
   "LONG_TAIL_DAY", "LONG_TAIL_WEEK"}

CoverageClass == OrdinaryClass \cup {"RETIRED_CONTROL"}

\* Claim precedence, smallest first.
Priorities ==
  [PROTECTED_ACTIVE |-> 0, PROTECTED_RESURRECTED |-> 0, PROTECTED_WATCH |-> 1,
   INITIAL |-> 2, EARLY |-> 3, MATURE |-> 4, FADING_TAIL |-> 5,
   FADING_COOL |-> 6, COOLED |-> 7, LONG_TAIL_DAY |-> 8,
   LONG_TAIL_WEEK |-> 9, RETIRED_CONTROL |-> 10]

\* What AdaptivePollingPolicy._validate and the bounds of config.py guarantee.
ASSUME PolicyAssumption ==
  /\ {NewInitialDuration, EarlyUntil, MatureUntil, CooledUntil,
      LongTailDayUntil, RetireAfter,
      FadingFastDuration, FadingTotalDuration} \subseteq Nat
  /\ 0 < NewInitialDuration
  /\ NewInitialDuration < EarlyUntil
  /\ EarlyUntil < MatureUntil
  /\ MatureUntil < CooledUntil
  /\ CooledUntil < LongTailDayUntil
  /\ LongTailDayUntil < RetireAfter
  /\ 0 < FadingFastDuration
  /\ FadingFastDuration < FadingTotalDuration
  /\ Intervals \in [OrdinaryClass -> Nat \ {0}]
  /\ None \notin Int

MaybeTime == Nat \cup {None}
-----------------------------------------------------------------------------
\* The class of a NEW token of the given admission age.
AgeClass(age) ==
  CASE age < NewInitialDuration -> "INITIAL"
    [] NewInitialDuration <= age /\ age < EarlyUntil -> "EARLY"
    [] EarlyUntil <= age /\ age < MatureUntil -> "MATURE"
    [] MatureUntil <= age /\ age < CooledUntil -> "COOLED"
    [] CooledUntil <= age /\ age < LongTailDayUntil -> "LONG_TAIL_DAY"
    [] LongTailDayUntil <= age /\ age < RetireAfter -> "LONG_TAIL_WEEK"
    [] OTHER -> "RETIRED_CONTROL"

\* The class of a token that has been FADING for the given time.
FadingClass(age) ==
  CASE age < FadingFastDuration -> "FADING_TAIL"
    [] FadingFastDuration <= age /\ age < FadingTotalDuration -> "FADING_COOL"
    [] OTHER -> "RETIRED_CONTROL"

\* Defined for admitted <= at and, when the state is FADING, decided <= at;
\* the code raises ValueError otherwise.
CoverageClassFor(state, admitted, decided, at) ==
  CASE state = "ACTIVE" -> "PROTECTED_ACTIVE"
    [] state = "RESURRECTED" -> "PROTECTED_RESURRECTED"
    [] state = "WATCH" -> "PROTECTED_WATCH"
    [] state = "DORMANT" -> "RETIRED_CONTROL"
    [] state = "FADING" -> FadingClass(at - decided)
    [] OTHER -> AgeClass(at - admitted)

\* When a token of the given class leaves it by the passing of time alone.
BoundaryOf(class, admitted, decided) ==
  CASE class = "FADING_TAIL" -> decided + FadingFastDuration
    [] class = "FADING_COOL" -> decided + FadingTotalDuration
    [] class = "INITIAL" -> admitted + NewInitialDuration
    [] class = "EARLY" -> admitted + EarlyUntil
    [] class = "MATURE" -> admitted + MatureUntil
    [] class = "COOLED" -> admitted + CooledUntil
    [] class = "LONG_TAIL_DAY" -> admitted + LongTailDayUntil
    [] class = "LONG_TAIL_WEEK" -> admitted + RetireAfter
    [] OTHER -> None

NextTransitionAt(state, admitted, decided, at) ==
  BoundaryOf(CoverageClassFor(state, admitted, decided, at), admitted, decided)
=============================================================================
