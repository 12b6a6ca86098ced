----------------------------- MODULE Calculators -----------------------------
(***************************************************************************)
(* assets/js/calculators.js: four arithmetic tools and the forms they are  *)
(* used from.  A date is the number of a day since the first one accepted, *)
(* an amount a number of cents, a decimal its numerator and denominator.   *)
(* Texts that a field refuses are the field left empty (NoValue).          *)
(***************************************************************************)
EXTENDS Integers, FiniteSets

CONSTANTS
    MaxDate,      \* the last day accepted
    MaxCents,     \* the largest amount
    Sunday,       \* the weekday of day 0, so that (d + Sunday) % 7 is that of d
    Dates,        \* bounds: the days, amounts, decimals, counts, periods and
    Amounts,      \*   dates to exclude that the forms are filled with
    Decimals,
    Counts,
    Periods,
    Excludable,
    NoValue

ASSUME LimitsAssumption == MaxDate \in Nat /\ MaxCents \in Nat /\ Sunday \in 0..6

\* What a field takes is not negative, and no mode is named like a field left
\* empty.
ASSUME FieldsAssumption ==
    /\ Dates \union Amounts \union Counts \union Periods \subseteq Nat
    /\ Decimals \subseteq Nat \X (Nat \ {0})
    /\ NoValue \notin {"simple", "compound", "penalty"}

\* At most 500 dates are excluded, each one accepted.
ASSUME ExcludableAssumption ==
    Excludable \subseteq 0..MaxDate /\ IsFiniteSet(Excludable) /\ Cardinality(Excludable) <= 500

VARIABLES
    calcKey,        \* the form in use
    calcInput,      \* its fields
    calcVisible,    \* the fields that depend on a mode are shown and enabled
    calcResetting,  \* reset: the visibility is updated by a timer
    calcResult      \* what the result area shows

calcVars == <<calcKey, calcInput, calcVisible, calcResetting, calcResult>>

(***************************************************************************)
(* Arithmetic.                                                             *)
(***************************************************************************)
Refused == [error |-> TRUE]

Integer(v, min, max) == v # NoValue /\ v \in min..max
Decimal(v, max) == v # NoValue /\ v[1] <= max * v[2]
Cents(v) == v # NoValue /\ v \in 0..MaxCents
BoundedCents(v) == -MaxCents <= v /\ v <= MaxCents
Date(v) == v # NoValue /\ v \in 0..MaxDate
Period(start, end) == Date(start) /\ Date(end) /\ start <= end
Choice(v) == v # NoValue

\* Half a unit rounds up.
RoundedRatio(n, d) == (2 * n + d) \div (2 * d)

\* Repeated dates count once.
Exclusions(v) == IF v = NoValue THEN {} ELSE v

Available(day, excluded) ==
    /\ (day + Sunday) % 7 \notin {0, 6}
    /\ day \notin excluded

(* Mutant: the first day is counted when it should not be. *)
FirstDaySwapped(in) == IF in.includeStart = "no" THEN in.start ELSE in.start + 1

FirstDay(in) == IF in.includeStart = "yes" THEN in.start ELSE in.start + 1

CountsOn(in, day) == in.mode = "calendar" \/ Available(day, Exclusions(in.excludedDates))

\* A state of the loop that counts.
At(day, counted, skipped) == [day |-> day, counted |-> counted, skipped |-> skipped]

\* The loops of calculateDeadline.  No input with a number of days from 1 to 3660
\* reaches their limit of 20000 iterations; the day after the last one accepted is an error.
CountDays(in) ==
    LET count[at \in [day : Nat, counted : Nat, skipped : Nat]] ==
          IF at.day > MaxDate THEN at
          ELSE IF ~CountsOn(in, at.day) THEN count[At(at.day + 1, at.counted, at.skipped + 1)]
          ELSE IF at.counted + 1 < in.days THEN count[At(at.day + 1, at.counted + 1, at.skipped)]
          ELSE at
    IN count[At(FirstDay(in), 0, 0)]

Postpone(in, from) ==
    LET next[day \in Nat] ==
          IF day > MaxDate \/ Available(day, Exclusions(in.excludedDates)) THEN day ELSE next[day + 1]
    IN next[from]

CalculateDeadline(in) ==
    LET end == CountDays(in)
        due == IF in.postpone = "yes" THEN Postpone(in, end.day) ELSE end.day
    IN IF ~(/\ Date(in.start) /\ Integer(in.days, 1, 3660)
            /\ \A f \in {"mode", "includeStart", "postpone"} : Choice(in[f]))
          \/ due > MaxDate
       THEN Refused
       ELSE [date |-> due, skippedDays |-> end.skipped, adjustmentDays |-> due - end.day,
             elapsedCalendarDays |-> due - in.start]

CalculateExecution(in) ==
    IF ~(/\ Integer(in.totalDays, 1, 365000) /\ Integer(in.completedDays, 0, in.totalDays)
         /\ Integer(in.numerator, 1, 1000000) /\ Integer(in.denominator, 1, 1000000)
         /\ in.numerator <= in.denominator /\ Choice(in.rounding))
    THEN Refused
    ELSE LET product == in.totalDays * in.numerator
             target == CASE in.rounding = "ceil" -> (product + in.denominator - 1) \div in.denominator
                         [] in.rounding = "floor" -> product \div in.denominator
                         [] OTHER -> RoundedRatio(product, in.denominator)
         IN [targetDays |-> target,
             remainingDays |-> IF target > in.completedDays THEN target - in.completedDays ELSE 0,
             reached |-> in.completedDays >= target]

Power(b, n) == LET power[k \in Nat] == IF k = 0 THEN 1 ELSE b * power[k - 1] IN power[n]

Interest(in, original, updated) ==
    LET basis == IF in.interestBasis = "original" THEN original ELSE updated
        divisor == in.interestRate[2] * 100
    IN CASE in.interestMode = "none" -> 0
         [] in.interestMode = "simple" ->
              RoundedRatio(basis * in.interestRate[1] * in.interestPeriods, divisor)
         [] OTHER ->
              RoundedRatio(basis * (Power(divisor + in.interestRate[1], in.interestPeriods)
                                    - Power(divisor, in.interestPeriods)),
                           Power(divisor, in.interestPeriods))

CalculateMonetary(in) ==
    IF ~(/\ Period(in.start, in.end) /\ Cents(in.principal) /\ in.principal > 0
         /\ Decimal(in.factor, 1000) /\ in.factor[1] > 0 /\ Choice(in.interestMode)
         /\ in.interestMode # "none" =>
              /\ Decimal(in.interestRate, 100) /\ Integer(in.interestPeriods, 0, 1200)
              /\ Choice(in.interestBasis))
    THEN Refused
    ELSE LET updated == RoundedRatio(in.principal * in.factor[1], in.factor[2])
             interest == Interest(in, in.principal, updated)
         IN IF ~(BoundedCents(updated) /\ BoundedCents(updated - in.principal)
                 /\ BoundedCents(interest) /\ BoundedCents(updated + interest))
            THEN Refused
            ELSE [originalCents |-> in.principal, correctionCents |-> updated - in.principal,
                  updatedCents |-> updated, interestCents |-> interest, totalCents |-> updated + interest]

\* The six credits of the source are two here.
Rubrics == {"salaryBalance", "otherCredits"}

CalculateLabor(in) ==
    LET penalty == in.fgtsMode = "penalty"
        fgts == RoundedRatio(in.fgtsBase * in.fgtsRate[1], in.fgtsRate[2] * 100)
        gross == in.salaryBalance + in.otherCredits + IF penalty THEN fgts ELSE 0
    IN IF ~(/\ Period(in.start, in.end) /\ \A r \in Rubrics : Cents(in[r]) /\ Cents(in.deductions)
            /\ Choice(in.fgtsMode) /\ (penalty => Cents(in.fgtsBase) /\ Decimal(in.fgtsRate, 100)))
          \/ ~(BoundedCents(gross) /\ BoundedCents(gross - in.deductions))
       THEN Refused
       ELSE [grossCents |-> gross, deductionCents |-> in.deductions, netCents |-> gross - in.deductions,
             fgtsPenaltyCents |-> IF penalty THEN fgts ELSE 0]

(***************************************************************************)
(* The forms.                                                              *)
(***************************************************************************)
\* The fields of every form, with the bounded values they are filled with.
Fields == [
    deadline  |-> [start |-> Dates, days |-> Counts, mode |-> {"business", "calendar"},
                   includeStart |-> {"yes", "no"}, postpone |-> {"yes", "no"},
                   excludedDates |-> SUBSET Excludable],
    execution |-> [totalDays |-> Counts, completedDays |-> Counts, numerator |-> Counts,
                   denominator |-> Counts, rounding |-> {"ceil", "floor", "nearest"}],
    monetary  |-> [start |-> {0}, end |-> {0, 1}, principal |-> Amounts, factor |-> Decimals,
                   interestMode |-> {"none", "simple", "compound"}, interestRate |-> Decimals,
                   interestPeriods |-> Periods, interestBasis |-> {"original", "updated"}],
    labor     |-> [start |-> {1}, end |-> {0, 1}, salaryBalance |-> Amounts, otherCredits |-> Amounts,
                   deductions |-> Amounts, fgtsMode |-> {"none", "penalty"},
                   fgtsBase |-> Amounts, fgtsRate |-> Decimals]]

Keys == DOMAIN Fields

\* The fields that only take part, and are only required, with a mode.
Dependent(key) ==
    CASE key = "monetary" -> {"interestRate", "interestPeriods", "interestBasis"}
      [] key = "labor" -> {"fgtsBase", "fgtsRate"}
      [] OTHER -> {}

Wanted(key, in) ==
    \/ key = "monetary" /\ in.interestMode \in {"simple", "compound"}
    \/ key = "labor" /\ in.fgtsMode = "penalty"

EmptyForm(key) == [f \in DOMAIN Fields[key] |-> NoValue]

NoResult == [none |-> TRUE]

\* Every form is its own: one is followed from its first state.
CalcInit ==
    /\ calcKey = "none" /\ calcInput = <<>> /\ calcVisible = FALSE
    /\ calcResetting = FALSE /\ calcResult = NoResult

OpenForm(key) ==
    /\ calcKey = "none"
    /\ calcKey' = key /\ calcInput' = EmptyForm(key)
    /\ UNCHANGED <<calcVisible, calcResetting, calcResult>>

ClearResult == calcResult' = NoResult

UpdateVisibility(in) == calcVisible' = Wanted(calcKey, in)

\* The input and change events of one field.
Edit(field, value) ==
    /\ calcKey # "none"
    /\ field \in Dependent(calcKey) => calcVisible
    /\ calcInput' = [calcInput EXCEPT ![field] = value]
    /\ ClearResult /\ UpdateVisibility(calcInput')
    /\ UNCHANGED <<calcKey, calcResetting>>

ResetVisibility == UNCHANGED calcVisible /\ calcResetting' = TRUE

\* The reset event, then the browser's reset of the fields.
Reset ==
    /\ calcKey # "none"
    /\ ClearResult /\ ResetVisibility
    /\ calcInput' = EmptyForm(calcKey)
    /\ UNCHANGED calcKey

ResetTimer ==
    /\ calcResetting
    /\ calcResetting' = FALSE
    /\ UpdateVisibility(calcInput)
    /\ UNCHANGED <<calcKey, calcInput, calcResult>>

Calculated(key, in) ==
    CASE key = "deadline" -> CalculateDeadline(in)
      [] key = "execution" -> CalculateExecution(in)
      [] key = "monetary" -> CalculateMonetary(in)
      [] OTHER -> CalculateLabor(in)

\* reportValidity(): every enabled required field is filled.
Filled == \A f \in DOMAIN calcInput \ {"excludedDates"} :
             calcInput[f] = NoValue => f \in Dependent(calcKey) /\ ~calcVisible

\* What a disabled field holds is not sent.
Sent == [f \in DOMAIN calcInput |->
            IF f \in Dependent(calcKey) /\ ~calcVisible THEN NoValue ELSE calcInput[f]]

Submit ==
    /\ calcKey # "none"
    /\ calcResult' = IF Filled THEN Calculated(calcKey, Sent) ELSE NoResult
    /\ UNCHANGED <<calcKey, calcInput, calcVisible, calcResetting>>

CalcNext ==
    \/ \E key \in Keys : OpenForm(key)
    \/ \E field \in DOMAIN calcInput : \E value \in Fields[calcKey][field] : Edit(field, value)
    \/ Reset
    \/ ResetTimer
    \/ Submit

(***************************************************************************)
(* Properties.                                                             *)
(***************************************************************************)
Shown(key) == calcKey = key /\ calcResult # NoResult
Given(key) == Shown(key) /\ calcResult # Refused

\* A result on the screen is that of the fields on the screen: no edit, reset
\* or change of a mode leaves the result of other values.
ResultIsCurrent == \A key \in Keys : Shown(key) => calcResult = Calculated(key, Sent)

LeastDay(S) == CHOOSE d \in S : \A e \in S : d <= e

\* The due date is the first day by which the given number of counting days
\* passed, then the first business day from there; every day before it was
\* counted or skipped.
DeadlineMeetsDefinition ==
    Shown("deadline") =>
        LET in == calcInput
            first == IF in.includeStart = "yes" THEN in.start ELSE in.start + 1
            open(d) == (d + Sunday) % 7 \in 1..5 /\ d \notin Exclusions(in.excludedDates)
            counting(d) == {e \in first..d : in.mode = "calendar" \/ open(e)}
            reached == {d \in first..MaxDate : Cardinality(counting(d)) = in.days}
            end == LeastDay(reached)
            due == {d \in end..MaxDate : in.postpone = "yes" => open(d)}
        IN IF in.days \notin 1..3660 \/ reached = {} \/ due = {} THEN calcResult = Refused
           ELSE /\ calcResult.date = LeastDay(due)
                /\ calcResult.skippedDays + in.days = end - first + 1
                /\ calcResult.elapsedCalendarDays = LeastDay(due) - in.start

\* The target is the fraction of the total, rounded as chosen, within the
\* total, and nothing remains exactly when it was reached.
FractionMeetsDefinition ==
    Given("execution") =>
        LET in == calcInput
            exact == in.totalDays * in.numerator
            got == calcResult.targetDays * in.denominator
        IN /\ calcResult.targetDays \in 0..in.totalDays
           /\ in.rounding = "ceil" => exact <= got /\ got < exact + in.denominator
           /\ in.rounding = "floor" => got <= exact /\ exact < got + in.denominator
           /\ in.rounding = "nearest" => /\ 2 * got - in.denominator <= 2 * exact
                                         /\ 2 * exact < 2 * got + in.denominator
           /\ calcResult.reached <=> calcResult.remainingDays = 0

\* The parts add up to the total, no part is beyond the limit of the tool, the
\* correction is right to half a cent, and interest is none for no period and
\* for no rate, the same simple or compound for one period, and never less
\* compound than simple.
AmountsAddUp ==
    /\ Given("monetary") =>
         LET in == calcInput r == calcResult
             other(mode) == Interest([in EXCEPT !.interestMode = mode], r.originalCents, r.updatedCents)
         IN /\ r.originalCents + r.correctionCents + r.interestCents = r.totalCents
            /\ r.totalCents \in 0..MaxCents
            /\ 2 * r.updatedCents * in.factor[2] - in.factor[2] <= 2 * in.principal * in.factor[1]
            /\ 2 * in.principal * in.factor[1] < 2 * r.updatedCents * in.factor[2] + in.factor[2]
            /\ in.interestMode # "none" =>
                 /\ in.interestPeriods = 0 \/ in.interestRate[1] = 0 => r.interestCents = 0
                 /\ in.interestPeriods = 1 => other("simple") = other("compound")
                 /\ other("simple") <= other("compound")
    /\ Given("labor") =>
         /\ calcResult.netCents + calcInput.deductions
              = calcInput.salaryBalance + calcInput.otherCredits + calcResult.fgtsPenaltyCents
         /\ calcResult.grossCents \in 0..MaxCents
         /\ calcInput.fgtsMode = "none" => calcResult.fgtsPenaltyCents = 0

\* The fields of a mode are shown exactly with that mode, also after a reset,
\* so what is typed takes part and what is hidden does not.
VisibleIsWanted == calcKey # "none" /\ ~calcResetting => (calcVisible <=> Wanted(calcKey, calcInput))

\* What is shown is of the fields shown, and right by the definitions above.
CalculatorSafety ==
    /\ ResultIsCurrent /\ VisibleIsWanted
    /\ DeadlineMeetsDefinition /\ FractionMeetsDefinition /\ AmountsAddUp
=============================================================================
