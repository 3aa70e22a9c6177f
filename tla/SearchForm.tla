----------------------------- MODULE SearchForm -----------------------------
(***************************************************************************)
(* The search form (PrechacThisActivity.java), the parameters it collects  *)
(* (PatternParameters.java), and the widgets of the platform that it uses. *)
(*                                                                         *)
(* The form keeps the parameters in a field of its own and updates it in   *)
(* the callbacks of the widgets.  The callbacks nest: a new period bounds  *)
(* the bar of the most passes, whose callback bounds the bar of the fewest *)
(* passes, whose callback runs before the others return.  They are given   *)
(* here as functions from one form to the next.  The parameters that do    *)
(* not take part (jugglers, objects, height) are one field, `others'.      *)
(*                                                                         *)
(* A SeekBar calls its listener when its progress changes, and whenever    *)
(* its maximum changes; a Spinner calls its listener once after the layout *)
(* of the form and then for every selection.                               *)
(***************************************************************************)
EXTENDS Integers

CONSTANTS
    Periods,        \* the options of the period: 1 to 10 in the code
    Others,         \* the values of the remaining parameters
    DefaultOthers,
    Null

DefaultMinPasses == 1
DefaultPeriod == 4

\* A new bar goes up to 100, so that the first layout bounds it for every period
\* that is short enough, and runs its callback.
ASSUME PeriodsAssumption == Periods \subseteq 1 .. 98 /\ DefaultPeriod \in Periods
ASSUME OthersAssumption == DefaultOthers \in Others
\* The spinner offers no number of jugglers below two.
ASSUME ParametersAssumption ==
    Others \subseteq [jugglers : Nat \ {0, 1}, objects : Nat, maxHeight : Nat]

VARIABLES
    form,       \* the fields and widgets of the activity, or Null
    laidOut,    \* the spinners have made their first callback
    saved,      \* the Bundle for onCreate, until the user changes something
    touched,    \* the user has changed something since onCreate
    request     \* the extras of the intent for the SearchActivity above the
                \* form, or Null

formVars == <<form, laidOut, saved, touched, request>>

Smaller(a, b) == IF a < b THEN a ELSE b
Larger(a, b) == IF a > b THEN a ELSE b

-----------------------------------------------------------------------------
(***************************************************************************)
(* PatternParameters and their extras in an Intent or a Bundle.            *)
(***************************************************************************)

DefaultMaxPasses(minPasses, period) == Larger(minPasses, period - minPasses)

Parameters(others, period, minPasses, maxPasses) ==
    [others |-> others, period |-> period, minPasses |-> minPasses, maxPasses |-> maxPasses]

DefaultParameters ==
    Parameters(DefaultOthers, DefaultPeriod, DefaultMinPasses,
               DefaultMaxPasses(DefaultMinPasses, DefaultPeriod))

\* Mutant: the fewest passes are stored under the key of the most.
ToExtrasMixedUp(p) ==
    [OTHERS |-> p.others, PERIOD |-> p.period, MAX_PASSES |-> p.minPasses]

ToExtras(p) ==
    [OTHERS |-> p.others, PERIOD |-> p.period,
     MAX_PASSES |-> p.maxPasses, MIN_PASSES |-> p.minPasses]

FromExtras(b) ==
    LET extra(key, default) == IF key \in DOMAIN b THEN b[key] ELSE default
        period == extra("PERIOD", DefaultPeriod)
        minPasses == extra("MIN_PASSES", DefaultMinPasses)
    IN  Parameters(extra("OTHERS", DefaultOthers), period, minPasses,
                   extra("MAX_PASSES", DefaultMaxPasses(minPasses, period)))

FromBundle(b) == IF b = Null THEN DefaultParameters ELSE FromExtras(b)

-----------------------------------------------------------------------------
(***************************************************************************)
(* The callbacks.  minShown and maxShown are the numbers in the two texts. *)
(***************************************************************************)

MinPassesChanged(f, n) == [f EXCEPT !.params.minPasses = n, !.minShown = n]

\* SeekBar.setMax and setProgress of the bar of the fewest passes.
MinBarSetMax(f, m) ==
    LET n == Smaller(f.minBar.progress, m) IN
    IF m = f.minBar.max THEN f
    ELSE MinPassesChanged([f EXCEPT !.minBar = [progress |-> n, max |-> m]], n)

MinBarSetProgress(f, progress) ==
    LET n == Smaller(progress, f.minBar.max) IN
    IF n = f.minBar.progress THEN f
    ELSE MinPassesChanged([f EXCEPT !.minBar.progress = n], n)

\* Mutant: the bar of the fewest passes is not bounded.
MaxPassesChangedAlone(f, n) == [f EXCEPT !.params.maxPasses = n, !.maxShown = n]

MaxPassesChanged(f, n) ==
    MinBarSetMax([f EXCEPT !.params.maxPasses = n, !.maxShown = n], n)

MaxBarSetMax(f, m) ==
    LET n == Smaller(f.maxBar.progress, m) IN
    IF m = f.maxBar.max THEN f
    ELSE MaxPassesChanged([f EXCEPT !.maxBar = [progress |-> n, max |-> m]], n)

MaxBarSetProgress(f, progress) ==
    LET n == Smaller(progress, f.maxBar.max) IN
    IF n = f.maxBar.progress THEN f
    ELSE MaxPassesChanged([f EXCEPT !.maxBar.progress = n], n)

\* Mutant: the parameters are read before the bars are bounded.
PeriodChangedStale(f, k) ==
    [MaxBarSetMax(f, k + 1) EXCEPT !.params = [f.params EXCEPT !.period = k]]

\* The one more lets the user drag the bar to `period'.
PeriodChanged(f, k) == [MaxBarSetMax(f, k + 1) EXCEPT !.params.period = k]

NewBar == [progress |-> 0, max |-> 100]

\* Mutant: the most passes are set before the fewest.
NewFormMaxFirst(p) ==
    LET f == [params |-> p, periodSpinner |-> p.period, minBar |-> NewBar, maxBar |-> NewBar,
              minShown |-> Null, maxShown |-> Null]
        g == MaxBarSetProgress(f, f.params.maxPasses)
    IN  MinBarSetProgress(g, g.params.minPasses)

\* onCreate, up to the callbacks that it runs itself.
NewForm(p) ==
    LET f == [params |-> p, periodSpinner |-> p.period, minBar |-> NewBar, maxBar |-> NewBar,
              minShown |-> Null, maxShown |-> Null]
        g == MinBarSetProgress(f, f.params.minPasses)
    IN  MaxBarSetProgress(g, g.params.maxPasses)

\* Neither extras nor a form are null.
ASSUME NullAssumption ==
    \A o \in Others, k \in Periods : \A min, max \in 0 .. k + 1 :
        LET p == Parameters(o, k, min, max) IN
        ToExtras(p) # Null /\ PeriodChanged(NewForm(p), k) # Null

-----------------------------------------------------------------------------
(***************************************************************************)
(* The activity.                                                           *)
(***************************************************************************)

Init ==
    /\ form = Null /\ laidOut = FALSE
    /\ saved = Null /\ touched = FALSE /\ request = Null

OnCreate ==
    /\ form = Null
    /\ form' = NewForm(FromBundle(saved))
    /\ laidOut' = FALSE /\ touched' = FALSE
    /\ UNCHANGED <<saved, request>>

\* The first callback of the spinners, before the user can touch anything.
FirstSelection ==
    /\ form # Null /\ ~laidOut
    /\ form' = PeriodChanged(form, form.periodSpinner)
    /\ laidOut' = TRUE
    /\ UNCHANGED <<saved, touched, request>>

\* The user changes one widget.
User(f) ==
    /\ laidOut /\ request = Null
    /\ form' = f
    /\ touched' = TRUE /\ saved' = Null
    /\ UNCHANGED <<laidOut, request>>

OnPeriodSelected(k) == User(PeriodChanged([form EXCEPT !.periodSpinner = k], k))
OnMinPassesDragged(n) == User(MinBarSetProgress(form, n))
OnMaxPassesDragged(n) == User(MaxBarSetProgress(form, n))
OnOthersSelected(o) == User([form EXCEPT !.params.others = o])

OnClick ==
    /\ laidOut /\ request = Null
    /\ request' = ToExtras(form.params)
    /\ UNCHANGED <<form, laidOut, saved, touched>>

\* The user leaves the search screen.
Back ==
    /\ request # Null
    /\ request' = Null
    /\ UNCHANGED <<form, laidOut, saved, touched>>

\* The platform saves the activity and destroys it, to create it again; it may
\* do so while the search screen is above it.
OnSaveInstanceState ==
    /\ laidOut
    /\ saved' = ToExtras(form.params)
    /\ form' = Null /\ laidOut' = FALSE
    /\ UNCHANGED <<touched, request>>

\* All that happens to the form but for Back, which ends a search screen.
FormStep ==
    \/ OnCreate \/ FirstSelection \/ OnClick \/ OnSaveInstanceState
    \/ \E k \in Periods : OnPeriodSelected(k)
    \/ laidOut /\ \E n \in 0 .. form.minBar.max : OnMinPassesDragged(n)
    \/ laidOut /\ \E n \in 0 .. form.maxBar.max : OnMaxPassesDragged(n)
    \/ \E o \in Others : OnOthersSelected(o)

-----------------------------------------------------------------------------
(***************************************************************************)
(* Properties.                                                             *)
(***************************************************************************)

\* What the form will search for is what its widgets show: no callback that runs
\* inside another one is undone when that one returns.
WidgetsAgree ==
    laidOut =>
        /\ form.params.period = form.periodSpinner
        /\ form.params.minPasses = form.minBar.progress /\ form.minShown = form.minBar.progress
        /\ form.params.maxPasses = form.maxBar.progress /\ form.maxShown = form.maxBar.progress

\* Whatever the order of the user's changes, a search asks for no fewer passes
\* than it allows, and allows no more than a period has throws, but for the one
\* that periodChanged adds.
RangeMakesSense ==
    laidOut =>
        /\ form.params.minPasses <= form.params.maxPasses
        /\ form.params.maxPasses <= form.params.period + 1

\* A form that is created again, with its callbacks of onCreate and of the first
\* layout, searches for what the one before it did, and a new one for the
\* defaults.
RecreationKeepsParameters ==
    laidOut /\ ~touched =>
        form.params = IF saved = Null THEN DefaultParameters ELSE FromExtras(saved)

\* What the search screen and the service read from the intent is what the form
\* shows, also when the form has been created again under the search screen.
RequestCarriesForm ==
    request # Null /\ laidOut => FromExtras(request) = form.params
=============================================================================
