----------------------- MODULE PatternScreens_proofs -----------------------
(***************************************************************************)
(* Theorems about the search form, the intents that carry what it holds,   *)
(* and the row and the details of a pattern, for any options of the form.  *)
(*                                                                         *)
(* The callbacks of the widgets nest, and the order in which they run      *)
(* depends on the values that they find.  The argument is that they always *)
(* end in the same place: a form that has been laid out is determined by   *)
(* its parameters.                                                         *)
(*                                                                         *)
(* What the details say of a pattern rests on one fact: a siteswap takes   *)
(* the indices of a pattern to one another without ever letting two of     *)
(* them meet.  Walks along it return to where they began, the heights of   *)
(* what they meet add up to a whole number of clubs for every juggler, and *)
(* the orbits share them out.                                              *)
(***************************************************************************)
EXTENDS PatternScreens, Siteswap_proofs, SequenceTheorems

\* The parameters that a form can hold.
GoodParameters ==
    {p \in [others : Others, period : Periods, minPasses : Nat, maxPasses : Nat] :
        p.minPasses <= p.maxPasses /\ p.maxPasses <= p.period + 1}

\* A form, given by all of its fields.
Form(p, spinner, minBar, maxBar, minShown, maxShown) ==
    [params |-> p, periodSpinner |-> spinner, minBar |-> minBar, maxBar |-> maxBar,
     minShown |-> minShown, maxShown |-> maxShown]

Bar(progress, max) == [progress |-> progress, max |-> max]

\* The form whose callbacks have all run.
Settled(p) ==
    Form(p, p.period, Bar(p.minPasses, p.maxPasses), Bar(p.maxPasses, p.period + 1),
         p.minPasses, p.maxPasses)

\* What the form holds, or will hold when it has been laid out.
Held == IF laidOut THEN form.params ELSE FromBundle(saved)

FormInv ==
    /\ laidOut \in BOOLEAN
    /\ FromBundle(saved) \in GoodParameters
    /\ laidOut => form = Settled(form.params) /\ form.params \in GoodParameters /\ form # Null
    /\ ~laidOut /\ form # Null => form = NewForm(FromBundle(saved)) /\ ~touched
    /\ laidOut /\ ~touched => form.params = FromBundle(saved)
    /\ request # Null => FromExtras(request) = Held

-----------------------------------------------------------------------------
(***************************************************************************)
(* Parameters and their extras.                                            *)
(***************************************************************************)

LEMMA ParametersType ==
    ASSUME NEW p \in GoodParameters
    PROVE  /\ p.others \in Others /\ p.period \in Periods /\ p.period \in 1 .. 98
           /\ p.minPasses \in 0 .. p.period + 1 /\ p.maxPasses \in 0 .. p.period + 1
           /\ p.minPasses <= p.maxPasses
           /\ p = Parameters(p.others, p.period, p.minPasses, p.maxPasses)
<1>1. /\ p \in [others : Others, period : Periods, minPasses : Nat, maxPasses : Nat]
      /\ p.minPasses <= p.maxPasses /\ p.maxPasses <= p.period + 1
  BY DEF GoodParameters
<1>2. p.period \in 1 .. 98
  BY <1>1, PeriodsAssumption
<1>3. p.minPasses \in Nat /\ p.maxPasses \in Nat
  BY <1>1
<1>4. p = Parameters(p.others, p.period, p.minPasses, p.maxPasses)
  BY <1>1 DEF Parameters
<1> QED
  BY <1>1, <1>2, <1>3, <1>4

LEMMA DefaultsGood == DefaultParameters \in GoodParameters
BY PeriodsAssumption, OthersAssumption
DEF DefaultParameters, Parameters, DefaultMaxPasses, Larger, DefaultMinPasses, DefaultPeriod,
    GoodParameters

\* What is written into the extras of an intent or into a bundle is read back.
LEMMA ExtrasRoundTrip ==
    ASSUME NEW p \in GoodParameters
    PROVE  FromExtras(ToExtras(p)) = p /\ FromBundle(ToExtras(p)) = p
<1> DEFINE b == ToExtras(p)
<1>1. DOMAIN b = {"OTHERS", "PERIOD", "MAX_PASSES", "MIN_PASSES"}
  BY DEF ToExtras
<1>2. /\ b["OTHERS"] = p.others /\ b["PERIOD"] = p.period
      /\ b["MAX_PASSES"] = p.maxPasses /\ b["MIN_PASSES"] = p.minPasses
  BY DEF ToExtras
<1> HIDE DEF b
<1>3. FromExtras(b) = Parameters(p.others, p.period, p.minPasses, p.maxPasses)
  BY <1>1, <1>2 DEF FromExtras
<1>4. b # Null
  BY ParametersType, NullAssumption DEF b
<1> QED
  BY <1>3, <1>4, ParametersType DEF b, FromBundle

-----------------------------------------------------------------------------
(***************************************************************************)
(* The callbacks, one by one.                                              *)
(***************************************************************************)

WithMin(p, n) == Parameters(p.others, p.period, n, p.maxPasses)
WithMax(p, n) == Parameters(p.others, p.period, p.minPasses, n)
WithPeriod(p, k) == Parameters(p.others, k, p.minPasses, p.maxPasses)
WithOthers(p, o) == Parameters(o, p.period, p.minPasses, p.maxPasses)

AnyParameters ==
    [others : Others, period : Periods, minPasses : Nat, maxPasses : Nat]

LEMMA MinPassesChangedForm ==
    ASSUME NEW p \in AnyParameters, NEW spinner, NEW minBar, NEW maxBar, NEW minShown,
           NEW maxShown, NEW n
    PROVE  MinPassesChanged(Form(p, spinner, minBar, maxBar, minShown, maxShown), n)
             = Form(WithMin(p, n), spinner, minBar, maxBar, n, maxShown)
<1> DEFINE f == Form(p, spinner, minBar, maxBar, minShown, maxShown)
           g == Form(WithMin(p, n), spinner, minBar, maxBar, minShown, maxShown)
<1>1. MinPassesChanged(f, n) = [[f EXCEPT !.params.minPasses = n] EXCEPT !.minShown = n]
  BY DEF MinPassesChanged, Form
<1>2. [f EXCEPT !.params.minPasses = n] = g
  BY DEF AnyParameters, Form, WithMin, Parameters
<1>3. [g EXCEPT !.minShown = n] = Form(WithMin(p, n), spinner, minBar, maxBar, n, maxShown)
  BY DEF Form
<1> QED
  BY <1>1, <1>2, <1>3

LEMMA MinBarSetMaxForm ==
    ASSUME NEW p \in AnyParameters, NEW spinner, NEW progress, NEW max, NEW maxBar,
           NEW minShown, NEW maxShown, NEW m
    PROVE  MinBarSetMax(Form(p, spinner, Bar(progress, max), maxBar, minShown, maxShown), m)
             = IF m = max THEN Form(p, spinner, Bar(progress, max), maxBar, minShown, maxShown)
               ELSE LET n == Smaller(progress, m) IN
                    Form(WithMin(p, n), spinner, Bar(n, m), maxBar, n, maxShown)
<1> DEFINE f == Form(p, spinner, Bar(progress, max), maxBar, minShown, maxShown)
           n == Smaller(progress, m)
<1>1. f.minBar.progress = progress /\ f.minBar.max = max
  BY DEF Form, Bar
<1>2. [f EXCEPT !.minBar = [progress |-> n, max |-> m]]
        = Form(p, spinner, Bar(n, m), maxBar, minShown, maxShown)
  BY DEF Form, Bar
<1> HIDE DEF f, n
<1>3. MinBarSetMax(f, m)
        = IF m = max THEN f
          ELSE MinPassesChanged(Form(p, spinner, Bar(n, m), maxBar, minShown, maxShown), n)
  BY <1>1, <1>2 DEF MinBarSetMax, n
<1> QED
  BY <1>3, MinPassesChangedForm DEF f, n

LEMMA MinBarSetProgressForm ==
    ASSUME NEW p \in AnyParameters, NEW spinner, NEW progress, NEW max, NEW maxBar,
           NEW minShown, NEW maxShown, NEW m
    PROVE  MinBarSetProgress(Form(p, spinner, Bar(progress, max), maxBar, minShown, maxShown), m)
             = LET n == Smaller(m, max) IN
               IF n = progress THEN Form(p, spinner, Bar(progress, max), maxBar, minShown, maxShown)
               ELSE Form(WithMin(p, n), spinner, Bar(n, max), maxBar, n, maxShown)
<1> DEFINE f == Form(p, spinner, Bar(progress, max), maxBar, minShown, maxShown)
           n == Smaller(m, max)
<1>1. f.minBar.progress = progress /\ f.minBar.max = max
  BY DEF Form, Bar
<1>2. [f EXCEPT !.minBar.progress = n]
        = Form(p, spinner, Bar(n, max), maxBar, minShown, maxShown)
  BY DEF Form, Bar
<1> HIDE DEF f, n
<1>3. MinBarSetProgress(f, m)
        = IF n = progress THEN f
          ELSE MinPassesChanged(Form(p, spinner, Bar(n, max), maxBar, minShown, maxShown), n)
  BY <1>1, <1>2 DEF MinBarSetProgress, n
<1> QED
  BY <1>3, MinPassesChangedForm DEF f, n

LEMMA MaxPassesChangedForm ==
    ASSUME NEW p \in AnyParameters, NEW spinner, NEW progress, NEW max, NEW maxBar,
           NEW minShown, NEW maxShown, NEW n \in Nat
    PROVE  MaxPassesChanged(Form(p, spinner, Bar(progress, max), maxBar, minShown, maxShown), n)
             = IF n = max
               THEN Form(WithMax(p, n), spinner, Bar(progress, max), maxBar, minShown, n)
               ELSE LET least == Smaller(progress, n) IN
                    Form(WithMin(WithMax(p, n), least), spinner, Bar(least, n), maxBar, least, n)
<1> DEFINE f == Form(p, spinner, Bar(progress, max), maxBar, minShown, maxShown)
           g == Form(WithMax(p, n), spinner, Bar(progress, max), maxBar, minShown, n)
<1>1. [f EXCEPT !.params.maxPasses = n, !.maxShown = n] = g
  <2> DEFINE h == Form(WithMax(p, n), spinner, Bar(progress, max), maxBar, minShown, maxShown)
  <2>1. [f EXCEPT !.params.maxPasses = n, !.maxShown = n]
          = [[f EXCEPT !.params.maxPasses = n] EXCEPT !.maxShown = n]
    BY DEF Form
  <2>2. [f EXCEPT !.params.maxPasses = n] = h
    BY DEF AnyParameters, Form, WithMax, Parameters
  <2>3. [h EXCEPT !.maxShown = n] = g
    BY DEF Form
  <2> QED
    BY <2>1, <2>2, <2>3
<1>2. WithMax(p, n) \in AnyParameters
  BY DEF AnyParameters, WithMax, Parameters
<1> HIDE DEF f
<1>3. MaxPassesChanged(f, n) = MinBarSetMax(g, n)
  BY <1>1 DEF MaxPassesChanged
<1> QED
  BY <1>2, <1>3, MinBarSetMaxForm DEF f

LEMMA MaxBarSetMaxForm ==
    ASSUME NEW p \in AnyParameters, NEW spinner, NEW minBar, NEW progress, NEW max,
           NEW minShown, NEW maxShown, NEW m
    PROVE  MaxBarSetMax(Form(p, spinner, minBar, Bar(progress, max), minShown, maxShown), m)
             = IF m = max THEN Form(p, spinner, minBar, Bar(progress, max), minShown, maxShown)
               ELSE LET n == Smaller(progress, m) IN
                    MaxPassesChanged(Form(p, spinner, minBar, Bar(n, m), minShown, maxShown), n)
<1> DEFINE f == Form(p, spinner, minBar, Bar(progress, max), minShown, maxShown)
           n == Smaller(progress, m)
<1>1. f.maxBar.progress = progress /\ f.maxBar.max = max
  BY DEF Form, Bar
<1>2. [f EXCEPT !.maxBar = [progress |-> n, max |-> m]]
        = Form(p, spinner, minBar, Bar(n, m), minShown, maxShown)
  BY DEF Form, Bar
<1> HIDE DEF f, n
<1>3. MaxBarSetMax(f, m)
        = IF m = max THEN f
          ELSE MaxPassesChanged(Form(p, spinner, minBar, Bar(n, m), minShown, maxShown), n)
  BY <1>1, <1>2 DEF MaxBarSetMax, n
<1> QED
  BY <1>3 DEF f, n

LEMMA MaxBarSetProgressForm ==
    ASSUME NEW p \in AnyParameters, NEW spinner, NEW minBar, NEW progress, NEW max,
           NEW minShown, NEW maxShown, NEW m
    PROVE  MaxBarSetProgress(Form(p, spinner, minBar, Bar(progress, max), minShown, maxShown), m)
             = LET n == Smaller(m, max) IN
               IF n = progress THEN Form(p, spinner, minBar, Bar(progress, max), minShown, maxShown)
               ELSE MaxPassesChanged(Form(p, spinner, minBar, Bar(n, max), minShown, maxShown), n)
<1> DEFINE f == Form(p, spinner, minBar, Bar(progress, max), minShown, maxShown)
           n == Smaller(m, max)
<1>1. f.maxBar.progress = progress /\ f.maxBar.max = max
  BY DEF Form, Bar
<1>2. [f EXCEPT !.maxBar.progress = n]
        = Form(p, spinner, minBar, Bar(n, max), minShown, maxShown)
  BY DEF Form, Bar
<1> HIDE DEF f, n
<1>3. MaxBarSetProgress(f, m)
        = IF n = progress THEN f
          ELSE MaxPassesChanged(Form(p, spinner, minBar, Bar(n, max), minShown, maxShown), n)
  BY <1>1, <1>2 DEF MaxBarSetProgress, n
<1> QED
  BY <1>3 DEF f, n

-----------------------------------------------------------------------------
(***************************************************************************)
(* The callbacks together: wherever they begin, the form settles.          *)
(***************************************************************************)

LEMMA SameParameters ==
    ASSUME NEW p \in GoodParameters
    PROVE  /\ p \in AnyParameters
           /\ WithMin(p, p.minPasses) = p /\ WithMax(p, p.maxPasses) = p
           /\ WithPeriod(p, p.period) = p
           /\ WithMin(WithMax(p, p.maxPasses), p.minPasses) = p
<1>1. p \in AnyParameters
  BY DEF GoodParameters, AnyParameters
<1>2. /\ WithMin(p, p.minPasses) = p /\ WithMax(p, p.maxPasses) = p
      /\ WithPeriod(p, p.period) = p
  BY ParametersType DEF WithMin, WithMax, WithPeriod
<1> QED
  BY <1>1, <1>2

\* The form that onCreate leaves: a bar that is set to 0 calls nothing back.
LEMMA NewFormIs ==
    ASSUME NEW p \in GoodParameters
    PROVE  NewForm(p) = IF p.maxPasses = 0
                        THEN Form(p, p.period, Bar(0, 100), Bar(0, 100), Null, Null)
                        ELSE Form(p, p.period, Bar(p.minPasses, p.maxPasses),
                                  Bar(p.maxPasses, 100), p.minPasses, p.maxPasses)
<1> DEFINE f == Form(p, p.period, Bar(0, 100), Bar(0, 100), Null, Null)
           g == MinBarSetProgress(f, p.minPasses)
           shown == IF p.minPasses = 0 THEN Null ELSE p.minPasses
<1>1. /\ p.minPasses \in 0 .. 99 /\ p.maxPasses \in 0 .. 99 /\ p.minPasses <= p.maxPasses
  BY ParametersType
<1>2. p \in AnyParameters /\ WithMin(p, p.minPasses) = p
      /\ WithMin(WithMax(p, p.maxPasses), p.minPasses) = p
  BY SameParameters
<1>3. f.params = p
  BY DEF Form
<1>4. g = Form(p, p.period, Bar(p.minPasses, 100), Bar(0, 100), shown, Null)
  <2>1. Smaller(p.minPasses, 100) = p.minPasses
    BY <1>1 DEF Smaller
  <2> QED
    BY <1>2, <2>1, MinBarSetProgressForm
<1>5. g.params = p
  BY <1>4 DEF Form
<1>6. NewForm(p) = MaxBarSetProgress(g, p.maxPasses)
  <2>1. [params |-> p, periodSpinner |-> p.period, minBar |-> NewBar, maxBar |-> NewBar,
         minShown |-> Null, maxShown |-> Null] = f
    BY DEF Form, NewBar, Bar
  <2> HIDE DEF f
  <2>2. NewForm(p) = MaxBarSetProgress(MinBarSetProgress(f, f.params.minPasses),
                                       MinBarSetProgress(f, f.params.minPasses).params.maxPasses)
    BY <2>1 DEF NewForm
  <2> QED
    BY <1>3, <1>5, <2>2
<1>7. Smaller(p.maxPasses, 100) = p.maxPasses /\ Smaller(p.minPasses, p.maxPasses) = p.minPasses
  <2>1. PICK m \in Nat : m = p.minPasses /\ m <= p.maxPasses
    BY <1>1
  <2>2. PICK n \in Nat : n = p.maxPasses /\ m <= n /\ n < 100
    BY <1>1, <2>1
  <2>3. Smaller(n, 100) = n /\ Smaller(m, n) = m
    BY <2>2 DEF Smaller
  <2> QED
    BY <2>1, <2>2, <2>3
<1> HIDE DEF f, g, shown
<1>8. CASE p.maxPasses = 0
  <2>1. p.minPasses = 0
    BY <1>1, <1>8
  <2>2. NewForm(p) = g
    BY <1>2, <1>4, <1>6, <1>7, <1>8, MaxBarSetProgressForm
  <2> QED
    BY <1>4, <1>8, <2>1, <2>2 DEF shown
<1>9. CASE p.maxPasses # 0
  <2>1. NewForm(p)
          = MaxPassesChanged(Form(p, p.period, Bar(p.minPasses, 100), Bar(p.maxPasses, 100),
                                  shown, Null), p.maxPasses)
    BY <1>2, <1>4, <1>6, <1>7, <1>9, MaxBarSetProgressForm
  <2>2. p.maxPasses \in Nat /\ p.maxPasses # 100
    BY <1>1
  <2> QED
    BY <1>2, <1>7, <1>9, <2>1, <2>2, MaxPassesChangedForm
<1> QED
  BY <1>8, <1>9

LEMMA PeriodChangedIs ==
    ASSUME NEW p \in AnyParameters, NEW spinner, NEW minBar, NEW maxBar, NEW minShown,
           NEW maxShown, NEW f, NEW k,
           MaxBarSetMax(f, k + 1) = Form(p, spinner, minBar, maxBar, minShown, maxShown)
    PROVE  PeriodChanged(f, k)
             = Form(WithPeriod(p, k), spinner, minBar, maxBar, minShown, maxShown)
BY DEF PeriodChanged, AnyParameters, Form, WithPeriod, Parameters

\* A new form settles with the first layout, whatever its parameters.
LEMMA LayoutSettles ==
    ASSUME NEW p \in GoodParameters
    PROVE  PeriodChanged(NewForm(p), NewForm(p).periodSpinner) = Settled(p)
<1> DEFINE k == p.period
<1>1. /\ p.minPasses \in 0 .. k + 1 /\ p.maxPasses \in 0 .. k + 1
      /\ p.minPasses <= p.maxPasses /\ k \in 1 .. 98
  BY ParametersType
<1>2. p \in AnyParameters /\ WithMax(p, p.maxPasses) = p /\ WithPeriod(p, k) = p
      /\ WithMin(WithMax(p, p.maxPasses), p.minPasses) = p
  BY SameParameters
<1>3. Smaller(p.maxPasses, k + 1) = p.maxPasses
  BY <1>1 DEF Smaller
<1>4. NewForm(p).periodSpinner = k
  BY NewFormIs DEF Form
<1> HIDE DEF k
<1>5. MaxBarSetMax(NewForm(p), k + 1)
        = Form(p, k, Bar(p.minPasses, p.maxPasses), Bar(p.maxPasses, k + 1),
               p.minPasses, p.maxPasses)
  <2>1. CASE p.maxPasses = 0
    <3>1. p.minPasses = 0 /\ 0 \in Nat /\ Smaller(0, k + 1) = 0 /\ Smaller(0, 0) = 0 /\ k + 1 # 100
      BY <1>1, <2>1 DEF Smaller
    <3>2. MaxBarSetMax(NewForm(p), k + 1)
            = MaxPassesChanged(Form(p, k, Bar(0, 100), Bar(0, k + 1), Null, Null), 0)
      BY <1>2, <2>1, <3>1, NewFormIs, MaxBarSetMaxForm DEF k
    <3>3. WithMin(WithMax(p, 0), 0) = p
      BY <1>2, <2>1, <3>1
    <3> QED
      BY <1>2, <2>1, <3>1, <3>2, <3>3, MaxPassesChangedForm
  <2>2. CASE p.maxPasses # 0
    <3>1. k + 1 # 100 /\ p.maxPasses \in Nat
      BY <1>1
    <3>2. MaxBarSetMax(NewForm(p), k + 1)
            = MaxPassesChanged(Form(p, k, Bar(p.minPasses, p.maxPasses), Bar(p.maxPasses, k + 1),
                                    p.minPasses, p.maxPasses), p.maxPasses)
      BY <1>2, <1>3, <2>2, <3>1, NewFormIs, MaxBarSetMaxForm DEF k
    <3> QED
      BY <1>2, <3>1, <3>2, MaxPassesChangedForm
  <2> QED
    BY <2>1, <2>2
<1> QED
  BY <1>2, <1>4, <1>5, PeriodChangedIs DEF Settled, k

\* A new period takes passes that it has no throws for from the range.
LEMMA PeriodSettles ==
    ASSUME NEW p \in GoodParameters, NEW k \in Periods
    PROVE  \E q \in GoodParameters :
              PeriodChanged([Settled(p) EXCEPT !.periodSpinner = k], k) = Settled(q)
<1> DEFINE most == Smaller(p.maxPasses, k + 1)
           least == Smaller(p.minPasses, most)
           q == Parameters(p.others, k, least, most)
           f == [Settled(p) EXCEPT !.periodSpinner = k]
           barsOf(a, b) == Form(WithMin(WithMax(p, b), a), k, Bar(a, b), Bar(b, k + 1), a, b)
<1>1. /\ p.minPasses \in Nat /\ p.maxPasses \in Nat /\ p.minPasses <= p.maxPasses
      /\ p.period \in 1 .. 98 /\ p.maxPasses <= p.period + 1 /\ k \in 1 .. 98
      /\ p.others \in Others
  BY ParametersType, PeriodsAssumption
<1>2. p \in AnyParameters /\ WithMax(p, p.maxPasses) = p
      /\ WithMin(WithMax(p, p.maxPasses), p.minPasses) = p
  BY SameParameters
<1>3. most \in Nat /\ least \in Nat /\ least <= most /\ most <= k + 1
  BY <1>1 DEF Smaller
<1>4. q \in GoodParameters
  BY <1>1, <1>3 DEF GoodParameters, Parameters
<1>5. f = Form(p, k, Bar(p.minPasses, p.maxPasses), Bar(p.maxPasses, p.period + 1),
               p.minPasses, p.maxPasses)
  BY DEF Settled, Form
<1>6. WithPeriod(WithMin(WithMax(p, most), least), k) = q
      /\ WithMin(WithMax(p, most), least) \in AnyParameters
  BY <1>1, <1>2, <1>3 DEF WithPeriod, WithMin, WithMax, Parameters, AnyParameters
<1> HIDE DEF most, least, q, f
<1>7. MaxBarSetMax(f, k + 1) = barsOf(least, most)
  <2>1. CASE k = p.period
    <3>1. most = p.maxPasses /\ least = p.minPasses
      BY <1>1, <2>1 DEF most, least, Smaller
    <3> QED
      BY <1>2, <1>5, <2>1, <3>1, MaxBarSetMaxForm
  <2>2. CASE k # p.period
    <3>1. k + 1 # p.period + 1
      BY <1>1, <2>2
    <3>2. MaxBarSetMax(f, k + 1)
            = MaxPassesChanged(Form(p, k, Bar(p.minPasses, p.maxPasses), Bar(most, k + 1),
                                    p.minPasses, p.maxPasses), most)
      BY <1>2, <1>5, <3>1, MaxBarSetMaxForm DEF most
    <3>3. CASE most = p.maxPasses
      <4>1. least = p.minPasses
        BY <1>1, <3>3 DEF least, Smaller
      <4> QED
        BY <1>2, <1>3, <3>2, <3>3, <4>1, MaxPassesChangedForm
    <3>4. CASE most # p.maxPasses
      BY <1>2, <1>3, <3>2, <3>4, MaxPassesChangedForm DEF least
    <3> QED
      BY <3>3, <3>4
  <2> QED
    BY <2>1, <2>2
<1>8. PeriodChanged(f, k) = Form(q, k, Bar(least, most), Bar(most, k + 1), least, most)
  BY <1>6, <1>7, PeriodChangedIs
<1>9. q.period = k /\ q.minPasses = least /\ q.maxPasses = most
  BY DEF q, Parameters
<1> QED
  BY <1>4, <1>8, <1>9 DEF Settled, f

\* The bar of the fewest passes moves no other widget.
LEMMA MinDragSettles ==
    ASSUME NEW p \in GoodParameters, NEW n \in 0 .. p.maxPasses
    PROVE  \E q \in GoodParameters : MinBarSetProgress(Settled(p), n) = Settled(q)
<1> DEFINE q == WithMin(p, n)
<1>1. p.minPasses \in Nat /\ p.maxPasses \in Nat /\ p.maxPasses <= p.period + 1
  BY ParametersType
<1>2. p \in AnyParameters /\ WithMin(p, p.minPasses) = p
  BY SameParameters
<1>3. q \in GoodParameters
  BY <1>1, ParametersType DEF GoodParameters, WithMin, Parameters
<1>4. Smaller(n, p.maxPasses) = n
  BY <1>1 DEF Smaller
<1>5. MinBarSetProgress(Settled(p), n)
        = IF n = p.minPasses THEN Settled(p)
          ELSE Form(q, p.period, Bar(n, p.maxPasses), Bar(p.maxPasses, p.period + 1),
                    n, p.maxPasses)
  BY <1>2, <1>4, MinBarSetProgressForm DEF Settled
<1>6. q.period = p.period /\ q.minPasses = n /\ q.maxPasses = p.maxPasses
  BY DEF WithMin, Parameters
<1> QED
  BY <1>3, <1>5, <1>6 DEF Settled

\* The bar of the most passes takes the fewest passes with it.
LEMMA MaxDragSettles ==
    ASSUME NEW p \in GoodParameters, NEW n \in 0 .. p.period + 1
    PROVE  \E q \in GoodParameters : MaxBarSetProgress(Settled(p), n) = Settled(q)
<1> DEFINE least == Smaller(p.minPasses, n)
           q == WithMin(WithMax(p, n), least)
<1>1. /\ p.minPasses \in Nat /\ p.maxPasses \in Nat /\ p.maxPasses <= p.period + 1
      /\ p.period \in 1 .. 98
  BY ParametersType
<1>2. p \in AnyParameters /\ n \in Nat
  BY SameParameters
<1>3. Smaller(n, p.period + 1) = n /\ least \in Nat /\ least <= n
  BY <1>1 DEF Smaller
<1>4. q.period = p.period /\ q.minPasses = least /\ q.maxPasses = n
  BY DEF WithMin, WithMax, Parameters
<1>5. q \in GoodParameters
  BY <1>1, <1>2, <1>3, ParametersType DEF GoodParameters, WithMin, WithMax, Parameters
<1>6. MaxBarSetProgress(Settled(p), n)
        = IF n = p.maxPasses THEN Settled(p)
          ELSE MaxPassesChanged(Form(p, p.period, Bar(p.minPasses, p.maxPasses),
                                     Bar(n, p.period + 1), p.minPasses, p.maxPasses), n)
  BY <1>2, <1>3, MaxBarSetProgressForm DEF Settled
<1> HIDE DEF q
<1>7. CASE n = p.maxPasses
  BY <1>6, <1>7
<1>8. CASE n # p.maxPasses
  <2>1. MaxBarSetProgress(Settled(p), n)
          = Form(q, p.period, Bar(least, n), Bar(n, p.period + 1), least, n)
    BY <1>2, <1>6, <1>8, MaxPassesChangedForm DEF q
  <2> QED
    BY <1>4, <1>5, <2>1 DEF Settled
<1> QED
  BY <1>7, <1>8

LEMMA OthersSettle ==
    ASSUME NEW p \in GoodParameters, NEW o \in Others
    PROVE  \E q \in GoodParameters : [Settled(p) EXCEPT !.params.others = o] = Settled(q)
<1> DEFINE q == WithOthers(p, o)
<1>1. p \in AnyParameters
  BY SameParameters
<1>2. q \in GoodParameters
  BY ParametersType DEF GoodParameters, WithOthers, Parameters
<1>3. q.period = p.period /\ q.minPasses = p.minPasses /\ q.maxPasses = p.maxPasses
  BY DEF WithOthers, Parameters
<1>4. [Settled(p) EXCEPT !.params.others = o]
        = Form(q, p.period, Bar(p.minPasses, p.maxPasses), Bar(p.maxPasses, p.period + 1),
               p.minPasses, p.maxPasses)
  BY <1>1 DEF Settled, Form, AnyParameters, WithOthers, Parameters
<1> QED
  BY <1>2, <1>3, <1>4 DEF Settled

-----------------------------------------------------------------------------
(***************************************************************************)
(* The form.                                                               *)
(***************************************************************************)

LEMMA InitFormInv == ScreensInit => FormInv
BY DefaultsGood DEF ScreensInit, Init, FormInv, FromBundle

LEMMA SettledParameters == \A p : Settled(p).params = p
BY DEF Settled, Form

LEMMA NewFormParameters ==
    ASSUME NEW p \in GoodParameters PROVE NewForm(p).params = p
BY NewFormIs DEF Form

LEMMA SettledNotNull == \A p \in GoodParameters : Settled(p) # Null
<1> SUFFICES ASSUME NEW p \in GoodParameters PROVE Settled(p) # Null
  OBVIOUS
<1>1. NewForm(p).periodSpinner = p.period
  BY NewFormIs DEF Form
<1>2. PeriodChanged(NewForm(p), p.period) # Null
  BY ParametersType, NullAssumption
<1> QED
  BY <1>1, <1>2, LayoutSettles

\* What the user does to a form that has been laid out leaves it settled.
LEMMA UserStep ==
    ASSUME FormInv, NEW q \in GoodParameters, User(Settled(q))
    PROVE  FormInv'
<1>1. /\ laidOut /\ request = Null /\ form' = Settled(q) /\ touched' = TRUE
      /\ saved' = Null /\ laidOut' = laidOut /\ request' = request
  BY DEF User
<1>2. form'.params = q
  BY <1>1, SettledParameters
<1>3. FromBundle(saved') = DefaultParameters
  BY <1>1 DEF FromBundle
<1> QED
  BY <1>1, <1>2, <1>3, DefaultsGood, SettledNotNull DEF FormInv

LEMMA FormInvStep == FormInv /\ [ScreensNext]_vars => FormInv'
<1> SUFFICES ASSUME FormInv, [ScreensNext]_vars PROVE FormInv'
  OBVIOUS
<1>1. CASE UNCHANGED formVars
  BY <1>1 DEF formVars, FormInv, Held
<1>2. CASE Back
  BY <1>2 DEF Back, FormInv, Held
<1>3. CASE OnCreate
  <2>1. FromBundle(saved)' = FromBundle(saved) /\ Held' = FromBundle(saved) /\ ~laidOut'
    BY <1>3 DEF OnCreate, Held
  <2>2. request # Null => FromExtras(request) = FromBundle(saved)
    BY <1>3 DEF OnCreate, FormInv, Held
  <2> QED
    BY <1>3, <2>1, <2>2 DEF OnCreate, FormInv
<1>4. CASE FirstSelection
  <2> DEFINE p == FromBundle(saved)
  <2>1. p \in GoodParameters /\ form = NewForm(p) /\ ~touched
    BY <1>4 DEF FirstSelection, FormInv
  <2>2. form' = Settled(p)
    BY <1>4, <2>1, LayoutSettles DEF FirstSelection
  <2>3. form'.params = p
    BY <2>2, SettledParameters
  <2>4. FromBundle(saved)' = p /\ laidOut' = TRUE /\ touched' = touched /\ request' = request
    BY <1>4 DEF FirstSelection
  <2>5. request # Null => FromExtras(request) = p
    BY <1>4 DEF FirstSelection, FormInv, Held
  <2> HIDE DEF p
  <2> QED
    BY <2>1, <2>2, <2>3, <2>4, <2>5, SettledNotNull DEF FormInv, Held
<1>5. CASE OnClick
  <2>1. FromExtras(request') = form.params
    BY <1>5, ExtrasRoundTrip DEF OnClick, FormInv
  <2> QED
    BY <1>5, <2>1 DEF OnClick, FormInv, Held
<1>6. CASE OnSaveInstanceState
  <2>1. form.params \in GoodParameters /\ FromBundle(saved') = form.params
    BY <1>6, ExtrasRoundTrip DEF OnSaveInstanceState, FormInv
  <2> QED
    BY <1>6, <2>1 DEF OnSaveInstanceState, FormInv, Held
<1>7. ASSUME NEW k \in Periods, OnPeriodSelected(k) PROVE FormInv'
  <2>1. laidOut /\ form = Settled(form.params) /\ form.params \in GoodParameters
    BY <1>7 DEF OnPeriodSelected, User, FormInv
  <2>2. PICK q \in GoodParameters :
           PeriodChanged([form EXCEPT !.periodSpinner = k], k) = Settled(q)
    BY <2>1, PeriodSettles
  <2> QED
    BY <1>7, <2>2, UserStep DEF OnPeriodSelected
<1>8. ASSUME laidOut, NEW n \in 0 .. form.minBar.max, OnMinPassesDragged(n) PROVE FormInv'
  <2>1. form = Settled(form.params) /\ form.params \in GoodParameters
    BY <1>8 DEF FormInv
  <2>2. form.minBar.max = form.params.maxPasses
    BY <2>1 DEF Settled, Form, Bar
  <2>3. PICK q \in GoodParameters : MinBarSetProgress(form, n) = Settled(q)
    BY <1>8, <2>1, <2>2, MinDragSettles
  <2> QED
    BY <1>8, <2>3, UserStep DEF OnMinPassesDragged
<1>9. ASSUME laidOut, NEW n \in 0 .. form.maxBar.max, OnMaxPassesDragged(n) PROVE FormInv'
  <2>1. form = Settled(form.params) /\ form.params \in GoodParameters
    BY <1>9 DEF FormInv
  <2>2. form.maxBar.max = form.params.period + 1
    BY <2>1 DEF Settled, Form, Bar
  <2>3. PICK q \in GoodParameters : MaxBarSetProgress(form, n) = Settled(q)
    BY <1>9, <2>1, <2>2, MaxDragSettles
  <2> QED
    BY <1>9, <2>3, UserStep DEF OnMaxPassesDragged
<1>10. ASSUME NEW o \in Others, OnOthersSelected(o) PROVE FormInv'
  <2>1. form = Settled(form.params) /\ form.params \in GoodParameters
    BY <1>10 DEF OnOthersSelected, User, FormInv
  <2>2. PICK q \in GoodParameters : [form EXCEPT !.params.others = o] = Settled(q)
    BY <2>1, OthersSettle
  <2> QED
    BY <1>10, <2>2, UserStep DEF OnOthersSelected
<1>11. CASE FormStep
  BY <1>3, <1>4, <1>5, <1>6, <1>7, <1>8, <1>9, <1>10, <1>11 DEF FormStep
<1> QED
  BY <1>1, <1>2, <1>11 DEF ScreensNext, GetView, OnItemClick, DetailOnCreate, DetailOnDestroy,
     DetailBack, SearchBack, vars

LEMMA FormInvariant == ScreensSpec => []FormInv
BY InitFormInv, FormInvStep, PTL DEF ScreensSpec

\* Whatever the user does in whatever order, and however often the form is created
\* again, what it will search for is what its widgets show.
THEOREM WidgetsAlwaysAgree == ScreensSpec => []WidgetsAgree
<1>1. FormInv => WidgetsAgree
  BY DEF FormInv, WidgetsAgree, Settled, Form, Bar
<1> QED
  BY <1>1, FormInvariant, PTL

\* The range of the passes is never empty, and within the period but for one.
THEOREM RangeAlwaysMakesSense == ScreensSpec => []RangeMakesSense
<1>1. FormInv => RangeMakesSense
  BY DEF FormInv, RangeMakesSense, GoodParameters
<1> QED
  BY <1>1, FormInvariant, PTL

\* A form that is created again takes up where the one before it was.
THEOREM RecreationAlwaysKeeps == ScreensSpec => []RecreationKeepsParameters
<1>1. FormInv => RecreationKeepsParameters
  BY DEF FormInv, RecreationKeepsParameters, FromBundle
<1> QED
  BY <1>1, FormInvariant, PTL

\* A search is for what the form shows, as long as it is above the form.
THEOREM RequestAlwaysCarries == ScreensSpec => []RequestCarriesForm
<1>1. FormInv => RequestCarriesForm
  BY DEF FormInv, RequestCarriesForm, Held
<1> QED
  BY <1>1, FormInvariant, PTL

-----------------------------------------------------------------------------
(***************************************************************************)
(* Parcels and rows.                                                       *)
(***************************************************************************)

\* A toss takes three places in a parcel, from an index that is 2 modulo 3 on.
LEMMA TossInParcel ==
    ASSUME NEW i \in Int
    PROVE  /\ (3 * i - 2) % 3 = 1 /\ (3 * i - 3) \div 3 = i - 1
           /\ (3 * i - 1) % 3 = 2 /\ (3 * i - 2) \div 3 = i - 1
           /\ (3 * i) % 3 = 0 /\ (3 * i - 1) \div 3 = i - 1
OBVIOUS

\* What is written into a parcel is read back, toss by toss.
LEMMA ParcelRoundTrip ==
    ASSUME NEW j, NEW tosses \in Seq(AnyToss)
    PROVE  CreateFromParcel(WriteToParcel(NewPattern([others |-> [jugglers |-> j]], tosses)))
             = NewPattern([others |-> [jugglers |-> j]], tosses)
<1> DEFINE p == NewPattern([others |-> [jugglers |-> j]], tosses)
           n == Len(tosses)
           head == <<j, n>>
           number(k) ==
               LET toss == GetToss(p, (k - 1) \div 3) IN
               CASE k % 3 = 1 -> toss.height [] k % 3 = 2 -> toss.pass [] OTHER -> toss.siteswap
           body == [k \in 1 .. 3 * n |-> number(k)]
           ints == WriteToParcel(p)
<1>1. p.jugglers = j /\ p.tosses = tosses /\ p = [jugglers |-> j, tosses |-> tosses]
  BY DEF NewPattern, Jugglers
<1>2. n \in Nat /\ DOMAIN tosses = 1 .. n /\ \A i \in 1 .. n : tosses[i] \in AnyToss
  OBVIOUS
<1>3. ints = head \o body
  BY <1>1 DEF WriteToParcel, PatternLength
<1> HIDE DEF p, ints, number
<1>4. \A i \in 1 .. n : /\ 3 * i - 2 \in 1 .. 3 * n /\ 3 * i - 1 \in 1 .. 3 * n
                        /\ 3 * i \in 1 .. 3 * n
  BY <1>2
<1>5. \A i \in 1 .. n : GetToss(p, i - 1) = tosses[i]
  BY <1>1, <1>2 DEF GetToss
<1>6. \A i \in 1 .. n : /\ number(3 * i - 2) = tosses[i].height
                        /\ number(3 * i - 1) = tosses[i].pass
                        /\ number(3 * i) = tosses[i].siteswap
  <2> SUFFICES ASSUME NEW i \in 1 .. n
               PROVE  /\ number(3 * i - 2) = tosses[i].height
                      /\ number(3 * i - 1) = tosses[i].pass
                      /\ number(3 * i) = tosses[i].siteswap
    OBVIOUS
  <2>1. i \in Int /\ GetToss(p, i - 1) = tosses[i]
    BY <1>2, <1>5
  <2>2. \A k : GetToss(p, (k - 1) \div 3) = tosses[i] =>
                 /\ k % 3 = 1 => number(k) = tosses[i].height
                 /\ k % 3 = 2 => number(k) = tosses[i].pass
                 /\ k % 3 = 0 => number(k) = tosses[i].siteswap
    BY DEF number
  <2>3. /\ (3 * i - 2) - 1 = 3 * i - 3 /\ (3 * i - 1) - 1 = 3 * i - 2
    BY <2>1
  <2>4. /\ (3 * i - 2) % 3 = 1 /\ ((3 * i - 2) - 1) \div 3 = i - 1
        /\ (3 * i - 1) % 3 = 2 /\ ((3 * i - 1) - 1) \div 3 = i - 1
        /\ (3 * i) % 3 = 0 /\ ((3 * i) - 1) \div 3 = i - 1
    BY <2>1, <2>3, TossInParcel
  <2> QED
    BY <2>1, <2>2, <2>4
<1>7. ints[1] = j /\ ints[2] = n /\ \A k \in 1 .. 3 * n : ints[k + 2] = number(k)
  <2>1. 3 * n \in Nat
    BY <1>2
  <2>2. head \o body = [k \in 1 .. 2 + 3 * n |-> IF k <= 2 THEN head[k] ELSE body[k - 2]]
    BY <1>2, <2>1
  <2>3. \A k \in 1 .. 3 * n : k + 2 \in 1 .. 2 + 3 * n /\ ~(k + 2 <= 2) /\ (k + 2) - 2 = k
    BY <2>1
  <2> QED
    BY <1>2, <1>3, <2>1, <2>2, <2>3
<1>8. \A i \in 1 .. n : [height |-> ints[3 * i], pass |-> ints[3 * i + 1],
                         siteswap |-> ints[3 * i + 2]] = tosses[i]
  <2> SUFFICES ASSUME NEW i \in 1 .. n
               PROVE  [height |-> ints[3 * i], pass |-> ints[3 * i + 1],
                       siteswap |-> ints[3 * i + 2]] = tosses[i]
    OBVIOUS
  <2>1. /\ (3 * i - 2) + 2 = 3 * i /\ (3 * i - 1) + 2 = 3 * i + 1
    BY <1>2
  <2>2. /\ ints[3 * i] = tosses[i].height /\ ints[3 * i + 1] = tosses[i].pass
        /\ ints[3 * i + 2] = tosses[i].siteswap
    BY <1>4, <1>6, <1>7, <2>1
  <2>3. tosses[i] \in AnyToss
    BY <1>2
  <2> QED
    BY <2>2, <2>3 DEF AnyToss
<1>9. tosses = [i \in 1 .. n |-> tosses[i]]
  BY <1>2
<1>10. CreateFromParcel(ints) = [jugglers |-> j, tosses |-> tosses]
  BY <1>7, <1>8, <1>9 DEF CreateFromParcel
<1> QED
  BY <1>1, <1>10 DEF p, ints

\* A row that has been rendered shows the tosses, whatever was in it.
LEMMA RenderedRow ==
    ASSUME NEW p, p.tosses \in Seq(AnyToss), NEW old
    PROVE  Render(old, p, Indices(p)) = [i \in DOMAIN p.tosses |-> Cell(p, p.tosses[i])]
<1>1. /\ PatternLength(p) \in Nat /\ DOMAIN p.tosses = 1 .. PatternLength(p)
  BY DEF PatternLength
<1>2. \A i \in 1 .. PatternLength(p) : i - 1 \in Indices(p) /\ (i - 1) + 1 = i
  BY <1>1 DEF Indices
<1> QED
  BY <1>1, <1>2 DEF Render, GetToss

\* There is a longest period.
LEMMA LongestPeriod == Max(Periods) \in Periods /\ \A k \in Periods : Max(Periods) >= k
<1> DEFINE above(k) == {j \in Periods : j > k}
           order == StrictSubsetOrdering(Periods)
<1>1. IsWellFoundedOn(order, FiniteSubsetsOf(Periods))
  BY FS_StrictSubsetOrderingWellFounded
<1>2. \A k \in Periods : k \in Int
  BY PeriodsAssumption
<1>3. {above(k) : k \in Periods} \subseteq FiniteSubsetsOf(Periods)
  <2>1. IsFiniteSet(1 .. 98)
    <3>1. 1 \in Int /\ 98 \in Int
      OBVIOUS
    <3> QED
      BY <3>1, FS_Interval
  <2>2. \A T \in SUBSET Periods : IsFiniteSet(T)
    BY <2>1, PeriodsAssumption, FS_Subset
  <2> QED
    BY <2>2 DEF FiniteSubsetsOf
<1>4. PICK T \in {above(k) : k \in Periods} :
          \A U \in {above(k) : k \in Periods} : <<U, T>> \notin order
  <2>1. {above(k) : k \in Periods} # {}
    BY PeriodsAssumption
  <2> HIDE DEF above, order
  <2> QED
    BY <1>1, <1>3, <2>1, WFMin
<1>5. PICK m \in Periods : T = above(m)
  OBVIOUS
<1>6. \A k \in Periods : m >= k
  <2> SUFFICES ASSUME NEW k \in Periods PROVE m >= k
    OBVIOUS
  <2>1. m \in Int /\ k \in Int
    BY <1>2
  <2>2. CASE k > m
    <3>1. above(k) \subseteq above(m) /\ k \in above(m) /\ k \notin above(k)
      <4>1. \A j \in Periods : j > k => j > m
        BY <1>2, <2>1, <2>2
      <4>2. ~(k > k)
        BY <2>1
      <4> QED
        BY <2>2, <4>1, <4>2
    <3>2. <<above(k), above(m)>> \in order
      BY <3>1 DEF StrictSubsetOrdering
    <3> QED
      BY <3>2, <1>4, <1>5
  <2> QED
    BY <2>1, <2>2
<1> QED
  BY <1>6 DEF Max

-----------------------------------------------------------------------------
(***************************************************************************)
(* The searches of the form.                                               *)
(***************************************************************************)

LEMMA GoodQueries == \A q \in Queries : GoodQuery(q)
<1> SUFFICES ASSUME NEW q \in Queries PROVE GoodQuery(q)
  OBVIOUS
<1>1. PICK m \in Nat : m = Max(Periods)
  <2>1. Max(Periods) \in 1 .. 98
    BY LongestPeriod, PeriodsAssumption
  <2>2. 1 .. 98 \subseteq Nat
    OBVIOUS
  <2> QED
    BY <2>1, <2>2
<1>2. /\ q.others \in Others /\ q.period \in Periods
      /\ q.minPasses \in 0 .. m + 1 /\ q.maxPasses \in 0 .. m + 1
  BY <1>1 DEF Queries
<1>3. q.others.jugglers \in Nat \ {0, 1} /\ q.others.objects \in Nat /\ q.others.maxHeight \in Nat
  BY <1>2, ParametersAssumption
<1>4. q.period \in Nat \ {0}
  <2>1. q.period \in 1 .. 98
    BY <1>2, PeriodsAssumption
  <2>2. 1 .. 98 \subseteq Nat \ {0}
    OBVIOUS
  <2> QED
    BY <2>1, <2>2
<1>5. q.minPasses \in Nat /\ q.maxPasses \in Nat
  <2>1. 0 .. m + 1 \subseteq Nat
    OBVIOUS
  <2> QED
    BY <1>2, <2>1
<1> QED
  BY <1>3, <1>4, <1>5 DEF GoodQuery

\* Every pattern that a search finds is a sequence of tosses.
THEOREM FoundIsTosses == FoundAreTosses
<1> SUFFICES ASSUME NEW q \in Queries, NEW f \in SiteswapOf(q) PROVE f \in Seq(AnyToss)
  BY DEF FoundAreTosses, Found
<1>1. GoodQuery(q)
  BY GoodQueries
<1>2. f \in Patterns(q)
  BY <1>1, FoundIsRotation DEF Chosen
<1>3. PICK P \in Nat \ {0} : P = q.period /\ Beats(q) = 1 .. P
  BY <1>1, BeatsAre
<1>4. Jugglers(q) \in Nat
  BY <1>1, BeatsAre
<1>5. \A t \in GoodTosses(q) : t \in AnyToss
  BY <1>4 DEF GoodTosses, AnyToss
<1>6. f \in [1 .. P -> GoodTosses(q)]
  BY <1>2, <1>3 DEF Patterns
<1>7. f \in [1 .. P -> AnyToss]
  BY <1>5, <1>6
<1> QED
  BY <1>7

\* HeightsAndPasses is PlainTosses.
LEMMA HeightsPlain == \A f : HeightsAndPasses(f) = PlainTosses(f)
BY DEF HeightsAndPasses, PlainTosses, Plain

\* The valid patterns for a query do not depend on the passes asked for.
LEMMA ReferenceIs ==
    ASSUME NEW q \in Queries
    PROVE  Reference[[others |-> q.others, period |-> q.period]] = PassingPatterns(q)
<1> DEFINE r == [others |-> q.others, period |-> q.period]
<1>1. r \in [others : Others, period : Periods]
  BY DEF Queries
<1>2. r.others = q.others /\ r.period = q.period
  OBVIOUS
<1> HIDE DEF r
<1>3. Beats(r) = Beats(q) /\ Jugglers(r) = Jugglers(q)
  BY <1>2 DEF Beats, Jugglers
<1>4. PossibleTosses(r) = PossibleTosses(q)
  BY <1>2, <1>3 DEF PossibleTosses
<1>5. \A i, t : LandsAt(r, i, t) = LandsAt(q, i, t)
  BY <1>2, <1>3 DEF LandsAt
<1>6. PassingPatterns(r) = PassingPatterns(q)
  BY <1>2, <1>3, <1>4, <1>5 DEF PassingPatterns
<1> QED
  BY <1>1, <1>6 DEF Reference, r

\* What SearchFindsPatterns says of a query.
LEMMA QueryFinds ==
    ASSUME NEW q \in Queries
    PROVE  LET found == {HeightsAndPasses(tosses) : tosses \in Found[q]}
               valid == Reference[[others |-> q.others, period |-> q.period]]
           IN  /\ UNION {Rotations(f) : f \in found} = {v \in valid : WithPasses(q, v)}
               /\ \A f, g \in found : g \in Rotations(f) => f = g
               /\ \A tosses \in Found[q] : \A i \in DOMAIN tosses :
                      (i + tosses[i].siteswap) % q.period = LandsAt(q, i, tosses[i])
<1> DEFINE found == {HeightsAndPasses(tosses) : tosses \in Found[q]}
           valid == Reference[[others |-> q.others, period |-> q.period]]
<1>1. GoodQuery(q)
  BY GoodQueries
<1>2. Found[q] = SiteswapOf(q) /\ valid = PassingPatterns(q)
  BY ReferenceIs DEF Found
<1>3. found = {PlainTosses(r) : r \in SiteswapOf(q)}
  BY <1>2, HeightsPlain
<1>4. UNION {Rotations(f) : f \in found} = {v \in valid : WithPasses(q, v)}
  <2> HIDE DEF found, valid
  <2> QED
    BY <1>1, <1>2, <1>3, SearchComplete
<1>5. \A f, g \in found : g \in Rotations(f) => f = g
  <2> HIDE DEF found
  <2> QED
    BY <1>1, <1>3, SearchOnce
<1>6. \A tosses \in Found[q] : \A i \in DOMAIN tosses :
          (i + tosses[i].siteswap) % q.period = LandsAt(q, i, tosses[i])
  BY <1>1, <1>2, SearchLands
<1> QED
  BY <1>4, <1>5, <1>6

\* The search screen asks for what the form can hold.
LEMMA QueryOfForm ==
    ASSUME FormInv, request # Null PROVE Query \in Queries
<1>1. Held \in GoodParameters \/ Held = FromBundle(saved)
  BY DEF FormInv, Held
<1>2. Query \in GoodParameters
  BY <1>1 DEF FormInv, Query
<1>3. Query \in [others : Others, period : Periods, minPasses : Nat, maxPasses : Nat]
  BY <1>2 DEF GoodParameters
<1>4. /\ Max(Periods) \in 1 .. 98 /\ Query.period \in 1 .. 98 /\ Max(Periods) >= Query.period
  BY <1>3, LongestPeriod, PeriodsAssumption
<1>5. /\ Query.minPasses \in 0 .. Query.period + 1 /\ Query.maxPasses \in 0 .. Query.period + 1
  BY <1>2, ParametersType
<1>6. /\ Query.minPasses \in 0 .. Max(Periods) + 1 /\ Query.maxPasses \in 0 .. Max(Periods) + 1
  BY <1>4, <1>5
<1> QED
  BY <1>3, <1>6 DEF Queries

\* Whatever the form asks for, choosing landing sites and raising the lowest throws
\* finds all passing patterns, no other and each in one rotation only, and with the
\* beats at which the throws land.
THEOREM SearchAlwaysFinds == ScreensSpec => []SearchFindsPatterns
<1>1. FormInv => SearchFindsPatterns
  <2> SUFFICES ASSUME FormInv, request # Null
               PROVE  LET found == {HeightsAndPasses(tosses) : tosses \in Found[Query]}
                          valid == Reference[[others |-> Query.others, period |-> Query.period]]
                      IN  /\ UNION {Rotations(f) : f \in found} = {v \in valid : WithPasses(Query, v)}
                          /\ \A f, g \in found : g \in Rotations(f) => f = g
                          /\ \A tosses \in Found[Query] : \A i \in DOMAIN tosses :
                                 (i + tosses[i].siteswap) % Query.period
                                   = LandsAt(Query, i, tosses[i])
    BY DEF SearchFindsPatterns
  <2>1. Query \in Queries
    BY QueryOfForm
  <2> QED
    BY <2>1, QueryFinds
<1> QED
  BY <1>1, FormInvariant, PTL

-----------------------------------------------------------------------------
(***************************************************************************)
(* The row and the details.                                                *)
(***************************************************************************)

\* What the DetailActivity shows is the pattern that was clicked on, by way of a
\* parcel, and the same siteswap as in the row.
DetailShowsRow ==
    detail # Null => detail.pattern = pattern /\ detail.siteswap = row

\* The row shows its pattern, the parcel holds it, and so do the details.
RowInv ==
    /\ pattern # Null =>
           /\ pattern = [jugglers |-> pattern.jugglers, tosses |-> pattern.tosses]
           /\ pattern.tosses \in Seq(AnyToss)
           /\ RowShowsPattern
    /\ parcel # Null => pattern # Null /\ parcel = WriteToParcel(pattern)
    /\ parcel = Null => detail = Null
    /\ DetailShowsRow

LEMMA RowInvStep == FormInv /\ RowInv /\ [ScreensNext]_vars => RowInv'
<1> SUFFICES ASSUME FormInv, RowInv, [ScreensNext]_vars PROVE RowInv'
  OBVIOUS
<1>1. CASE UNCHANGED patternVars
  BY <1>1 DEF patternVars, RowInv, RowShowsPattern, DetailShowsRow
<1>2. ASSUME request # Null, NEW tosses \in Found[Query], GetView(tosses) PROVE RowInv'
  <2>1. tosses \in Seq(AnyToss)
    <3>1. Query \in Queries
      BY <1>2, QueryOfForm
    <3> QED
      BY <1>2, <3>1, FoundIsTosses DEF FoundAreTosses
  <2>2. /\ pattern' = [jugglers |-> Jugglers(Query), tosses |-> tosses]
        /\ row' = Render(row, pattern', Indices(pattern'))
        /\ parcel = Null /\ parcel' = parcel /\ detail' = detail
    BY <1>2 DEF GetView, NewPattern
  <2>3. pattern'.tosses = tosses /\ pattern'.jugglers = Jugglers(Query)
    BY <2>2
  <2>4. row' = [i \in DOMAIN pattern'.tosses |-> Cell(pattern', pattern'.tosses[i])]
    BY <2>1, <2>2, <2>3, RenderedRow
  <2> QED
    BY <2>1, <2>2, <2>3, <2>4 DEF RowInv, RowShowsPattern, DetailShowsRow
<1>3. CASE OnItemClick
  BY <1>3 DEF OnItemClick, RowInv, RowShowsPattern, DetailShowsRow
<1>4. CASE DetailOnCreate
  <2>1. /\ pattern # Null /\ parcel = WriteToParcel(pattern)
        /\ pattern = [jugglers |-> pattern.jugglers, tosses |-> pattern.tosses]
        /\ pattern.tosses \in Seq(AnyToss)
        /\ row = [i \in DOMAIN pattern.tosses |-> Cell(pattern, pattern.tosses[i])]
    BY <1>4 DEF DetailOnCreate, RowInv, RowShowsPattern
  <2>2. CreateFromParcel(parcel) = pattern
    BY <2>1, ParcelRoundTrip DEF NewPattern, Jugglers
  <2>3. detail'.pattern = pattern /\ detail'.siteswap = Render(<<>>, pattern, Indices(pattern))
    BY <1>4, <2>2 DEF DetailOnCreate
  <2>4. detail'.siteswap = row
    BY <2>1, <2>3, RenderedRow
  <2>5. UNCHANGED <<pattern, row, parcel>> /\ parcel # Null
    BY <1>4 DEF DetailOnCreate
  <2> QED
    BY <2>3, <2>4, <2>5 DEF RowInv, RowShowsPattern, DetailShowsRow
<1>5. CASE DetailOnDestroy
  BY <1>5 DEF DetailOnDestroy, RowInv, RowShowsPattern, DetailShowsRow
<1>6. CASE DetailBack
  BY <1>6 DEF DetailBack, RowInv, RowShowsPattern, DetailShowsRow
<1>7. CASE SearchBack
  BY <1>7 DEF SearchBack, RowInv, RowShowsPattern, DetailShowsRow
<1> QED
  BY <1>1, <1>2, <1>3, <1>4, <1>5, <1>6, <1>7 DEF ScreensNext, vars

LEMMA InitRowInv == ScreensInit => RowInv
BY DEF ScreensInit, RowInv, RowShowsPattern, DetailShowsRow

LEMMA RowInvariant == ScreensSpec => []RowInv
<1>1. FormInv /\ RowInv /\ [ScreensNext]_vars => RowInv'
  BY RowInvStep
<1> QED
  BY <1>1, InitRowInv, FormInvariant, PTL DEF ScreensSpec

\* However often a row is recycled for a longer or a shorter pattern, it shows the
\* pattern it is bound to and nothing of an earlier one.
THEOREM RowAlwaysShowsPattern == ScreensSpec => []RowShowsPattern
<1>1. RowInv => RowShowsPattern
  BY DEF RowInv, RowShowsPattern
<1> QED
  BY <1>1, RowInvariant, PTL

\* The pattern comes out of the parcel as it went in, also when the activity is
\* destroyed and created again, and its siteswap looks as it did in the row.
THEOREM DetailAlwaysShowsRow == ScreensSpec => []DetailShowsRow
<1>1. RowInv => DetailShowsRow
  BY DEF RowInv
<1> QED
  BY <1>1, RowInvariant, PTL

(***************************************************************************)
(* Walks along a permutation.                                              *)
(***************************************************************************)

Permutes(s, I) ==
    /\ s \in [I -> I]
    /\ \A x, y \in I : s[x] = s[y] => x = y

Walks(h, s, I) == h \in [Nat -> I] /\ \A n \in Nat : h[n + 1] = s[h[n]]

Closed(C, s) == \A i \in C : s[i] \in C

\* Whoever walks along a permutation comes back.
LEMMA WalkReturns ==
    ASSUME NEW P \in Nat \ {0}, NEW I, IsFiniteSet(I), Cardinality(I) = P, NEW s, Permutes(s, I),
           NEW h, Walks(h, s, I)
    PROVE  \E n \in 1 .. P : h[n] = h[0]
<1> DEFINE g == [k \in 0 .. P |-> h[k]]
<1>1. IsFiniteSet(0 .. P) /\ Cardinality(0 .. P) = P + 1
  <2>1. 0 \in Int /\ P \in Int
    OBVIOUS
  <2>2. IsFiniteSet(0 .. P) /\ Cardinality(0 .. P) = IF 0 > P THEN 0 ELSE P - 0 + 1
    BY <2>1, FS_Interval
  <2> QED
    BY <2>2
<1>2. g \in [0 .. P -> I]
  BY DEF Walks
<1>3. PICK x \in 0 .. P, y \in 0 .. P : x # y /\ g[x] = g[y]
  <2>1. Cardinality(I) < Cardinality(0 .. P)
    BY <1>1
  <2> HIDE DEF g
  <2> QED
    BY <1>1, <1>2, <2>1, FS_PigeonHole
<1>4. PICK a \in 0 .. P, b \in 0 .. P : a < b /\ h[a] = h[b]
  <2>1. CASE x < y
    BY <1>3, <2>1
  <2>2. CASE y < x
    BY <1>3, <2>2
  <2> QED
    BY <1>3, <2>1, <2>2
<1> DEFINE Good == {k \in 0 .. a : h[a - k] = h[b - k]}
<1>5. 0 \in Good
  BY <1>4
<1>6. ASSUME NEW k \in 0 .. a - 1, k \in Good PROVE k + 1 \in Good
  <2>1. PICK c \in Nat, d \in Nat : c = a - (k + 1) /\ d = b - (k + 1)
    BY <1>4
  <2>2. c + 1 = a - k /\ d + 1 = b - k
    BY <2>1
  <2>3. s[h[c]] = s[h[d]]
    BY <1>6, <2>2 DEF Walks
  <2>4. h[c] = h[d]
    BY <2>3 DEF Walks, Permutes
  <2> QED
    BY <2>1, <2>4
<1>7. a \in Good
  <2>1. \A k \in 0 .. a - 1 : k \in Good => k + 1 \in Good
    BY <1>6
  <2>2. a \in Nat
    OBVIOUS
  <2> HIDE DEF Good
  <2>3. 0 .. a \subseteq Good
    BY <1>5, <2>1, <2>2, UpTo
  <2> QED
    BY <2>2, <2>3
<1>8. h[0] = h[b - a] /\ b - a \in 1 .. P
  BY <1>4, <1>7
<1> QED
  BY <1>8

\* What a walk sees up to its return is closed, and the least that is.
LEMMA WalkCloses ==
    ASSUME NEW I, NEW s, Permutes(s, I), NEW h, Walks(h, s, I),
           NEW back \in Nat \ {0}, h[back] = h[0]
    PROVE  /\ h[0] \in {h[n] : n \in 0 .. back - 1}
           /\ {h[n] : n \in 0 .. back - 1} \subseteq I
           /\ Closed({h[n] : n \in 0 .. back - 1}, s)
           /\ \A C \in SUBSET I :
                  Closed(C, s) /\ h[0] \in C => {h[n] : n \in 0 .. back - 1} \subseteq C
<1> DEFINE O == {h[n] : n \in 0 .. back - 1}
<1>1. h[0] \in O /\ O \subseteq I
  BY DEF Walks
<1>2. ASSUME NEW n \in 0 .. back - 1 PROVE s[h[n]] \in O
  <2>1. n \in Nat /\ s[h[n]] = h[n + 1]
    BY DEF Walks
  <2>2. CASE n = back - 1
    BY <1>1, <2>1, <2>2
  <2>3. CASE n # back - 1
    <3>1. n + 1 \in 0 .. back - 1
      BY <2>3
    <3> QED
      BY <2>1, <3>1
  <2> QED
    BY <2>2, <2>3
<1>3. ASSUME NEW C \in SUBSET I, Closed(C, s), h[0] \in C PROVE O \subseteq C
  <2> DEFINE Good == {n \in Nat : h[n] \in C}
  <2>1. 0 \in Good
    BY <1>3
  <2>2. \A n \in Nat : n \in Good => n + 1 \in Good
    BY <1>3 DEF Closed, Walks
  <2>3. Nat \subseteq Good
    <3> HIDE DEF Good
    <3> QED
      BY <2>1, <2>2, Upwards
  <2> QED
    BY <2>3
<1> QED
  BY <1>1, <1>2, <1>3 DEF Closed

\* What is left by a closed set is closed.
LEMMA RestCloses ==
    ASSUME NEW I, IsFiniteSet(I), NEW s, Permutes(s, I), NEW C \in SUBSET I, Closed(C, s)
    PROVE  Closed(I \ C, s)
<1> DEFINE r == [i \in C |-> s[i]]
<1>1. IsFiniteSet(C)
  BY FS_Subset
<1>2. r \in [C -> C] /\ \A x, y \in C : r[x] = r[y] => x = y
  BY DEF Closed, Permutes
<1>3. \A y \in C : \E x \in C : r[x] = y
  <2> HIDE DEF r
  <2> QED
    BY <1>1, <1>2, InjectiveIsBijective
<1>4. ASSUME NEW i \in I \ C PROVE s[i] \in I \ C
  <2>1. s[i] \in I
    BY DEF Permutes
  <2>2. ASSUME s[i] \in C PROVE FALSE
    <3>1. PICK x \in C : s[x] = s[i]
      BY <1>3, <2>2
    <3> QED
      BY <3>1 DEF Permutes
  <2> QED
    BY <2>1, <2>2
<1> QED
  BY <1>4 DEF Closed

(***************************************************************************)
(* The walk along the siteswaps of a pattern.                              *)
(***************************************************************************)

NextAt(p) == [i \in Indices(p) |-> (i + GetToss(p, i).siteswap) % PatternLength(p)]
HeightsAt(p) == [i \in Indices(p) |-> GetToss(p, i).height]

\* The pattern of a search, as the screens have it.
SearchedFor(p, q, f) == GoodQuery(q) /\ f \in Patterns(q) /\ p = NewPattern(q, f)

LEMMA DetailsOf ==
    ASSUME NEW q, NEW f, NEW p, SearchedFor(p, q, f)
    PROVE  /\ q.period \in Nat \ {0} /\ PatternLength(p) = q.period
           /\ Indices(p) = 0 .. q.period - 1
           /\ IsFiniteSet(Indices(p)) /\ Cardinality(Indices(p)) = q.period
           /\ \A i \in Indices(p) : /\ i \in Int /\ i + 1 \in 1 .. q.period
                                    /\ GetToss(p, i) = f[i + 1]
<1>1. GoodQuery(q) /\ f \in Patterns(q) /\ p.tosses = f
  BY DEF SearchedFor, NewPattern
<1>2. PICK P \in Nat \ {0} : P = q.period
  BY <1>1, BeatsAre
<1>3. Cycle(f, P)
  BY <1>1, <1>2, PatternIs
<1>4. Len(f) = P
  BY <1>3, CycleIs
<1>5. PatternLength(p) = P /\ Indices(p) = 0 .. P - 1
  BY <1>1, <1>4 DEF PatternLength, Indices
<1>6. IsFiniteSet(0 .. P - 1) /\ Cardinality(0 .. P - 1) = P
  <2>1. 0 \in Int /\ P - 1 \in Int
    OBVIOUS
  <2>2. IsFiniteSet(0 .. P - 1) /\ Cardinality(0 .. P - 1) = IF 0 > P - 1 THEN 0 ELSE (P - 1) - 0 + 1
    BY <2>1, FS_Interval
  <2> QED
    BY <2>2
<1>7. \A i \in 0 .. P - 1 : i \in Int /\ i + 1 \in 1 .. P
  OBVIOUS
<1> QED
  BY <1>1, <1>2, <1>5, <1>6, <1>7 DEF GetToss

LEMMA NextPermutes ==
    ASSUME NEW q, NEW f, NEW p, SearchedFor(p, q, f)
    PROVE  Permutes(NextAt(p), Indices(p))
<1>1. PICK P \in Nat \ {0} : /\ P = q.period /\ PatternLength(p) = P /\ Indices(p) = 0 .. P - 1
                             /\ \A i \in Indices(p) : i \in Int /\ i + 1 \in 1 .. P
                                                      /\ GetToss(p, i) = f[i + 1]
  BY DetailsOf
<1>2. GoodQuery(q) /\ f \in Patterns(q)
  BY DEF SearchedFor
<1>3. \A i \in Indices(p) : f[i + 1].siteswap \in Int
  BY <1>1, <1>2, PatternIs
<1>4. \A i \in Indices(p) : NextAt(p)[i] = (i + f[i + 1].siteswap) % P
  BY <1>1 DEF NextAt
<1>5. NextAt(p) \in [Indices(p) -> Indices(p)]
  <2> SUFFICES ASSUME NEW i \in Indices(p)
               PROVE  (i + GetToss(p, i).siteswap) % PatternLength(p) \in Indices(p)
    BY DEF NextAt
  <2>1. PICK a \in Int : a = i + f[i + 1].siteswap
    BY <1>1, <1>3
  <2>2. a % P \in 0 .. P - 1
    BY DivMod
  <2> QED
    BY <1>1, <2>1, <2>2
<1>6. ASSUME NEW x \in Indices(p), NEW y \in Indices(p), NextAt(p)[x] = NextAt(p)[y] PROVE x = y
  <2>1. PICK a \in Int, c \in Int : a = x + f[x + 1].siteswap /\ c = y + f[y + 1].siteswap
    <3>1. PICK u \in Int, v \in Int : u = x /\ v = y
      BY <1>1
    <3>2. PICK w \in Int, z \in Int : w = f[x + 1].siteswap /\ z = f[y + 1].siteswap
      BY <1>3
    <3>3. u + w \in Int /\ v + z \in Int
      OBVIOUS
    <3> QED
      BY <3>1, <3>2, <3>3
  <2>2. a % P = c % P
    BY <1>4, <1>6, <2>1
  <2>3. PICK k \in Int : a = c + P * k
    <3>1. \E k \in Int : a = c + P * k
      BY <2>2, ModuloSame
    <3> QED
      BY <3>1
  <2>4. PICK b \in Int, d \in Int : b = a + 1 /\ d = c + 1 /\ b = d + P * k
    BY <2>1, <2>3
  <2>5. b % P = d % P
    <3>1. (d + P * k) % P = d % P
      BY SameModulo
    <3> QED
      BY <2>4, <3>1
  <2>6. PICK u \in 1 .. P, v \in 1 .. P : u = x + 1 /\ v = y + 1
    BY <1>1
  <2>7. b = u + f[u].siteswap /\ d = v + f[v].siteswap
    <3>1. PICK x0 \in Int, y0 \in Int, s \in Int, t \in Int :
              x0 = x /\ y0 = y /\ s = f[x + 1].siteswap /\ t = f[y + 1].siteswap
      BY <1>1, <1>3
    <3>2. a = x0 + s /\ c = y0 + t /\ u = x0 + 1 /\ v = y0 + 1
      BY <2>1, <2>6, <3>1
    <3>3. f[u].siteswap = s /\ f[v].siteswap = t
      BY <2>6, <3>1
    <3>4. b = u + s /\ d = v + t
      BY <2>4, <3>2
    <3> QED
      BY <3>3, <3>4
  <2>8. LandsAt(q, u, f[u]) = LandsAt(q, v, f[v])
    <3>1. (u + f[u].siteswap) % P = LandsAt(q, u, f[u])
      BY <1>1, <1>2, PatternLands
    <3>2. (v + f[v].siteswap) % P = LandsAt(q, v, f[v])
      BY <1>1, <1>2, PatternLands
    <3> QED
      BY <2>5, <2>7, <3>1, <3>2
  <2>9. u = v
    <3>1. Beats(q) = 1 .. P
      BY <1>1, <1>2, BeatsAre
    <3> QED
      BY <1>2, <2>8, <3>1 DEF Patterns
  <2> QED
    BY <1>1, <2>6, <2>9
<1> QED
  BY <1>5, <1>6 DEF Permutes

\* How high a throw is and how far it goes differ by whole periods.
LEMMA HeightAlongWalk ==
    ASSUME NEW q, NEW f, NEW p, SearchedFor(p, q, f), NEW i \in Indices(p)
    PROVE  /\ HeightsAt(p)[i] \in Int /\ NextAt(p)[i] \in Int
           /\ \E w \in Int : HeightsAt(p)[i] = Jugglers(q) * (NextAt(p)[i] - i) + q.period * w
<1>1. PICK P \in Nat \ {0} : P = q.period /\ PatternLength(p) = P /\ P \in Int
  BY DetailsOf
<1>2. GoodQuery(q) /\ f \in Patterns(q)
  BY DEF SearchedFor
<1>3. PICK j \in Int : j = Jugglers(q)
  BY <1>2, BeatsAre
<1>4. PICK t : t = GetToss(p, i) /\ t.height \in Int /\ t.pass \in Int /\ t.siteswap \in Int
               /\ \E L \in Int : LandsAfter(q, t, L)
  BY <1>1, <1>2, DetailsOf, PatternIs
<1>5. PICK L \in Int : LandsAfter(q, t, L)
  BY <1>4
<1>6. PICK c \in {0, 1} : t.siteswap = L + P * c
  <2>1. P * 0 = 0 /\ P * 1 = P
    BY <1>1
  <2> QED
    BY <1>1, <1>5, <2>1 DEF LandsAfter
<1>7. PICK x \in Int : x = i
  BY DetailsOf
<1>8. PICK a \in Int, r \in Int, d \in Int : a = x + t.siteswap /\ a = P * d + r /\ r = a % P
  <2>1. PICK a \in Int : a = x + t.siteswap
    BY <1>4
  <2>2. a = P * (a \div P) + (a % P) /\ a \div P \in Int /\ a % P \in 0 .. P - 1
    BY DivMod
  <2>3. PICK d \in Int, r \in Int : d = a \div P /\ r = a % P
    BY <2>2
  <2>4. a = P * d + r
    BY <2>2, <2>3
  <2> QED
    BY <2>1, <2>3, <2>4
<1>9. NextAt(p)[i] = r
  BY <1>1, <1>4, <1>7, <1>8 DEF NextAt
<1>10. PICK k \in Int : k = d - c
  OBVIOUS
<1>11. L = r - x + P * k
  <2>1. PICK y \in Int, z \in Int, v \in Int : y = P * c /\ z = P * d /\ v = P * k
    <3>1. c \in Int
      OBVIOUS
    <3> QED
      BY <3>1
  <2>2. v = z - y
    <3>1. c \in Int /\ P * (d - c) = P * d - P * c
      OBVIOUS
    <3> QED
      BY <1>10, <2>1, <3>1
  <2>3. PICK t0 \in Int : t0 = t.siteswap
    BY <1>4
  <2>4. t0 = L + y /\ a = x + t0 /\ a = z + r
    BY <1>6, <1>8, <2>1, <2>3
  <2>5. L = r - x + v
    BY <2>2, <2>4
  <2> QED
    BY <2>1, <2>5
<1>12. PICK g \in Int, u \in Int : g = t.pass /\ u = j * k
  BY <1>4
<1>13. PICK w \in Int : w = u + g
  OBVIOUS
<1>14. t.height = j * (r - x) + P * w
  <2>1. t.height = j * L + P * g
    BY <1>1, <1>3, <1>5, <1>12 DEF LandsAfter
  <2>2. j * L = j * (r - x) + P * u
    <3>1. PICK y \in Int : y = r - x
      OBVIOUS
    <3>2. j * (y + P * k) = j * y + P * (j * k)
      OBVIOUS
    <3> QED
      BY <1>11, <1>12, <3>1, <3>2
  <2>3. P * (u + g) = P * u + P * g /\ P * u \in Int /\ P * g \in Int /\ j * (r - x) \in Int
    OBVIOUS
  <2> QED
    BY <1>13, <2>1, <2>2, <2>3
<1> QED
  BY <1>1, <1>3, <1>4, <1>7, <1>9, <1>14 DEF HeightsAt

\* The clubs of throws that lead to one another.
LEMMA ClosedHeights ==
    ASSUME NEW q, NEW f, NEW p, SearchedFor(p, q, f), NEW C \in SUBSET Indices(p),
           Closed(C, NextAt(p))
    PROVE  \E n \in Int : Sum(HeightsAt(p), C) = q.period * n
<1> DEFINE next == NextAt(p)
           h == HeightsAt(p)
           far == [i \in C |-> next[i] - i]
           id == [i \in C |-> i]
           jfar == [i \in C |-> Jugglers(q) * far[i]]
           w == [i \in C |-> CHOOSE w \in Int : h[i] = Jugglers(q) * far[i] + q.period * w]
           pw == [i \in C |-> q.period * w[i]]
<1>1. PICK j \in Int, P \in Nat \ {0} : j = Jugglers(q) /\ P = q.period /\ P \in Int
  <2>1. GoodQuery(q)
    BY DEF SearchedFor
  <2> QED
    BY <2>1, BeatsAre
<1>2. IsFiniteSet(C) /\ \A i \in C : i \in Indices(p) /\ i \in Int
  BY DetailsOf, FS_Subset
<1>3. \A i \in C : /\ h[i] \in Int /\ next[i] \in Int /\ far[i] = next[i] - i /\ far[i] \in Int
                   /\ \E v \in Int : h[i] = Jugglers(q) * far[i] + q.period * v
  <2> SUFFICES ASSUME NEW i \in C
               PROVE  /\ h[i] \in Int /\ next[i] \in Int /\ far[i] = next[i] - i /\ far[i] \in Int
                      /\ \E v \in Int : h[i] = Jugglers(q) * far[i] + q.period * v
    OBVIOUS
  <2>1. far[i] = next[i] - i
    OBVIOUS
  <2> HIDE DEF far
  <2>2. /\ h[i] \in Int /\ next[i] \in Int
        /\ \E v \in Int : h[i] = Jugglers(q) * (next[i] - i) + q.period * v
    BY <1>2, HeightAlongWalk
  <2> QED
    BY <1>2, <2>1, <2>2
<1> HIDE DEF far
<1>4. \A i \in C : w[i] \in Int /\ h[i] = j * far[i] + P * w[i]
  BY <1>1, <1>3
<1> HIDE DEF w
<1>5. \A i \in C : /\ jfar[i] = j * far[i] /\ pw[i] = P * w[i]
                   /\ jfar[i] \in Int /\ pw[i] \in Int /\ h[i] = jfar[i] + pw[i]
  <2> SUFFICES ASSUME NEW i \in C
               PROVE  /\ jfar[i] = j * far[i] /\ pw[i] = P * w[i]
                      /\ jfar[i] \in Int /\ pw[i] \in Int /\ h[i] = jfar[i] + pw[i]
    OBVIOUS
  <2>1. PICK a \in Int, b \in Int : a = far[i] /\ b = w[i]
    BY <1>3, <1>4
  <2>2. j * a \in Int /\ P * b \in Int
    OBVIOUS
  <2>3. jfar[i] = j * a /\ pw[i] = P * b
    BY <1>1, <2>1
  <2> QED
    BY <1>4, <2>1, <2>2, <2>3
<1>6. \A i \in C : id[i] = i /\ id[i] \in Int
  BY <1>2
<1> HIDE DEF jfar, pw, id
<1>7. Sum(h, C) = Sum(jfar, C) + Sum(pw, C)
  BY <1>2, <1>5, SumPlus
<1>8. Sum(jfar, C) = j * Sum(far, C)
  BY <1>2, <1>3, <1>5, SumTimes
<1>9. Sum(pw, C) = P * Sum(w, C) /\ Sum(w, C) \in Int
  BY <1>1, <1>2, <1>4, <1>5, SumTimes, SumInt
<1>10. Sum(next, C) = Sum(far, C) + Sum(id, C) /\ Sum(far, C) \in Int /\ Sum(id, C) \in Int
  <2>1. \A i \in C : far[i] \in Int /\ id[i] \in Int /\ next[i] = far[i] + id[i]
    BY <1>2, <1>3, <1>6
  <2>2. Sum(next, C) = Sum(far, C) + Sum(id, C)
    BY <1>2, <2>1, SumPlus
  <2>3. Sum(far, C) \in Int /\ Sum(id, C) \in Int
    BY <1>2, <2>1, SumInt
  <2> QED
    BY <2>2, <2>3
<1>11. Sum(id, C) = Sum(next, C)
  <2>1. Permutes(next, Indices(p))
    BY NextPermutes
  <2> DEFINE r == [i \in C |-> next[i]]
  <2>2. r \in [C -> C] /\ \A x, y \in C : r[x] = r[y] => x = y
    BY <2>1 DEF Closed, Permutes
  <2>3. \A i \in C : r[i] = next[i]
    OBVIOUS
  <2> HIDE DEF r
  <2>4. \A y \in C : \E x \in C : r[x] = y
    BY <1>2, <2>2, InjectiveIsBijective
  <2>5. \A i \in C : id[r[i]] = r[i]
    BY <1>6, <2>2
  <2>6. \A i \in C : r[i] \in C /\ id[r[i]] \in Int /\ next[i] = id[r[i]]
    BY <1>2, <2>2, <2>3, <2>5
  <2>7. Matches(r, C, next, C, id)
    BY <2>2, <2>4, <2>6 DEF Matches
  <2> QED
    BY <1>2, <2>7, SumImage
<1>12. Sum(far, C) = 0
  BY <1>10, <1>11
<1>13. j * 0 = 0
  OBVIOUS
<1> QED
  BY <1>1, <1>7, <1>8, <1>9, <1>12, <1>13

LEMMA LeastOf ==
    ASSUME NEW S \in SUBSET Nat, S # {}
    PROVE  Min(S) \in S
<1>1. \E m \in S : \A k \in S : m <= k
  BY LeastNumber
<1> QED
  BY <1>1 DEF Min

\* The walk from a beat, as OrbitFrom has it.
WalkEq(g, p, start) ==
    g = [n \in Nat |-> IF n = 0 THEN start
                       ELSE (g[n - 1] + GetToss(p, g[n - 1]).siteswap) % PatternLength(p)]

\* What the walk g sees until it is back.
Seen(g, p, start) ==
    {g[n] : n \in 0 .. Min({n \in 1 .. PatternLength(p) : g[n] = start}) - 1}

LEMMA OrbitDef ==
    ASSUME NEW p, NEW start
    PROVE  OrbitFrom(p, start) = Seen(CHOOSE g : WalkEq(g, p, start), p, start)
BY DEF OrbitFrom, WalkEq, Seen

LEMMA WalkExists ==
    ASSUME NEW q, NEW f, NEW p, SearchedFor(p, q, f), NEW start \in Indices(p)
    PROVE  \E g : WalkEq(g, p, start)
<1> DEFINE I == Indices(p)
           next == NextAt(p)
           step == [n \in Nat |-> [i \in I |-> next[i]]]
<1>1. next \in [I -> I]
  BY NextPermutes DEF Permutes
<1>2. step \in [Nat -> [I -> I]]
  BY <1>1
<1>3. \A n \in Nat : \A i \in I : step[n][i] = next[i]
  OBVIOUS
<1> HIDE DEF step
<1>h. PICK h : Follows(h, step, start, I)
  <2> HIDE DEF I
  <2>1. start \in I
    BY DEF I
  <2> QED
    BY <1>2, <2>1, Iterates
<1>4. h \in [Nat -> I] /\ h[0] = start /\ \A n \in Nat : h[n + 1] = step[n][h[n]]
  BY <1>h DEF Follows
<1>5. ASSUME NEW n \in Nat
      PROVE  h[n] = IF n = 0 THEN start
                    ELSE (h[n - 1] + GetToss(p, h[n - 1]).siteswap) % PatternLength(p)
  <2>1. CASE n = 0
    BY <1>4, <2>1
  <2>2. CASE n # 0
    <3>1. PICK m \in Nat : m = n - 1 /\ n = m + 1
      BY <2>2
    <3>2. h[m] \in I /\ h[n] = next[h[m]]
      BY <1>3, <1>4, <3>1
    <3>3. next[h[m]] = (h[m] + GetToss(p, h[m]).siteswap) % PatternLength(p)
      BY <3>2 DEF NextAt
    <3> QED
      BY <2>2, <3>1, <3>2, <3>3
  <2> QED
    BY <2>1, <2>2
<1>6. h = [n \in Nat |-> h[n]]
  BY <1>4
<1>7. WalkEq(h, p, start)
  BY <1>5, <1>6 DEF WalkEq
<1> QED
  BY <1>7

LEMMA WalkIsWalk ==
    ASSUME NEW q, NEW f, NEW p, SearchedFor(p, q, f), NEW start \in Indices(p),
           NEW g, WalkEq(g, p, start)
    PROVE  Walks(g, NextAt(p), Indices(p)) /\ g[0] = start
<1> DEFINE Good == {n \in Nat : g[n] \in Indices(p)}
           next == NextAt(p)
<1>1. g[0] = start
  BY DEF WalkEq
<1>2. \A n \in Nat : g[n + 1] = (g[n] + GetToss(p, g[n]).siteswap) % PatternLength(p)
  <2> SUFFICES ASSUME NEW n \in Nat
               PROVE  g[n + 1] = (g[n] + GetToss(p, g[n]).siteswap) % PatternLength(p)
    OBVIOUS
  <2>1. PICK m \in Nat : m = n + 1 /\ m # 0 /\ m - 1 = n
    OBVIOUS
  <2>2. g[m] = (g[m - 1] + GetToss(p, g[m - 1]).siteswap) % PatternLength(p)
    BY <2>1 DEF WalkEq
  <2> QED
    BY <2>1, <2>2
<1>3. \A n \in Nat : g[n] \in Indices(p) => g[n + 1] = next[g[n]]
  BY <1>2 DEF NextAt
<1>4. next \in [Indices(p) -> Indices(p)]
  BY NextPermutes DEF Permutes
<1>5. Nat \subseteq Good
  <2>1. 0 \in Good
    BY <1>1
  <2>2. \A n \in Nat : n \in Good => n + 1 \in Good
    BY <1>3, <1>4
  <2> HIDE DEF Good
  <2> QED
    BY <2>1, <2>2, Upwards
<1>6. g = [n \in Nat |-> g[n]]
  BY DEF WalkEq
<1>7. g \in [Nat -> Indices(p)]
  BY <1>5, <1>6
<1>8. \A n \in Nat : g[n + 1] = next[g[n]]
  BY <1>3, <1>5
<1> QED
  BY <1>1, <1>7, <1>8 DEF Walks

\* An orbit is the least set of throws that lead to one another from where it starts.
LEMMA OrbitIs ==
    ASSUME NEW q, NEW f, NEW p, SearchedFor(p, q, f), NEW start \in Indices(p)
    PROVE  /\ start \in OrbitFrom(p, start) /\ OrbitFrom(p, start) \subseteq Indices(p)
           /\ Closed(OrbitFrom(p, start), NextAt(p))
           /\ \A C \in SUBSET Indices(p) :
                  Closed(C, NextAt(p)) /\ start \in C => OrbitFrom(p, start) \subseteq C
<1>1. PICK g : g = (CHOOSE k : WalkEq(k, p, start)) /\ WalkEq(g, p, start)
  BY WalkExists
<1> DEFINE back == Min({n \in 1 .. PatternLength(p) : g[n] = start})
<1>2. Walks(g, NextAt(p), Indices(p)) /\ g[0] = start
  BY <1>1, WalkIsWalk
<1>3. PICK P \in Nat \ {0} : /\ PatternLength(p) = P /\ IsFiniteSet(Indices(p))
                             /\ Cardinality(Indices(p)) = P
  BY DetailsOf
<1>4. Permutes(NextAt(p), Indices(p))
  BY NextPermutes
<1>5. \E n \in 1 .. P : g[n] = g[0]
  BY <1>2, <1>3, <1>4, WalkReturns
<1>6. back \in {n \in 1 .. P : g[n] = start}
  <2> DEFINE S == {n \in 1 .. P : g[n] = start}
  <2>1. S \in SUBSET Nat /\ S # {}
    BY <1>2, <1>5
  <2>2. back = Min(S)
    BY <1>3
  <2> HIDE DEF back, S
  <2>3. Min(S) \in S
    BY <2>1, LeastOf
  <2> QED
    BY <2>2, <2>3 DEF S
<1>7. OrbitFrom(p, start) = {g[n] : n \in 0 .. back - 1}
  <2>1. OrbitFrom(p, start) = Seen(g, p, start)
    BY <1>1, OrbitDef
  <2> QED
    BY <2>1 DEF Seen
<1> HIDE DEF back
<1>8. back \in Nat \ {0} /\ g[back] = g[0]
  BY <1>2, <1>6
<1> QED
  BY <1>2, <1>4, <1>7, <1>8, WalkCloses

(***************************************************************************)
(* The orbits of a pattern.                                                *)
(***************************************************************************)

NextOrbit(p, taken) == OrbitFrom(p, Min(Indices(p) \ taken))

\* One more round of GetOrbits, when g has the orbits that are left after it.
Round(g, p, taken) ==
    IF taken = Indices(p) THEN <<>> ELSE <<NextOrbit(p, taken)>> \o g[taken \cup NextOrbit(p, taken)]

OrbitsEq(g, p) ==
    g = [taken \in SUBSET Indices(p) |->
            IF taken = Indices(p) THEN <<>>
            ELSE <<NextOrbit(p, taken)>> \o g[taken \cup NextOrbit(p, taken)]]

LEMMA OrbitsDef ==
    ASSUME NEW p
    PROVE  GetOrbits(p) = (CHOOSE g : OrbitsEq(g, p))[{}]
BY DEF GetOrbits, OrbitsEq, NextOrbit

\* A round takes an orbit with a beat that is not taken yet.
LEMMA NextOrbitIs ==
    ASSUME NEW q, NEW f, NEW p, SearchedFor(p, q, f), NEW taken \in SUBSET Indices(p),
           taken # Indices(p)
    PROVE  /\ NextOrbit(p, taken) \in SUBSET Indices(p)
           /\ Closed(NextOrbit(p, taken), NextAt(p))
           /\ \E x \in Indices(p) \ taken : x \in NextOrbit(p, taken)
           /\ Closed(Indices(p) \ taken, NextAt(p))
                => NextOrbit(p, taken) \subseteq Indices(p) \ taken
<1> DEFINE rest == Indices(p) \ taken
<1>1. Min(rest) \in rest
  <2>1. rest \in SUBSET Nat /\ rest # {}
    <3>1. PICK P \in Nat \ {0} : Indices(p) = 0 .. P - 1
      BY DetailsOf
    <3>2. 0 .. P - 1 \subseteq Nat
      OBVIOUS
    <3> QED
      BY <3>1, <3>2
  <2> HIDE DEF rest
  <2> QED
    BY <2>1, LeastOf
<1>2. PICK start \in Indices(p) : start = Min(rest) /\ start \in rest
  BY <1>1
<1>3. NextOrbit(p, taken) = OrbitFrom(p, start)
  BY <1>2 DEF NextOrbit
<1> HIDE DEF rest
<1>4. rest \in SUBSET Indices(p)
  BY DEF rest
<1>5. /\ start \in NextOrbit(p, taken) /\ NextOrbit(p, taken) \subseteq Indices(p)
      /\ Closed(NextOrbit(p, taken), NextAt(p))
      /\ \A C \in SUBSET Indices(p) :
             Closed(C, NextAt(p)) /\ start \in C => NextOrbit(p, taken) \subseteq C
  BY <1>3, OrbitIs
<1>6. Closed(rest, NextAt(p)) => NextOrbit(p, taken) \subseteq rest
  BY <1>2, <1>4, <1>5
<1>7. start \in Indices(p) \ taken
  BY <1>2 DEF rest
<1> QED
  BY <1>5, <1>6, <1>7 DEF rest

Steps(step, v0, V) == v0 \in V /\ step \in [Nat -> [V -> V]]

LEMMA StepsAreFollowed ==
    ASSUME NEW V, NEW v0, NEW step, Steps(step, v0, V)
    PROVE  \E h : Follows(h, step, v0, V)
<1>1. v0 \in V /\ step \in [Nat -> [V -> V]]
  BY DEF Steps
<1> QED
  BY <1>1, Iterates

LEMMA OrbitsExist ==
    ASSUME NEW q, NEW f, NEW p, SearchedFor(p, q, f)
    PROVE  \E g : OrbitsEq(g, p)
<1> DEFINE I == Indices(p)
           V == [SUBSET I -> Seq(SUBSET I)]
           none == [taken \in SUBSET I |-> <<>>]
           step == [n \in Nat |-> [g \in V |-> [taken \in SUBSET I |-> Round(g, p, taken)]]]
<1>1. ASSUME NEW g \in V, NEW taken \in SUBSET I PROVE Round(g, p, taken) \in Seq(SUBSET I)
  <2>1. CASE taken = I
    BY <2>1 DEF Round
  <2>2. CASE taken # I
    <3>1. NextOrbit(p, taken) \in SUBSET I
      BY <2>2, NextOrbitIs
    <3>2. taken \cup NextOrbit(p, taken) \in SUBSET I
      BY <3>1
    <3>3. PICK s \in Seq(SUBSET I) : s = g[taken \cup NextOrbit(p, taken)]
      BY <3>2
    <3>4. <<NextOrbit(p, taken)>> \o s \in Seq(SUBSET I)
      BY <3>1
    <3> QED
      BY <2>2, <3>3, <3>4 DEF Round
  <2> QED
    BY <2>1, <2>2
<1>2. none \in V /\ step \in [Nat -> [V -> V]]
  <2>1. none \in V
    OBVIOUS
  <2>2. \A g \in V : [taken \in SUBSET I |-> Round(g, p, taken)] \in V
    BY <1>1
  <2> HIDE DEF V
  <2>3. [g \in V |-> [taken \in SUBSET I |-> Round(g, p, taken)]] \in [V -> V]
    BY <2>2
  <2> QED
    BY <2>1, <2>3
<1>3. PICK h : Follows(h, step, none, V)
  <2> HIDE DEF V, none, step
  <2>1. Steps(step, none, V)
    BY <1>2 DEF Steps
  <2> QED
    BY <2>1, StepsAreFollowed
<1>4. \A n \in Nat : \A taken \in SUBSET I : h[n + 1][taken] = Round(h[n], p, taken)
  <2>1. h \in [Nat -> V] /\ \A n \in Nat : h[n + 1] = step[n][h[n]]
    BY <1>3 DEF Follows
  <2>2. \A n \in Nat : \A g \in V : step[n][g] = [taken \in SUBSET I |-> Round(g, p, taken)]
    OBVIOUS
  <2> HIDE DEF V, step
  <2>3. \A n \in Nat : h[n + 1] = [taken \in SUBSET I |-> Round(h[n], p, taken)]
    BY <2>1, <2>2
  <2> QED
    BY <2>3
<1>5. PICK P \in Nat \ {0} : P = Cardinality(I) /\ IsFiniteSet(I)
  BY DetailsOf
<1> DEFINE Good == {k \in Nat : \A taken \in SUBSET I :
                       Cardinality(I \ taken) <= k => h[k + 2][taken] = h[k + 1][taken]}
<1> HIDE DEF V, none, step
<1>6. 0 \in Good
  <2> SUFFICES ASSUME NEW taken \in SUBSET I, Cardinality(I \ taken) <= 0
               PROVE  h[0 + 2][taken] = h[0 + 1][taken]
    OBVIOUS
  <2>1. IsFiniteSet(I \ taken)
    BY <1>5, FS_Subset
  <2>2. Cardinality(I \ taken) \in Nat
    BY <2>1, FS_CardinalityType
  <2>3. I \ taken = {}
    BY <2>1, <2>2, FS_EmptySet
  <2>4. taken = I
    BY <2>3
  <2>5. Round(h[0], p, taken) = <<>> /\ Round(h[1], p, taken) = <<>>
    BY <2>4 DEF Round
  <2>6. h[0 + 1][taken] = Round(h[0], p, taken) /\ h[1 + 1][taken] = Round(h[1], p, taken)
    BY <1>4
  <2> QED
    BY <2>5, <2>6
<1>7. ASSUME NEW k \in Nat, k \in Good PROVE k + 1 \in Good
  <2> SUFFICES ASSUME NEW taken \in SUBSET I, Cardinality(I \ taken) <= k + 1
               PROVE  h[(k + 1) + 2][taken] = h[(k + 1) + 1][taken]
    OBVIOUS
  <2>1. PICK a \in Nat, b \in Nat, c \in Nat : a = k + 1 /\ b = a + 1 /\ c = b + 1
    OBVIOUS
  <2>2. h[c][taken] = Round(h[b], p, taken) /\ h[b][taken] = Round(h[a], p, taken)
    BY <1>4, <2>1
  <2>3. Round(h[b], p, taken) = Round(h[a], p, taken)
    <3>1. CASE taken = I
      BY <3>1 DEF Round
    <3>2. CASE taken # I
      <4> DEFINE after == taken \cup NextOrbit(p, taken)
      <4>1. PICK x \in I \ taken : x \in NextOrbit(p, taken)
        BY <3>2, NextOrbitIs
      <4>2. after \in SUBSET I
        BY <3>2, NextOrbitIs
      <4>3. Cardinality(I \ after) <= k
        <5>1. I \ after \subseteq (I \ taken) \ {x}
          BY <4>1
        <5>2. IsFiniteSet(I \ taken)
          BY <1>5, FS_Subset
        <5>3. /\ IsFiniteSet((I \ taken) \ {x})
              /\ Cardinality((I \ taken) \ {x}) = Cardinality(I \ taken) - 1
          BY <4>1, <5>2, FS_RemoveElement
        <5>4. IsFiniteSet(I \ after) /\ Cardinality(I \ after) <= Cardinality((I \ taken) \ {x})
          BY <5>1, <5>3, FS_Subset
        <5>5. PICK m \in Nat, n \in Nat, r \in Nat :
                  /\ m = Cardinality(I \ taken) /\ n = Cardinality(I \ after)
                  /\ r = Cardinality((I \ taken) \ {x})
          BY <5>2, <5>3, <5>4, FS_CardinalityType
        <5>6. m <= k + 1 /\ r = m - 1 /\ n <= r
          BY <5>3, <5>4, <5>5
        <5> QED
          BY <5>5, <5>6
      <4> HIDE DEF after
      <4>4. h[k + 2][after] = h[k + 1][after]
        BY <1>7, <4>2, <4>3
      <4>5. h[b][after] = h[a][after]
        <5>1. k + 2 = b /\ k + 1 = a
          BY <2>1
        <5> QED
          BY <4>4, <5>1
      <4> QED
        BY <3>2, <4>5 DEF Round, after
    <3> QED
      BY <3>1, <3>2
  <2>4. (k + 1) + 2 = c /\ (k + 1) + 1 = b
    BY <2>1
  <2> QED
    BY <2>2, <2>3, <2>4
<1>8. P \in Good
  <2>1. \A k \in Nat : k \in Good => k + 1 \in Good
    BY <1>7
  <2> HIDE DEF Good
  <2>2. Nat \subseteq Good
    BY <1>6, <2>1, Upwards
  <2> QED
    BY <2>2
<1>9. PICK a \in Nat, b \in Nat : a = P + 1 /\ b = a + 1
  OBVIOUS
<1>10. ASSUME NEW taken \in SUBSET I PROVE h[a][taken] = Round(h[a], p, taken)
  <2>1. Cardinality(I \ taken) <= P
    <3>1. I \ taken \subseteq I
      OBVIOUS
    <3> QED
      BY <1>5, <3>1, FS_Subset
  <2>2. h[P + 2][taken] = h[P + 1][taken] /\ P + 2 = b /\ P + 1 = a
    BY <1>8, <1>9, <2>1
  <2>3. h[b][taken] = Round(h[a], p, taken)
    BY <1>4, <1>9
  <2> QED
    BY <2>2, <2>3
<1>11. h[a] = [taken \in SUBSET I |-> Round(h[a], p, taken)]
  <2>1. h[a] \in [SUBSET I -> Seq(SUBSET I)]
    BY <1>3 DEF V, Follows
  <2> QED
    BY <1>10, <2>1
<1>12. OrbitsEq(h[a], p)
  BY <1>11 DEF OrbitsEq, Round
<1> QED
  BY <1>12

(***************************************************************************)
(* The objects that do an orbit.                                           *)
(***************************************************************************)

IndexSums(g, p, S) ==
    g = [s \in SUBSET S |-> IF s = {} THEN 0 ELSE GetToss(p, Pick(s)).height + g[s \ {Pick(s)}]]

LEMMA SumOfTosses ==
    ASSUME NEW p, NEW S, IsFiniteSet(S), NEW h,
           \A i \in S : h[i] \in Int /\ h[i] = GetToss(p, i).height
    PROVE  MapThenSumSet(LAMBDA i : GetToss(p, i).height, S) = Sum(h, S)
<1>1. MapThenSumSet(LAMBDA i : GetToss(p, i).height, S) = (CHOOSE g : IndexSums(g, p, S))[S]
  BY DEF MapThenSumSet, MapThenFoldSet, IndexSums, Pick
<1>2. \A g : IndexSums(g, p, S) <=> Sums(g, h, S)
  <2> SUFFICES ASSUME NEW g PROVE IndexSums(g, p, S) <=> Sums(g, h, S)
    OBVIOUS
  <2>1. \A s \in SUBSET S : s # {} => h[Pick(s)] = GetToss(p, Pick(s)).height
    BY PickIn
  <2>2. [s \in SUBSET S |-> IF s = {} THEN 0 ELSE GetToss(p, Pick(s)).height + g[s \ {Pick(s)}]]
          = [s \in SUBSET S |-> IF s = {} THEN 0 ELSE h[Pick(s)] + g[s \ {Pick(s)}]]
    BY <2>1
  <2> QED
    BY <2>2 DEF IndexSums, Sums
<1>3. \E g : Sums(g, h, S)
  BY SumsExist
<1>4. PICK g : g = (CHOOSE k : IndexSums(k, p, S)) /\ IndexSums(g, p, S)
  BY <1>2, <1>3
<1>5. Sums(g, h, S)
  BY <1>2, <1>4
<1>6. Sum(h, S) = g[S]
  BY <1>5, SumIs
<1> QED
  BY <1>1, <1>4, <1>6

LEMMA ObjectsOfOrbit ==
    ASSUME NEW q, NEW f, NEW p, SearchedFor(p, q, f), NEW C \in SUBSET Indices(p),
           Closed(C, NextAt(p))
    PROVE  /\ NumberOfObjects(p, C) \in Int
           /\ q.period * NumberOfObjects(p, C) = Sum(HeightsAt(p), C)
<1>1. PICK P \in Nat \ {0} : P = q.period /\ PatternLength(p) = P /\ P \in Int
  BY DetailsOf
<1>2. IsFiniteSet(C)
  BY DetailsOf, FS_Subset
<1>3. \A i \in C : HeightsAt(p)[i] \in Int /\ HeightsAt(p)[i] = GetToss(p, i).height
  BY HeightAlongWalk DEF HeightsAt
<1>4. MapThenSumSet(LAMBDA i : GetToss(p, i).height, C) = Sum(HeightsAt(p), C)
  BY <1>2, <1>3, SumOfTosses
<1>5. PICK n \in Int : Sum(HeightsAt(p), C) = P * n
  <2>1. \E n \in Int : Sum(HeightsAt(p), C) = q.period * n
    BY ClosedHeights
  <2> QED
    BY <1>1, <2>1
<1>6. PICK a \in Int : a = P * n
  BY <1>1
<1>7. a \div P = n
  <2>1. 0 \in 0 .. P - 1 /\ a = P * n + 0
    BY <1>6
  <2> QED
    BY <2>1, DivModUnique
<1>8. NumberOfObjects(p, C) = a \div P
  BY <1>1, <1>4, <1>5, <1>6 DEF NumberOfObjects
<1> QED
  BY <1>1, <1>5, <1>6, <1>7, <1>8

-----------------------------------------------------------------------------
(***************************************************************************)
(* The orbits share out the beats and the clubs.                           *)
(***************************************************************************)

Counts(p, orbits) == [k \in DOMAIN orbits |-> NumberOfObjects(p, orbits[k])]

\* A sequence of orbits with every beat of R in one orbit, and all of the clubs
\* that are thrown at these beats.
Splits(orbits, p, R) ==
    /\ orbits \in Seq(SUBSET R)
    /\ \A i \in R : \E k \in DOMAIN orbits :
           i \in orbits[k] /\ \A l \in DOMAIN orbits : i \in orbits[l] => l = k
    /\ \A k \in DOMAIN orbits : Counts(p, orbits)[k] \in Int
    /\ PatternLength(p) * Sum(Counts(p, orbits), DOMAIN orbits) = Sum(HeightsAt(p), R)

LEMMA NothingSplits ==
    ASSUME NEW p, PatternLength(p) \in Int
    PROVE  Splits(<<>>, p, {})
<1>1. DOMAIN <<>> = {} /\ <<>> \in Seq(SUBSET {})
  OBVIOUS
<1>2. Sum(Counts(p, <<>>), {}) = 0 /\ Sum(HeightsAt(p), {}) = 0
  BY SumEmpty
<1>3. PatternLength(p) * 0 = 0
  OBVIOUS
<1> QED
  BY <1>1, <1>2, <1>3 DEF Splits

\* An orbit in front of a sequence.
LEMMA SequenceCons ==
    ASSUME NEW X, NEW o \in X, NEW tail \in Seq(X), NEW s, s = <<o>> \o tail
    PROVE  /\ s \in Seq(X) /\ DOMAIN s = 1 .. Len(tail) + 1 /\ Len(tail) \in Nat
           /\ DOMAIN tail = 1 .. Len(tail)
           /\ s[1] = o /\ \A k \in 1 .. Len(tail) : s[k + 1] = tail[k]
OBVIOUS

LEMMA OrbitSplits ==
    ASSUME NEW q, NEW f, NEW p, SearchedFor(p, q, f), NEW R \in SUBSET Indices(p),
           NEW O \in SUBSET R, Closed(O, NextAt(p)), NEW tail, Splits(tail, p, R \ O)
    PROVE  Splits(<<O>> \o tail, p, R)
<1> DEFINE s == <<O>> \o tail
           n == Len(tail)
           c == Counts(p, s)
           d == Counts(p, tail)
           h == HeightsAt(p)
<1>1. tail \in Seq(SUBSET R)
  <2>1. tail \in Seq(SUBSET (R \ O))
    BY DEF Splits
  <2> QED
    BY <2>1
<1>2. /\ s \in Seq(SUBSET R) /\ DOMAIN s = 1 .. n + 1 /\ n \in Nat
      /\ DOMAIN tail = 1 .. n
      /\ s[1] = O /\ \A k \in 1 .. n : s[k + 1] = tail[k]
  BY <1>1, SequenceCons
<1>3. \A k \in 1 .. n : tail[k] \subseteq R \ O
  <2>1. tail \in Seq(SUBSET (R \ O))
    BY DEF Splits
  <2> QED
    BY <1>2, <2>1
<1> HIDE DEF s, n
<1>4. \A i \in R : \E k \in DOMAIN s : i \in s[k] /\ \A l \in DOMAIN s : i \in s[l] => l = k
  <2> SUFFICES ASSUME NEW i \in R
               PROVE  \E k \in DOMAIN s : i \in s[k] /\ \A l \in DOMAIN s : i \in s[l] => l = k
    OBVIOUS
  <2>0. \A l \in DOMAIN s : l = 1 \/ \E m \in 1 .. n : l = m + 1
    <3> SUFFICES ASSUME NEW l \in 1 .. n + 1, l # 1 PROVE \E m \in 1 .. n : l = m + 1
      BY <1>2
    <3>1. l - 1 \in 1 .. n /\ l = (l - 1) + 1
      BY <1>2
    <3> QED
      BY <3>1
  <2>1. CASE i \in O
    <3>1. 1 \in DOMAIN s /\ i \in s[1]
      BY <1>2, <2>1
    <3>2. ASSUME NEW l \in DOMAIN s, i \in s[l] PROVE l = 1
      <4> SUFFICES ASSUME l # 1 PROVE FALSE
        OBVIOUS
      <4>1. PICK m \in 1 .. n : l = m + 1
        BY <2>0
      <4>2. s[l] = tail[m]
        BY <1>2, <4>1
      <4>3. tail[m] \subseteq R \ O
        BY <1>3
      <4> QED
        BY <2>1, <3>2, <4>2, <4>3
    <3> QED
      BY <3>1, <3>2
  <2>2. CASE i \notin O
    <3>1. PICK k \in DOMAIN tail : i \in tail[k] /\ \A l \in DOMAIN tail : i \in tail[l] => l = k
      BY <2>2 DEF Splits
    <3>2. k \in 1 .. n
      BY <1>2
    <3>3. k + 1 \in DOMAIN s /\ i \in s[k + 1]
      BY <1>2, <3>1, <3>2
    <3>4. ASSUME NEW l \in DOMAIN s, i \in s[l] PROVE l = k + 1
      <4>1. l # 1
        BY <1>2, <2>2, <3>4
      <4>2. PICK m \in 1 .. n : l = m + 1
        BY <2>0, <4>1
      <4>3. i \in tail[m]
        BY <1>2, <3>4, <4>2
      <4> QED
        BY <1>2, <3>1, <4>2, <4>3
    <3> QED
      BY <3>3, <3>4
  <2> QED
    BY <2>1, <2>2
<1>5. O \in SUBSET Indices(p) /\ R \ O \in SUBSET Indices(p)
  OBVIOUS
<1>6. NumberOfObjects(p, O) \in Int /\ q.period * NumberOfObjects(p, O) = Sum(h, O)
  BY <1>5, ObjectsOfOrbit
<1>7. /\ \A k \in 1 .. n : c[k + 1] = d[k] /\ d[k] \in Int /\ k + 1 \in DOMAIN s
      /\ c[1] = NumberOfObjects(p, O) /\ 1 \in DOMAIN s
  <2>1. \A k \in 1 .. n : k + 1 \in DOMAIN s /\ k \in DOMAIN tail
    BY <1>2
  <2>2. 1 \in DOMAIN s
    BY <1>2
  <2>3. c[1] = NumberOfObjects(p, O)
    BY <1>2, <2>2 DEF Counts
  <2>4. \A k \in 1 .. n : c[k + 1] = d[k]
    BY <1>2, <2>1 DEF Counts
  <2>5. \A k \in 1 .. n : d[k] \in Int
    BY <2>1 DEF Splits
  <2> QED
    BY <2>1, <2>2, <2>3, <2>4, <2>5
<1> HIDE DEF c, d
<1>8. \A k \in DOMAIN s : c[k] \in Int
  <2> SUFFICES ASSUME NEW k \in 1 .. n + 1 PROVE c[k] \in Int
    BY <1>2
  <2>1. CASE k = 1
    BY <1>6, <1>7, <2>1
  <2>2. CASE k # 1
    <3>1. PICK m \in 1 .. n : k = m + 1
      <4>1. k - 1 \in 1 .. n /\ k = (k - 1) + 1
        BY <1>2, <2>2
      <4> QED
        BY <4>1
    <3> QED
      BY <1>7, <3>1
  <2> QED
    BY <2>1, <2>2
<1>9. IsFiniteSet(DOMAIN s) /\ IsFiniteSet(DOMAIN tail)
  <2>1. IsFiniteSet(1 .. n + 1) /\ IsFiniteSet(1 .. n)
    BY <1>2, FS_Interval
  <2> QED
    BY <1>2, <2>1
<1>10. Sum(c, DOMAIN s) = c[1] + Sum(c, DOMAIN s \ {1})
  BY <1>7, <1>8, <1>9, SumTake
<1>11. Sum(c, DOMAIN s \ {1}) = Sum(d, DOMAIN tail)
  <2> DEFINE b == [k \in DOMAIN tail |-> k + 1]
  <2>1. \A i, j \in DOMAIN tail : b[i] = b[j] => i = j
    BY <1>2
  <2>2. \A k \in DOMAIN tail : b[k] = k + 1 /\ b[k] \in DOMAIN s \ {1}
    BY <1>2, <1>7
  <2>3. \A k \in DOMAIN tail : c[b[k]] = d[k] /\ c[b[k]] \in Int
    BY <1>2, <1>7, <2>2
  <2>4. \A y \in DOMAIN s \ {1} : \E k \in DOMAIN tail : b[k] = y
    <3> SUFFICES ASSUME NEW y \in 1 .. n + 1, y # 1 PROVE \E k \in DOMAIN tail : b[k] = y
      BY <1>2
    <3>1. y - 1 \in DOMAIN tail /\ (y - 1) + 1 = y
      BY <1>2
    <3>2. b[y - 1] = (y - 1) + 1
      BY <3>1
    <3> QED
      BY <3>1, <3>2
  <2> HIDE DEF b
  <2>5. Matches(b, DOMAIN tail, d, DOMAIN s \ {1}, c)
    BY <2>1, <2>2, <2>3, <2>4 DEF Matches
  <2> QED
    BY <1>9, <2>5, SumImage
<1>12. PICK P \in Nat \ {0} : P = q.period /\ PatternLength(p) = P /\ P \in Int
  BY DetailsOf
<1>13. PICK x \in Int, y \in Int : x = c[1] /\ y = Sum(d, DOMAIN tail)
  <2>1. \A k \in DOMAIN tail : d[k] \in Int
    BY <1>2, <1>7
  <2>2. Sum(d, DOMAIN tail) \in Int
    BY <1>9, <2>1, SumInt
  <2> QED
    BY <1>6, <1>7, <2>2
<1>14. Sum(h, R) = Sum(h, O) + Sum(h, R \ O)
  <2>1. IsFiniteSet(R)
    BY DetailsOf, FS_Subset
  <2>2. \A i \in R : h[i] \in Int
    BY HeightAlongWalk
  <2> HIDE DEF h
  <2> QED
    BY <2>1, <2>2, SumUnion
<1>15. P * x = Sum(h, O) /\ P * y = Sum(h, R \ O)
  <2>1. P * Sum(d, DOMAIN tail) = Sum(h, R \ O)
    BY <1>12 DEF Splits, d
  <2> QED
    BY <1>6, <1>7, <1>12, <1>13, <2>1
<1>16. P * (x + y) = P * x + P * y
  BY <1>12, Products
<1>17. PatternLength(p) * Sum(c, DOMAIN s) = Sum(h, R)
  BY <1>10, <1>11, <1>12, <1>13, <1>14, <1>15, <1>16
<1> QED
  BY <1>2, <1>4, <1>8, <1>17 DEF Splits, c, h, s

LEMMA OrbitsSplit ==
    ASSUME NEW q, NEW f, NEW p, SearchedFor(p, q, f)
    PROVE  Splits(GetOrbits(p), p, Indices(p))
<1> DEFINE I == Indices(p)
           next == NextAt(p)
<1>1. PICK g : g = (CHOOSE k : OrbitsEq(k, p)) /\ OrbitsEq(g, p)
  BY OrbitsExist
<1>2. GetOrbits(p) = g[{}]
  BY <1>1, OrbitsDef
<1>3. \A taken \in SUBSET I :
          g[taken] = IF taken = I THEN <<>>
                     ELSE <<NextOrbit(p, taken)>> \o g[taken \cup NextOrbit(p, taken)]
  BY <1>1 DEF OrbitsEq
<1>4. IsFiniteSet(I) /\ PatternLength(p) \in Int /\ Permutes(next, I)
  BY DetailsOf, NextPermutes
<1> DEFINE Good == {R \in SUBSET I : Closed(R, next) => Splits(g[I \ R], p, R)}
<1>5. \A R \in SUBSET I : (\A U \in SUBSET R : U # R => U \in Good) => R \in Good
  <2> SUFFICES ASSUME NEW R \in SUBSET I, \A U \in SUBSET R : U # R => U \in Good,
                      Closed(R, next)
               PROVE  Splits(g[I \ R], p, R)
    OBVIOUS
  <2>1. CASE R = {}
    <3>1. g[I \ R] = <<>>
      BY <1>3, <2>1
    <3> QED
      BY <1>4, <2>1, <3>1, NothingSplits
  <2>2. CASE R # {}
    <3> DEFINE O == NextOrbit(p, I \ R)
    <3>1. I \ R \in SUBSET I /\ I \ R # I /\ I \ (I \ R) = R
      BY <2>2
    <3>2. /\ O \in SUBSET I /\ Closed(O, next) /\ \E x \in I \ (I \ R) : x \in O
          /\ Closed(I \ (I \ R), next) => O \subseteq I \ (I \ R)
      <4> HIDE DEF next, O
      <4> QED
        BY <3>1, NextOrbitIs DEF next, O
    <3> HIDE DEF O
    <3>3. O \in SUBSET R /\ R \ O \in SUBSET R /\ R \ O # R
      BY <3>1, <3>2
    <3>4. Closed(R \ O, next)
      <4>1. Closed(I \ O, next)
        <5> HIDE DEF I, next
        <5> QED
          BY <1>4, <3>2, RestCloses
      <4>2. \A i \in R \ O : next[i] \in R /\ next[i] \in I \ O
        BY <4>1 DEF Closed
      <4> QED
        BY <4>2 DEF Closed
    <3>5. R \ O \in Good
      BY <3>3
    <3>6. Splits(g[I \ (R \ O)], p, R \ O)
      BY <3>4, <3>5
    <3>7. I \ (R \ O) = (I \ R) \cup O
      BY <3>2, <3>3
    <3>8. g[I \ R] = <<O>> \o g[(I \ R) \cup O]
      BY <1>3, <3>1 DEF O
    <3>9. Splits(<<O>> \o g[(I \ R) \cup O], p, R)
      <4>1. Splits(g[(I \ R) \cup O], p, R \ O)
        BY <3>6, <3>7
      <4> QED
        BY <3>2, <3>3, <4>1, OrbitSplits
    <3> QED
      BY <3>8, <3>9
  <2> QED
    BY <2>1, <2>2
<1>6. I \in Good
  <2> HIDE DEF Good, I
  <2>1. SUBSET I \subseteq Good
    BY <1>4, <1>5, SubsetInduction
  <2> QED
    BY <2>1
<1>7. Closed(I, next)
  BY <1>4 DEF Closed, Permutes
<1>8. I \ I = {}
  OBVIOUS
<1> QED
  BY <1>2, <1>6, <1>7, <1>8

LEMMA AllHeights ==
    ASSUME NEW q, NEW f, NEW p, SearchedFor(p, q, f)
    PROVE  Sum(HeightsAt(p), Indices(p)) = q.period * q.others.objects
<1> DEFINE b == [i \in Indices(p) |-> i + 1]
<1>1. PICK P \in Nat \ {0} : /\ P = q.period /\ PatternLength(p) = P /\ Indices(p) = 0 .. P - 1
                             /\ IsFiniteSet(Indices(p)) /\ P \in Int
                             /\ \A i \in Indices(p) : i \in Int /\ i + 1 \in 1 .. P
                                                      /\ GetToss(p, i) = f[i + 1]
  BY DetailsOf
<1>2. GoodQuery(q) /\ f \in Patterns(q)
  BY DEF SearchedFor
<1>3. Beats(q) = 1 .. P /\ Cycle(f, P) /\ \A i \in 1 .. P : f[i].height \in Int
  BY <1>1, <1>2, BeatsAre, PatternIs
<1>4. DOMAIN f = 1 .. P
  BY <1>3 DEF Cycle
<1>5. \A k \in 1 .. P : Heights(f)[k] = f[k].height
  BY <1>4 DEF Heights
<1>6. \A i \in Indices(p) : b[i] = i + 1 /\ b[i] \in 1 .. P
  BY <1>1
<1>7. \A i, j \in Indices(p) : b[i] = b[j] => i = j
  BY <1>1
<1>8. \A i \in Indices(p) : HeightsAt(p)[i] = f[i + 1].height
  BY <1>1 DEF HeightsAt
<1>9. \A y \in 1 .. P : \E i \in Indices(p) : b[i] = y
  <2> SUFFICES ASSUME NEW y \in 1 .. P PROVE \E i \in Indices(p) : b[i] = y
    OBVIOUS
  <2>1. y - 1 \in Indices(p) /\ (y - 1) + 1 = y
    BY <1>1
  <2> QED
    BY <1>6, <2>1
<1> HIDE DEF b
<1>10. Matches(b, Indices(p), HeightsAt(p), 1 .. P, Heights(f))
  BY <1>3, <1>5, <1>6, <1>7, <1>8, <1>9 DEF Matches
<1>11. Sum(Heights(f), 1 .. P) = Sum(HeightsAt(p), Indices(p))
  BY <1>1, <1>10, SumImage
<1>12. Sum(Heights(f), 1 .. P) = q.others.objects * P
  BY <1>1, <1>2, <1>3 DEF Patterns
<1>13. q.others.objects \in Nat
  BY <1>2 DEF GoodQuery
<1>14. q.others.objects * P = P * q.others.objects
  BY <1>1, <1>13
<1> QED
  BY <1>1, <1>11, <1>12, <1>14

\* The numbers of objects of the orbits add up to the number of the form.
LEMMA OrbitsHoldAll ==
    ASSUME NEW q, NEW f, NEW p, SearchedFor(p, q, f)
    PROVE  Sum(Counts(p, GetOrbits(p)), DOMAIN GetOrbits(p)) = q.others.objects
<1>1. PICK P \in Nat \ {0} : P = q.period /\ PatternLength(p) = P /\ P \in Int
  BY DetailsOf
<1>2. PICK n \in Int : n = q.others.objects
  BY DEF SearchedFor, GoodQuery
<1>3. Splits(GetOrbits(p), p, Indices(p))
  BY OrbitsSplit
<1>4. PICK m \in Int : m = Sum(Counts(p, GetOrbits(p)), DOMAIN GetOrbits(p))
  <2>1. GetOrbits(p) \in Seq(SUBSET Indices(p))
    BY <1>3 DEF Splits
  <2>2. IsFiniteSet(DOMAIN GetOrbits(p))
    <3>1. DOMAIN GetOrbits(p) = 1 .. Len(GetOrbits(p)) /\ Len(GetOrbits(p)) \in Nat
      BY <2>1
    <3> QED
      BY <3>1, FS_Interval
  <2>3. \A k \in DOMAIN GetOrbits(p) : Counts(p, GetOrbits(p))[k] \in Int
    BY <1>3 DEF Splits
  <2> QED
    BY <2>2, <2>3, SumInt
<1>5. P * m = P * n
  BY <1>1, <1>2, <1>3, <1>4, AllHeights DEF Splits
<1>6. m = n
  BY <1>1, <1>5, Products
<1> QED
  BY <1>2, <1>4, <1>6

-----------------------------------------------------------------------------
(***************************************************************************)
(* What the screen shows of the orbits.                                    *)
(***************************************************************************)

ObjectSums(g, v, S) ==
    g = [s \in SUBSET S |-> IF s = {} THEN 0 ELSE v[Pick(s)].objects + g[s \ {Pick(s)}]]

SumShown(v, S) == MapThenSumSet(LAMBDA k : v[k].objects, S)

LEMMA SumOfObjects ==
    ASSUME NEW S, IsFiniteSet(S), NEW v, NEW h,
           \A i \in S : h[i] \in Int /\ h[i] = v[i].objects
    PROVE  SumShown(v, S) = Sum(h, S)
<1>1. SumShown(v, S) = (CHOOSE g : ObjectSums(g, v, S))[S]
  BY DEF SumShown, MapThenSumSet, MapThenFoldSet, ObjectSums, Pick
<1>2. \A g : ObjectSums(g, v, S) <=> Sums(g, h, S)
  <2> SUFFICES ASSUME NEW g PROVE ObjectSums(g, v, S) <=> Sums(g, h, S)
    OBVIOUS
  <2>1. \A s \in SUBSET S : s # {} => h[Pick(s)] = v[Pick(s)].objects
    BY PickIn
  <2>2. [s \in SUBSET S |-> IF s = {} THEN 0 ELSE v[Pick(s)].objects + g[s \ {Pick(s)}]]
          = [s \in SUBSET S |-> IF s = {} THEN 0 ELSE h[Pick(s)] + g[s \ {Pick(s)}]]
    BY <2>1
  <2> QED
    BY <2>2 DEF ObjectSums, Sums
<1>3. \E g : Sums(g, h, S)
  BY SumsExist
<1>4. PICK g : g = (CHOOSE e : ObjectSums(e, v, S)) /\ ObjectSums(g, v, S)
  BY <1>2, <1>3
<1>5. Sums(g, h, S)
  BY <1>2, <1>4
<1>6. Sum(h, S) = g[S]
  BY <1>5, SumIs
<1> QED
  BY <1>1, <1>4, <1>6

\* A new row for an orbit has its tosses, and else nothing.
LEMMA OrbitRow ==
    ASSUME NEW q, NEW f, NEW p, SearchedFor(p, q, f), NEW orbit, NEW i \in Indices(p)
    PROVE  OrbitView(p, orbit).row[i + 1]
             = IF i \in orbit THEN Cell(p, GetToss(p, i)) ELSE Blank
<1>1. PICK P \in Nat \ {0}, j \in Int : /\ PatternLength(p) = P /\ j = i
                                        /\ j + 1 \in 1 .. P /\ (j + 1) - 1 = j
  BY DetailsOf
<1>2. Len(<<>>) = 0
  OBVIOUS
<1>3. Resized(<<>>, P)[j + 1] = Blank
  <2>1. Resized(<<>>, P)[j + 1]
          = LET k == (j + 1) + IF 0 > P THEN 0 - P ELSE 0 IN IF k <= 0 THEN <<>>[k] ELSE Blank
    BY <1>1, <1>2 DEF Resized
  <2>2. ~(0 > P) /\ ~(j + 1 <= 0) /\ (j + 1) + 0 = j + 1
    BY <1>1
  <2> QED
    BY <2>1, <2>2
<1>4. Render(<<>>, p, orbit)[j + 1]
        = IF (j + 1) - 1 \in orbit THEN Cell(p, GetToss(p, (j + 1) - 1))
          ELSE Resized(<<>>, PatternLength(p))[j + 1]
  BY <1>1 DEF Render
<1> QED
  BY <1>1, <1>3, <1>4 DEF OrbitView

OrbitsShown(p) ==
    [k \in DOMAIN GetOrbits(p) |-> OrbitView(p, GetOrbits(p)[k])]

LEMMA OrbitsShareAll ==
    ASSUME NEW q, NEW f, NEW p, SearchedFor(p, q, f), NEW views, views = OrbitsShown(p)
    PROVE  /\ SumShown(views, DOMAIN GetOrbits(p)) = q.others.objects
           /\ \A i \in Indices(p) : \E k \in DOMAIN GetOrbits(p) :
                /\ views[k].row[i + 1] = Cell(p, GetToss(p, i))
                /\ \A l \in DOMAIN GetOrbits(p) \ {k} : views[l].row[i + 1] = Blank
<1> DEFINE orbits == GetOrbits(p)
<1>1. Splits(orbits, p, Indices(p))
  BY OrbitsSplit
<1>2. \A k \in DOMAIN orbits : views[k] = OrbitView(p, orbits[k])
  BY DEF OrbitsShown
<1>3. IsFiniteSet(DOMAIN orbits)
  <2>1. orbits \in Seq(SUBSET Indices(p))
    BY <1>1 DEF Splits
  <2>2. DOMAIN orbits = 1 .. Len(orbits) /\ Len(orbits) \in Nat
    BY <2>1
  <2> QED
    BY <2>2, FS_Interval
<1>4. \A k \in DOMAIN orbits : /\ Counts(p, orbits)[k] \in Int
                               /\ Counts(p, orbits)[k] = views[k].objects
  <2>1. \A k \in DOMAIN orbits : Counts(p, orbits)[k] \in Int
    BY <1>1 DEF Splits
  <2>2. \A k \in DOMAIN orbits : Counts(p, orbits)[k] = NumberOfObjects(p, orbits[k])
    BY DEF Counts
  <2>3. \A orbit : OrbitView(p, orbit).objects = NumberOfObjects(p, orbit)
    BY DEF OrbitView
  <2>4. \A k \in DOMAIN orbits : views[k].objects = NumberOfObjects(p, orbits[k])
    BY <1>2, <2>3
  <2> QED
    BY <2>1, <2>2, <2>4
<1>5. SumShown(views, DOMAIN orbits)
        = Sum(Counts(p, orbits), DOMAIN orbits)
  <2>1. PICK S, h : S = DOMAIN orbits /\ h = Counts(p, orbits)
    OBVIOUS
  <2> HIDE DEF orbits
  <2>2. IsFiniteSet(S) /\ \A k \in S : h[k] \in Int /\ h[k] = views[k].objects
    BY <1>3, <1>4, <2>1
  <2>3. SumShown(views, S) = Sum(h, S)
    BY <2>2, SumOfObjects
  <2> QED
    BY <2>1, <2>3
<1>6. ASSUME NEW i \in Indices(p)
      PROVE  \E k \in DOMAIN orbits :
               /\ views[k].row[i + 1] = Cell(p, GetToss(p, i))
               /\ \A l \in DOMAIN orbits \ {k} : views[l].row[i + 1] = Blank
  <2>1. PICK k \in DOMAIN orbits :
            i \in orbits[k] /\ \A l \in DOMAIN orbits : i \in orbits[l] => l = k
    BY <1>1 DEF Splits
  <2>2. \A l \in DOMAIN orbits :
            views[l].row[i + 1] = IF i \in orbits[l] THEN Cell(p, GetToss(p, i)) ELSE Blank
    BY <1>2, OrbitRow
  <2> QED
    BY <2>1, <2>2
<1> QED
  BY <1>5, <1>6, OrbitsHoldAll

\* The row has a pattern of the search that its screen was opened for, and the
\* details are computed from it.
SearchedInv ==
    /\ pattern # Null => request # Null /\ \E f : SearchedFor(pattern, Query, f)
    /\ detail # Null =>
           /\ pattern # Null
           /\ detail.orbits = GetOrbits(pattern) /\ detail.orbitViews = OrbitsShown(pattern)
           /\ detail.starts = Starts(pattern)

\* While a search screen is there, its intent stays what it is.
LEMMA FormStepKeeps == FormStep /\ request # Null => request' = request
BY DEF FormStep, OnCreate, FirstSelection, OnClick, OnSaveInstanceState, OnPeriodSelected,
       OnMinPassesDragged, OnMaxPassesDragged, OnOthersSelected, User

\* A pattern comes out of the parcel as it went in.
LEMMA PatternInParcel ==
    ASSUME RowInv, parcel # Null
    PROVE  pattern # Null /\ CreateFromParcel(parcel) = pattern
<1>1. /\ pattern # Null /\ parcel = WriteToParcel(pattern)
      /\ pattern = [jugglers |-> pattern.jugglers, tosses |-> pattern.tosses]
      /\ pattern.tosses \in Seq(AnyToss)
  BY DEF RowInv
<1> QED
  BY <1>1, ParcelRoundTrip DEF NewPattern, Jugglers

LEMMA SearchedInvStep == FormInv /\ RowInv /\ SearchedInv /\ [ScreensNext]_vars => SearchedInv'
<1> SUFFICES ASSUME FormInv, RowInv, SearchedInv, [ScreensNext]_vars PROVE SearchedInv'
  OBVIOUS
<1>1. CASE FormStep /\ UNCHANGED patternVars
  <2>1. pattern # Null => request' = request
    BY <1>1, FormStepKeeps DEF SearchedInv
  <2>2. pattern # Null => Query' = Query
    BY <2>1 DEF Query
  <2> QED
    BY <1>1, <2>1, <2>2 DEF patternVars, SearchedInv
<1>2. ASSUME request # Null, NEW tosses \in Found[Query], GetView(tosses) PROVE SearchedInv'
  <2>1. Query \in Queries
    BY <1>2, QueryOfForm
  <2>2. GoodQuery(Query) /\ Found[Query] = SiteswapOf(Query)
    BY <2>1, GoodQueries DEF Found
  <2>3. tosses \in Patterns(Query)
    <3>1. tosses \in Chosen(Query)
      BY <1>2, <2>2, FoundIsRotation
    <3> QED
      BY <3>1 DEF Chosen
  <2>4. /\ pattern' = NewPattern(Query, tosses) /\ request' = request
        /\ parcel = Null /\ detail' = detail
    BY <1>2 DEF GetView, formVars
  <2>5. SearchedFor(pattern', Query, tosses)
    BY <2>2, <2>3, <2>4 DEF SearchedFor
  <2>6. Query' = Query
    BY <2>4 DEF Query
  <2>7. detail' = Null
    BY <2>4 DEF RowInv
  <2> QED
    BY <1>2, <2>4, <2>5, <2>6, <2>7 DEF SearchedInv
<1>3. CASE OnItemClick
  <2>1. UNCHANGED <<request, pattern, detail>>
    BY <1>3 DEF OnItemClick, formVars
  <2> QED
    BY <2>1 DEF SearchedInv, Query
<1>4. CASE DetailOnCreate
  <2>1. pattern # Null /\ CreateFromParcel(parcel) = pattern
    BY <1>4, PatternInParcel DEF DetailOnCreate
  <2>2. UNCHANGED <<request, pattern>>
    BY <1>4 DEF DetailOnCreate, formVars
  <2>3. /\ detail'.orbits = GetOrbits(pattern) /\ detail'.starts = Starts(pattern)
        /\ detail'.orbitViews = [k \in DOMAIN GetOrbits(pattern) |->
                                    OrbitView(pattern, GetOrbits(pattern)[k])]
    BY <1>4, <2>1 DEF DetailOnCreate
  <2> QED
    BY <2>1, <2>2, <2>3 DEF SearchedInv, Query, OrbitsShown
<1>5. CASE DetailOnDestroy
  <2>1. UNCHANGED <<request, pattern>> /\ detail' = Null
    BY <1>5 DEF DetailOnDestroy, formVars
  <2> QED
    BY <2>1 DEF SearchedInv, Query
<1>6. CASE DetailBack
  <2>1. UNCHANGED <<request, pattern>> /\ detail' = Null
    BY <1>6 DEF DetailBack, formVars
  <2> QED
    BY <2>1 DEF SearchedInv, Query
<1>7. CASE SearchBack
  <2>1. pattern' = Null /\ detail' = Null
    BY <1>7 DEF SearchBack, RowInv
  <2> QED
    BY <2>1 DEF SearchedInv
<1>8. CASE UNCHANGED vars
  <2>1. UNCHANGED <<request, pattern, detail>>
    BY <1>8 DEF vars, formVars, patternVars
  <2> QED
    BY <2>1 DEF SearchedInv, Query
<1> QED
  BY <1>1, <1>2, <1>3, <1>4, <1>5, <1>6, <1>7, <1>8 DEF ScreensNext

LEMMA InitSearchedInv == ScreensInit => SearchedInv
BY DEF ScreensInit, SearchedInv

LEMMA SearchedInvariant == ScreensSpec => []SearchedInv
<1>1. FormInv /\ RowInv /\ SearchedInv /\ [ScreensNext]_vars => SearchedInv'
  BY SearchedInvStep
<1> QED
  BY <1>1, InitSearchedInv, FormInvariant, RowInvariant, PTL DEF ScreensSpec

\* Whatever pattern is clicked on, the orbits on the detail screen share out its
\* tosses, and their numbers of objects add up to the number of the form.
THEOREM OrbitsAlwaysShare == ScreensSpec => []OrbitsShareClubs
<1>1. RowInv /\ SearchedInv => OrbitsShareClubs
  <2> SUFFICES ASSUME RowInv, SearchedInv, detail # Null PROVE OrbitsShareClubs
    BY DEF OrbitsShareClubs
  <2>1. PICK p, orbits, views, q :
            /\ p = pattern /\ orbits = detail.orbits /\ views = detail.orbitViews
            /\ q = Query
    OBVIOUS
  <2>2. /\ detail.pattern = p /\ pattern # Null
        /\ orbits = GetOrbits(p) /\ views = OrbitsShown(p)
    BY <2>1 DEF RowInv, DetailShowsRow, SearchedInv
  <2>3. PICK f : SearchedFor(p, q, f)
    BY <2>1, <2>2 DEF SearchedInv
  <2>4. /\ SumShown(views, DOMAIN orbits) = q.others.objects
        /\ \A i \in Indices(p) : \E k \in DOMAIN orbits :
             /\ views[k].row[i + 1] = Cell(p, GetToss(p, i))
             /\ \A l \in DOMAIN orbits \ {k} : views[l].row[i + 1] = Blank
    BY <2>2, <2>3, OrbitsShareAll
  <2>5. SumShown(detail.orbitViews, DOMAIN orbits) = Query.others.objects
    BY <2>1, <2>4
  <2>6. MapThenSumSet(LAMBDA k : detail.orbitViews[k].objects, DOMAIN detail.orbits)
          = Query.others.objects
    BY <2>1, <2>5 DEF SumShown
  <2>7. \A i \in Indices(detail.pattern) : \E k \in DOMAIN detail.orbits :
           /\ detail.orbitViews[k].row[i + 1] = Cell(detail.pattern, GetToss(detail.pattern, i))
           /\ \A l \in DOMAIN detail.orbits \ {k} : detail.orbitViews[l].row[i + 1] = Blank
    BY <2>1, <2>2, <2>4
  <2>8. detail.pattern = pattern
    BY <2>1, <2>2
  <2> QED
    BY <2>6, <2>7, <2>8 DEF OrbitsShareClubs
<1> QED
  BY <1>1, RowInvariant, SearchedInvariant, PTL

(***************************************************************************)
(* Who throws what, and when.                                              *)
(***************************************************************************)

HeightAt(p, t) == GetToss(p, IndexAt(p, t)).height

\* The numbers of a pattern, by the names the arithmetic is done in.
Timed(p, q, f, P, J) ==
    /\ SearchedFor(p, q, f)
    /\ P = PatternLength(p) /\ P = q.period
    /\ J = p.jugglers /\ J = Jugglers(q)

LEMMA TimedIs ==
    ASSUME NEW q, NEW f, NEW p, SearchedFor(p, q, f)
    PROVE  \E P \in Nat \ {0}, J \in Nat \ {0, 1} : Timed(p, q, f, P, J)
<1>1. PICK P \in Nat \ {0} : P = q.period /\ PatternLength(p) = P
  BY DetailsOf
<1>2. PICK J \in Nat \ {0, 1} : J = Jugglers(q)
  <2>1. GoodQuery(q)
    BY DEF SearchedFor
  <2> QED
    BY <2>1, BeatsAre
<1>3. p.jugglers = J
  BY <1>2 DEF SearchedFor, NewPattern
<1> QED
  BY <1>1, <1>2, <1>3 DEF Timed

\* The throw at index i lands L beats later, and c periods more if it is a pass.
TossParts(p, P, J, i, L, c) ==
    /\ GetToss(p, i).height = J * L + P * GetToss(p, i).pass
    /\ GetToss(p, i).siteswap = L + P * c

LEMMA TossIs ==
    ASSUME NEW q, NEW f, NEW p, NEW P \in Nat \ {0},
           NEW J \in Nat \ {0, 1}, Timed(p, q, f, P, J), NEW i \in Indices(p)
    PROVE  /\ i \in Int /\ i \in 0 .. P - 1
           /\ GetToss(p, i).height \in Nat /\ GetToss(p, i).pass \in Nat
           /\ GetToss(p, i).siteswap \in Int
           /\ GetToss(p, i).height = 0 => GetToss(p, i).pass = 0
           /\ \E L \in Int, c \in Int : TossParts(p, P, J, i, L, c)
<1>1. P > 0 /\ P = q.period /\ J = Jugglers(q) /\ J > 1 /\ SearchedFor(p, q, f)
  BY DEF Timed
<1>2. GoodQuery(q) /\ f \in Patterns(q)
  BY <1>1 DEF SearchedFor
<1>3. i \in Int /\ i \in 0 .. P - 1 /\ i + 1 \in 1 .. q.period /\ GetToss(p, i) = f[i + 1]
  BY <1>1, DetailsOf
<1>4. PICK t : /\ t = GetToss(p, i) /\ t \in GoodTosses(q) /\ t.height \in Nat /\ t.pass \in Nat
               /\ t.siteswap \in Int /\ \E L \in Int : LandsAfter(q, t, L)
  BY <1>1, <1>2, <1>3, PatternIs
<1>5. PICK L \in Int : LandsAfter(q, t, L)
  BY <1>4
<1>6. t.height = J * L + P * t.pass /\ t.siteswap = IF t.pass = 0 THEN L ELSE L + P
  BY <1>1, <1>5 DEF LandsAfter
<1>7. \E c \in Int : t.siteswap = L + P * c
  <2>1. P * 0 = 0 /\ P * 1 = P
    BY <1>1
  <2> QED
    BY <1>6, <2>1
<1>8. t.height = 0 => t.pass = 0
  <2>1. AllowedHeight(q, t.height, t.pass)
    BY <1>4 DEF GoodTosses
  <2> QED
    BY <1>1, <1>4, <2>1 DEF AllowedHeight
<1> QED
  BY <1>3, <1>4, <1>6, <1>7, <1>8 DEF TossParts

\* Time t is the time of juggler a in his beat u, and k is where he began.
TimeParts(p, P, J, t, u, a, k) ==
    /\ t = J * u + a /\ a \in 0 .. J - 1 /\ JugglerAt(p, t) = a
    /\ PlaceAt(p, t) = u % P /\ k = (P * a) \div J
    /\ IndexAt(p, t) = ((u % P) - k) % P

LEMMA IndexAtIs ==
    ASSUME NEW q, NEW f, NEW p, NEW P \in Nat \ {0},
           NEW J \in Nat \ {0, 1}, Timed(p, q, f, P, J), NEW t \in Nat
    PROVE  /\ \E u \in Int, a \in Int, k \in Int : TimeParts(p, P, J, t, u, a, k)
           /\ PlaceAt(p, t) \in Int
           /\ IndexAt(p, t) \in Indices(p) /\ IndexAt(p, t) \in 0 .. P - 1
           /\ HeightAt(p, t) \in Nat
<1>1. P = PatternLength(p) /\ J \in Nat \ {0} /\ J = p.jugglers
  BY DEF Timed
<1>2. PICK u \in Int, a \in 0 .. J - 1 : t = J * u + a /\ u = t \div J /\ a = t % J
  <2>1. PICK K \in Nat \ {0}, s \in Int : K = J /\ s = t
    OBVIOUS
  <2>2. s = K * (s \div K) + (s % K) /\ s \div K \in Int /\ s % K \in 0 .. K - 1
    BY DivMod
  <2> QED
    BY <2>1, <2>2
<1>3. PICK x \in Int, k \in Int : x = P * a /\ k = x \div J
  <2>1. PICK x \in Int : x = P * a
    <3>1. a \in Int
      BY <1>1
    <3> QED
      BY <1>1, <3>1
  <2>2. PICK K \in Nat \ {0} : K = J
    OBVIOUS
  <2>3. x \div K \in Int
    BY DivMod
  <2> QED
    BY <2>1, <2>2, <2>3
<1>4. PICK v \in Int : v = u % P
  <2>1. u % P \in 0 .. P - 1
    BY DivMod
  <2> QED
    BY <2>1
<1>5. JugglerAt(p, t) = a /\ PlaceAt(p, t) = v
  BY <1>1, <1>2, <1>4 DEF JugglerAt, PlaceAt
<1>6. IndexAt(p, t) = (v - k) % P
  BY <1>1, <1>3, <1>5 DEF IndexAt, TossIndex
<1>7. PICK y \in Int : y = v - k
  OBVIOUS
<1>8. IndexAt(p, t) \in 0 .. P - 1
  <2>1. y % P \in 0 .. P - 1
    BY DivMod
  <2> QED
    BY <1>6, <1>7, <2>1
<1>9. Indices(p) = 0 .. P - 1
  BY <1>1 DEF Indices
<1>10. HeightAt(p, t) \in Nat
  BY <1>8, <1>9, TossIs DEF HeightAt
<1>11. TimeParts(p, P, J, t, u, a, k)
  BY <1>2, <1>3, <1>4, <1>5, <1>6 DEF TimeParts
<1>12. a \in Int
  OBVIOUS
<1> QED
  BY <1>4, <1>5, <1>8, <1>9, <1>10, <1>11, <1>12

\* After P beats of each juggler the throws repeat.
LEMMA ThrowsRepeat ==
    ASSUME NEW q, NEW f, NEW p, NEW P \in Nat \ {0},
           NEW J \in Nat \ {0, 1}, Timed(p, q, f, P, J), NEW t \in Nat
    PROVE  t + J * P \in Nat /\ HeightAt(p, t + J * P) = HeightAt(p, t)
<1>1. P = PatternLength(p) /\ J \in Nat \ {0} /\ J = p.jugglers /\ P \in Int
  BY DEF Timed
<1>2. PICK e \in Nat : e = t + J * P
  <2>1. J * P \in Nat
    BY <1>1
  <2> QED
    BY <2>1
<1>3. PICK K \in Nat \ {0}, s \in Int : K = J /\ s = t
  OBVIOUS
<1>4. PICK u \in Int : u = s \div K /\ e % J = s % K /\ e \div J = u + P
  <2>1. s \div K \in Int
    BY DivMod
  <2>2. (s + K * P) % K = s % K /\ (s + K * P) \div K = (s \div K) + P
    BY <1>1, SameModulo
  <2> QED
    BY <1>2, <1>3, <2>1, <2>2
<1>5. PICK v \in Int, one \in Int : one = 1 /\ v = u + P * one /\ v = u + P
  BY <1>1
<1>6. v % P = u % P
  <2>1. (u + P * one) % P = u % P
    BY SameModulo
  <2> QED
    BY <1>5, <2>1
<1>7. JugglerAt(p, e) = JugglerAt(p, t) /\ PlaceAt(p, e) = PlaceAt(p, t)
  BY <1>1, <1>3, <1>4, <1>5, <1>6 DEF JugglerAt, PlaceAt
<1> QED
  BY <1>2, <1>7 DEF HeightAt, IndexAt

-----------------------------------------------------------------------------
(***************************************************************************)
(* Jugglers who keep step: a period is a beat longer than a multiple of    *)
(* their number.                                                           *)
(***************************************************************************)

InStep(p, q, f, P, J, m) == Timed(p, q, f, P, J) /\ P = J * m + 1

StepIndex(p, P, m, t, k) == IndexAt(p, t) = P * k - m * t

\* One after the other throws what the one before threw, m beats later.
LEMMA IndexInStep ==
    ASSUME NEW q, NEW f, NEW p, NEW P \in Nat \ {0}, NEW J \in Nat \ {0, 1},
           NEW m \in Int, InStep(p, q, f, P, J, m), NEW t \in Nat
    PROVE  \E k \in Int : StepIndex(p, P, m, t, k)
<1>1. J \in Nat \ {0} /\ J > 1 /\ P \in Int /\ J \in Int
      /\ P = J * m + 1 /\ Timed(p, q, f, P, J)
  BY DEF InStep
<1>2. PICK u \in Int, a \in Int, k \in Int : TimeParts(p, P, J, t, u, a, k)
  BY <1>1, IndexAtIs
<1>3. /\ t = J * u + a /\ a >= 0 /\ a < J /\ a \in 0 .. J - 1 /\ k = (P * a) \div J
      /\ IndexAt(p, t) = ((u % P) - k) % P
  BY <1>1, <1>2 DEF TimeParts
<1>4. k = m * a
  <2>1. PICK x \in Int, y \in Int : x = P * a /\ y = m * a
    BY <1>1, <1>3
  <2>2. x = J * y + a
    BY <1>1, <1>3, <2>1
  <2>3. PICK K \in Nat \ {0} : K = J
    OBVIOUS
  <2>4. a \in 0 .. K - 1 /\ x = K * y + a
    BY <1>3, <2>2, <2>3
  <2>5. x \div K = y
    BY <2>4, DivModUnique
  <2> QED
    BY <1>3, <2>1, <2>3, <2>5
<1>5. PICK v \in Int, d \in Int : v = u % P /\ u = P * d + v
  <2>1. u = P * (u \div P) + (u % P) /\ u \div P \in Int /\ u % P \in 0 .. P - 1
    BY DivMod
  <2>2. PICK v \in Int, d \in Int : v = u % P /\ d = u \div P
    BY <2>1
  <2>3. u = P * d + v
    BY <2>1, <2>2
  <2> QED
    BY <2>2, <2>3
<1>6. PICK w \in Int, b \in Int, i \in Int : w = v - k /\ i = w % P /\ w = P * b + i
  <2>1. PICK w \in Int : w = v - k
    OBVIOUS
  <2>2. w = P * (w \div P) + (w % P) /\ w \div P \in Int /\ w % P \in 0 .. P - 1
    BY DivMod
  <2>3. PICK i \in Int, b \in Int : i = w % P /\ b = w \div P
    BY <2>2
  <2>4. w = P * b + i
    BY <2>2, <2>3
  <2> QED
    BY <2>1, <2>3, <2>4
<1>7. IndexAt(p, t) = i
  BY <1>3, <1>5, <1>6
<1>8. i = P * (u - d - b) - m * t
  <2>1. i = u - P * d - m * a - P * b
    <3>1. PICK pd \in Int, ma \in Int, pb \in Int : pd = P * d /\ ma = m * a /\ pb = P * b
      BY <1>1
    <3>2. u = pd + v /\ w = v - ma /\ w = pb + i
      BY <1>4, <1>5, <1>6, <3>1
    <3>3. i = u - pd - ma - pb
      BY <3>2
    <3> QED
      BY <3>1, <3>3
  <2>2. m * t = (m * J) * u + m * a
    BY <1>1, <1>3
  <2>3. (m * J) * u = P * u - u
    <3>1. m * J = P - 1
      BY <1>1
    <3>2. (P - 1) * u = P * u - u
      BY <1>1
    <3> QED
      BY <3>1, <3>2
  <2>4. P * (u - d - b) = P * u - P * d - P * b
    BY <1>1
  <2>5. PICK pu \in Int, pd \in Int, pb \in Int, ma \in Int, mt \in Int :
            pu = P * u /\ pd = P * d /\ pb = P * b /\ ma = m * a /\ mt = m * t
    BY <1>1, <1>3
  <2> QED
    BY <2>1, <2>2, <2>3, <2>4, <2>5
<1>9. u - d - b \in Int
  OBVIOUS
<1> QED
  BY <1>7, <1>8, <1>9 DEF StepIndex

\* When a throw lands.
EndAt(p, t) == t + HeightAt(p, t)

\* A throw lands when the juggler it goes to is to throw what its siteswap says.
LEMMA LandsInStep ==
    ASSUME NEW q, NEW f, NEW p, NEW P \in Nat \ {0}, NEW J \in Nat \ {0, 1},
           NEW m \in Int, InStep(p, q, f, P, J, m), NEW t \in Nat
    PROVE  /\ EndAt(p, t) \in Nat /\ EndAt(p, t) >= t
           /\ IndexAt(p, EndAt(p, t)) = NextAt(p)[IndexAt(p, t)]
           /\ JugglerAt(p, EndAt(p, t))
                = (JugglerAt(p, t) + GetToss(p, IndexAt(p, t)).pass) % p.jugglers
<1>0. Timed(p, q, f, P, J) /\ P = J * m + 1
  BY DEF InStep
<1>1. J \in Int /\ P \in Int /\ J = p.jugglers /\ P = PatternLength(p) /\ P = J * m + 1
  BY <1>0 DEF Timed
<1>2. PICK i \in Indices(p) : i = IndexAt(p, t) /\ i \in 0 .. P - 1 /\ i \in Int
  <2>1. IndexAt(p, t) \in Indices(p) /\ IndexAt(p, t) \in 0 .. P - 1
    BY <1>0, IndexAtIs
  <2> QED
    BY <2>1
<1>3. PICK h \in Nat, g \in Nat, s \in Int :
          h = GetToss(p, i).height /\ g = GetToss(p, i).pass /\ s = GetToss(p, i).siteswap
  BY <1>0, TossIs
<1>4. PICK L \in Int, c \in Int : h = J * L + P * g /\ s = L + P * c
  <2>1. PICK L \in Int, c \in Int : TossParts(p, P, J, i, L, c)
    BY <1>0, TossIs
  <2> QED
    BY <1>3, <2>1 DEF TossParts
<1>5. PICK e \in Nat : e = EndAt(p, t) /\ e = t + h /\ e >= t
  BY <1>2, <1>3 DEF EndAt, HeightAt
<1>6. PICK k \in Int : i = P * k - m * t
  <2>1. PICK k \in Int : StepIndex(p, P, m, t, k)
    BY IndexInStep
  <2> QED
    BY <1>2, <2>1 DEF StepIndex
<1>7. PICK l \in Int : IndexAt(p, e) = P * l - m * e
  <2>1. PICK l \in Int : StepIndex(p, P, m, e, l)
    BY IndexInStep
  <2> QED
    BY <2>1 DEF StepIndex
<1>8. IndexAt(p, e) \in 0 .. P - 1
  BY <1>0, IndexAtIs
<1>9. PICK x \in Int : x = l - k - L - m * g - c
  <2>1. m * g \in Int /\ c \in Int
    OBVIOUS
  <2> QED
    BY <2>1
<1>10. IndexAt(p, e) = i + s + P * x
  <2>1. PICK mt \in Int, mh \in Int, pl \in Int, pk \in Int, pL \in Int, pmg \in Int, pc \in Int, px \in Int,
             mg \in Int, jL \in Int, pg \in Int :
            /\ mt = m * t /\ mh = m * h /\ pl = P * l /\ pk = P * k /\ pL = P * L
            /\ mg = m * g /\ pmg = P * mg /\ pc = P * c /\ px = P * x /\ jL = J * L /\ pg = P * g
    <3>1. c \in Int /\ m * g \in Int
      OBVIOUS
    <3> QED
      BY <3>1
  <2>2. mh = pL - L + pmg
    <3>1. mh = m * (jL + pg)
      BY <1>4, <2>1
    <3>2. m * (jL + pg) = m * jL + m * pg
      OBVIOUS
    <3>3. m * jL = pL - L
      <4>1. m * (J * L) = (J * m) * L
        BY <1>1
      <4>2. J * m = P - 1
        BY <1>1
      <4>3. (P - 1) * L = P * L - L
        BY <1>1
      <4> QED
        BY <2>1, <4>1, <4>2, <4>3
    <3>4. m * pg = pmg
      <4>1. m * (P * g) = P * (m * g)
        BY <1>1
      <4> QED
        BY <2>1, <4>1
    <3> QED
      BY <3>1, <3>2, <3>3, <3>4
  <2>3. px = pl - pk - pL - pmg - pc
    <3>1. c \in Int
      OBVIOUS
    <3>2. P * (l - k - L - mg - c) = P * l - P * k - P * L - P * mg - P * c
      BY <1>1, <3>1
    <3> QED
      BY <1>9, <2>1, <3>2
  <2>4. m * e = mt + mh
    <3>1. m * (t + h) = m * t + m * h
      OBVIOUS
    <3> QED
      BY <1>5, <2>1, <3>1
  <2>5. i = pk - mt /\ s = L + pc
    BY <1>4, <1>6, <2>1
  <2>6. PICK y \in Int : y = IndexAt(p, e)
    BY <1>8
  <2>7. y = pl - (mt + mh)
    BY <1>7, <2>1, <2>4, <2>6
  <2>8. y = i + s + px
    BY <2>2, <2>3, <2>5, <2>7
  <2> QED
    BY <2>1, <2>6, <2>8
<1>11. PICK a \in Int, y \in 0 .. P - 1 : a = i + s /\ y = IndexAt(p, e) /\ y = a + P * x /\ y \in Int
  <2>1. PICK a \in Int : a = i + s
    BY <1>2
  <2> QED
    BY <1>8, <1>10, <2>1
<1>12. y = a % P
  <2>1. (a + P * x) % P = a % P
    BY SameModulo
  <2>2. PICK zero \in Int : zero = 0 /\ y = P * zero + y
    BY <1>1, <1>11
  <2>3. y % P = y
    BY <1>11, <2>2, DivModUnique
  <2> QED
    BY <1>11, <2>1, <2>3
<1>13. IndexAt(p, e) = NextAt(p)[i]
  <2>1. NextAt(p)[i] = (i + GetToss(p, i).siteswap) % PatternLength(p)
    BY DEF NextAt
  <2> QED
    BY <1>1, <1>3, <1>11, <1>12, <2>1
<1>14. PICK u \in Int, b \in Int, n \in Int : TimeParts(p, P, J, t, u, b, n)
  BY <1>0, IndexAtIs
<1>15. t = J * u + b /\ JugglerAt(p, t) = b
  BY <1>14 DEF TimeParts
<1>16. e % J = (b + g) % J
  <2>1. PICK v \in Int, z \in Int, K \in Nat \ {0} : v = u + L + m * g /\ z = b + g /\ K = J
    <3>1. m * g \in Int
      OBVIOUS
    <3> QED
      BY <3>1
  <2>2. e = z + K * v
    <3>0. PICK mg \in Int : mg = m * g
      OBVIOUS
    <3>1. PICK ju \in Int, jL \in Int, jmg \in Int, pg \in Int :
              mg = m * g /\ ju = J * u /\ jL = J * L /\ jmg = J * mg /\ pg = P * g
      <4>1. J * u \in Int /\ J * L \in Int /\ J * mg \in Int /\ P * g \in Int
        BY <1>1
      <4> QED
        BY <3>0, <4>1
    <3>2. pg = jmg + g
      <4>1. (J * m + 1) * g = J * (m * g) + g
        OBVIOUS
      <4> QED
        BY <1>1, <3>1, <4>1
    <3>3. J * (u + L + mg) = J * u + J * L + J * mg
      BY <1>1
    <3>4. K * v = ju + jL + jmg
      BY <2>1, <3>1, <3>3
    <3>5. e = ju + b + jL + pg
      BY <1>4, <1>5, <1>15, <3>1
    <3>6. PICK kv \in Int : kv = K * v
      BY <3>4
    <3> QED
      BY <2>1, <3>2, <3>4, <3>5, <3>6
  <2>3. (z + K * v) % K = z % K
    BY SameModulo
  <2> QED
    BY <2>1, <2>2, <2>3
<1>17. JugglerAt(p, e) = (JugglerAt(p, t) + GetToss(p, i).pass) % p.jugglers
  BY <1>1, <1>3, <1>15, <1>16 DEF JugglerAt
<1> QED
  BY <1>2, <1>5, <1>13, <1>17

\* No two throws land at the same time.
LEMMA LandsAlone ==
    ASSUME NEW q, NEW f, NEW p, NEW P \in Nat \ {0}, NEW J \in Nat \ {0, 1},
           NEW m \in Int, InStep(p, q, f, P, J, m), NEW s \in Nat, NEW t \in Nat, EndAt(p, s) = EndAt(p, t)
    PROVE  s = t
<1>0. Timed(p, q, f, P, J)
  BY DEF InStep
<1>1. IndexAt(p, s) \in Indices(p) /\ IndexAt(p, t) \in Indices(p)
  BY <1>0, IndexAtIs
<1>2. NextAt(p)[IndexAt(p, s)] = NextAt(p)[IndexAt(p, t)]
  <2>1. IndexAt(p, EndAt(p, s)) = NextAt(p)[IndexAt(p, s)]
    BY LandsInStep
  <2>2. IndexAt(p, EndAt(p, t)) = NextAt(p)[IndexAt(p, t)]
    BY LandsInStep
  <2> QED
    BY <2>1, <2>2
<1>3. IndexAt(p, s) = IndexAt(p, t)
  <2>1. Permutes(NextAt(p), Indices(p))
    BY <1>0, NextPermutes DEF Timed
  <2> QED
    BY <1>1, <1>2, <2>1 DEF Permutes
<1>4. PICK h \in Nat : h = HeightAt(p, s) /\ h = HeightAt(p, t)
  <2>1. HeightAt(p, s) \in Nat
    BY <1>0, IndexAtIs
  <2> QED
    BY <1>3, <2>1 DEF HeightAt
<1> QED
  BY <1>4 DEF EndAt

\* Where a club lands there is a throw to make.
LEMMA LandsOnThrow ==
    ASSUME NEW q, NEW f, NEW p, NEW P \in Nat \ {0}, NEW J \in Nat \ {0, 1},
           NEW m \in Int, InStep(p, q, f, P, J, m), NEW t \in Nat, HeightAt(p, t) # 0
    PROVE  HeightAt(p, EndAt(p, t)) # 0
<1> SUFFICES ASSUME HeightAt(p, EndAt(p, t)) = 0 PROVE FALSE
  OBVIOUS
<1>0. Timed(p, q, f, P, J)
  BY DEF InStep
<1>1. PICK e \in Nat : e = EndAt(p, t)
  BY LandsInStep
<1>2. EndAt(p, e) = e
  BY <1>1 DEF EndAt
<1>3. EndAt(p, e) = EndAt(p, t)
  BY <1>1, <1>2
<1>4. e = t
  BY <1>3, LandsAlone
<1> QED
  BY <1>1, <1>4

(***************************************************************************)
(* The clubs that are alive.                                               *)
(***************************************************************************)

ClubType(p) == [juggler : 0 .. p.jugglers - 1, right : BOOLEAN, end : Nat]
ClubsType(p) == [left : Int, clubs : Seq(ClubType(p))]

LEMMA AllClubs ==
    ASSUME NEW q, NEW f, NEW p, SearchedFor(p, q, f)
    PROVE  NumberOfClubs(p) = q.others.objects /\ NumberOfClubs(p) \in Nat
<1>1. PICK P \in Nat \ {0} : P = q.period
  BY DetailsOf
<1>2. PICK n \in Nat : n = q.others.objects
  BY DEF SearchedFor, GoodQuery
<1>3. Closed(Indices(p), NextAt(p))
  BY NextPermutes DEF Permutes, Closed
<1>4. /\ NumberOfObjects(p, Indices(p)) \in Int
      /\ q.period * NumberOfObjects(p, Indices(p)) = Sum(HeightsAt(p), Indices(p))
  BY <1>3, ObjectsOfOrbit
<1>5. PICK m \in Int : m = NumberOfObjects(p, Indices(p)) /\ P * m = P * n
  BY <1>1, <1>2, <1>4, AllHeights
<1>6. m = n
  <2>1. n \in Int
    OBVIOUS
  <2> QED
    BY <1>5, <2>1, Products
<1>7. NumberOfClubs(p) = NumberOfObjects(p, Indices(p))
  BY DEF NumberOfClubs, NumberOfObjects
<1> QED
  BY <1>2, <1>5, <1>6, <1>7

LEMMA ClubIs ==
    ASSUME NEW q, NEW f, NEW p, NEW P \in Nat \ {0},
           NEW J \in Nat \ {0, 1}, Timed(p, q, f, P, J), NEW t \in Nat
    PROVE  /\ Club(p, t) \in ClubType(p) /\ Club(p, t).end = EndAt(p, t)
           /\ Club(p, t).juggler
                = (JugglerAt(p, t) + GetToss(p, IndexAt(p, t)).pass) % p.jugglers
           /\ EndAt(p, t) \in Nat /\ EndAt(p, t) >= t
           /\ HeightAt(p, t) # 0 => EndAt(p, t) > t
<1>1. PICK h \in Nat : h = HeightAt(p, t)
  BY IndexAtIs
<1>2. EndAt(p, t) = t + h /\ t + h \in Nat /\ t + h >= t /\ (h # 0 => t + h > t)
  BY <1>1 DEF EndAt
<1>3. PICK K \in Nat \ {0} : K = J /\ K = p.jugglers
  BY DEF Timed
<1>4. PICK a \in Int : a = JugglerAt(p, t)
  <2>1. PICK u \in Int, b \in Int, k \in Int : TimeParts(p, P, J, t, u, b, k)
    BY IndexAtIs
  <2> QED
    BY <2>1 DEF TimeParts
<1>5. PICK g \in Int : g = GetToss(p, IndexAt(p, t)).pass
  <2>1. IndexAt(p, t) \in Indices(p)
    BY IndexAtIs
  <2>2. GetToss(p, IndexAt(p, t)).pass \in Nat
    BY <2>1, TossIs
  <2> QED
    BY <2>2
<1>6. PICK x \in Int, y \in 0 .. K - 1 : x = a + g /\ y = x % K
  <2>1. PICK x \in Int : x = a + g
    OBVIOUS
  <2>2. x % K \in 0 .. K - 1
    BY DivMod
  <2> QED
    BY <2>1, <2>2
<1>7. /\ Club(p, t).juggler = y /\ Club(p, t).end = t + h
      /\ Club(p, t) = [juggler |-> y,
                       right |-> (IndexAt(p, t) + GetToss(p, IndexAt(p, t)).siteswap) % 2 = 0,
                       end |-> t + h]
  BY <1>1, <1>3, <1>4, <1>5, <1>6 DEF Club, HeightAt
<1>8. Club(p, t) \in ClubType(p)
  <2>1. PICK z \in BOOLEAN : z = ((IndexAt(p, t) + GetToss(p, IndexAt(p, t)).siteswap) % 2 = 0)
    OBVIOUS
  <2>2. Club(p, t) = [juggler |-> y, right |-> z, end |-> t + h]
    BY <1>7, <2>1
  <2> QED
    BY <1>2, <1>3, <2>2 DEF ClubType
<1>9. Club(p, t).juggler = (JugglerAt(p, t) + GetToss(p, IndexAt(p, t)).pass) % p.jugglers
  BY <1>3, <1>4, <1>5, <1>6, <1>7
<1> QED
  BY <1>1, <1>2, <1>7, <1>8, <1>9

\* d is c without its r-th element.
Without(d, c, r, X) ==
    /\ d \in Seq(X) /\ Len(c) \in Nat /\ Len(d) = Len(c) - 1
    /\ DOMAIN c = 1 .. Len(c) /\ DOMAIN d = 1 .. Len(d)
    /\ \A i \in 1 .. Len(d) : d[i] = IF i < r THEN c[i] ELSE c[i + 1]

LEMMA RemovedAt ==
    ASSUME NEW X, NEW c \in Seq(X), NEW r \in DOMAIN c, NEW d, d = RemoveAt(c, r)
    PROVE  Without(d, c, r, X)
<1>1. PICK n \in Nat, k \in Int : n = Len(c) /\ k = r /\ k \in 1 .. n /\ DOMAIN c = 1 .. n
  OBVIOUS
<1>0. 1 <= k /\ k <= n /\ n \in Int /\ \A i \in 1 .. n : c[i] \in X
  BY <1>1
<1>2. PICK a \in Seq(X) : /\ a = SubSeq(c, 1, k - 1) /\ Len(a) = k - 1
                          /\ \A i \in 1 .. k - 1 : a[i] = c[i]
  <2>0. PICK one \in Int, j \in Int : one = 1 /\ j = k - 1
    OBVIOUS
  <2>1. \A i \in one .. j : c[i] \in X
    BY <1>0, <2>0
  <2>2. /\ SubSeq(c, one, j) \in Seq(X) /\ Len(SubSeq(c, one, j)) = IF one <= j THEN j - one + 1 ELSE 0
        /\ \A i \in 1 .. j - one + 1 : SubSeq(c, one, j)[i] = c[one + i - 1]
    BY <2>1, SubSeqProperties
  <2>3. \A i \in 1 .. k - 1 : i \in 1 .. j - one + 1 /\ one + i - 1 = i
    BY <1>0, <2>0
  <2>4. Len(SubSeq(c, one, j)) = k - 1
    BY <1>0, <2>0, <2>2
  <2>5. \A i \in 1 .. k - 1 : SubSeq(c, one, j)[i] = c[i]
    BY <2>2, <2>3
  <2> QED
    BY <2>0, <2>2, <2>4, <2>5
<1>3. PICK b \in Seq(X) : /\ b = SubSeq(c, k + 1, n) /\ Len(b) = n - k
                          /\ \A i \in 1 .. n - k : b[i] = c[k + i]
  <2>0. PICK j \in Int, l \in Int : l = n /\ j = k + 1
    OBVIOUS
  <2>1. \A i \in j .. l : c[i] \in X
    BY <1>0, <2>0
  <2>2. /\ SubSeq(c, j, l) \in Seq(X) /\ Len(SubSeq(c, j, l)) = IF j <= l THEN l - j + 1 ELSE 0
        /\ \A i \in 1 .. l - j + 1 : SubSeq(c, j, l)[i] = c[j + i - 1]
    BY <2>1, SubSeqProperties
  <2>3. \A i \in 1 .. n - k : i \in 1 .. l - j + 1 /\ j + i - 1 = k + i
    BY <1>0, <2>0
  <2>4. Len(SubSeq(c, j, l)) = n - k
    BY <1>0, <2>0, <2>2
  <2>5. \A i \in 1 .. n - k : SubSeq(c, j, l)[i] = c[k + i]
    BY <2>2, <2>3
  <2> QED
    BY <2>0, <2>2, <2>4, <2>5
<1>5. d = a \o b
  BY <1>1, <1>2, <1>3 DEF RemoveAt
<1>6. /\ d \in Seq(X) /\ Len(d) = n - 1 /\ DOMAIN d = 1 .. n - 1
      /\ \A i \in 1 .. n - 1 : d[i] = IF i <= k - 1 THEN a[i] ELSE b[i - (k - 1)]
  <2>1. /\ a \o b \in Seq(X) /\ Len(a \o b) = Len(a) + Len(b)
        /\ \A i \in 1 .. Len(a) + Len(b) : (a \o b)[i] = IF i <= Len(a) THEN a[i] ELSE b[i - Len(a)]
    BY ConcatProperties
  <2>2. Len(a) + Len(b) = n - 1
    BY <1>0, <1>2, <1>3
  <2>3. DOMAIN d = 1 .. Len(d)
    BY <1>5, <2>1
  <2> QED
    BY <1>2, <1>5, <2>1, <2>2, <2>3
<1>7. ASSUME NEW i \in 1 .. n - 1 PROVE d[i] = IF i < k THEN c[i] ELSE c[i + 1]
  <2>1. CASE i < k
    <3>1. i <= k - 1 /\ i \in 1 .. k - 1
      BY <1>1, <2>1
    <3> QED
      BY <1>2, <1>6, <2>1, <3>1
  <2>2. CASE ~(i < k)
    <3>1. PICK x \in Int : x = i
      OBVIOUS
    <3>2. PICK j \in Int : j = x - (k - 1) /\ k + j = x + 1 /\ j \in 1 .. n - k /\ ~(x <= k - 1)
      <4>1. PICK z \in Int : z = k /\ z = r /\ 1 <= z /\ ~(x < z) /\ x <= n - 1 /\ n \in Int
        BY <1>1, <2>2, <3>1
      <4>2. PICK j \in Int : j = x - (z - 1)
        OBVIOUS
      <4>3. PICK y \in Int : y = n /\ x <= y - 1
        BY <4>1
      <4>4. z + j = x + 1
        BY <4>2
      <4>5. 1 <= j /\ ~(x <= z - 1)
        BY <4>1, <4>2
      <4>6. j <= y - z
        BY <4>3, <4>4
      <4>7. j \in 1 .. n - z
        <5>1. j \in 1 .. y - z
          BY <4>5, <4>6
        <5> QED
          BY <4>3, <5>1
      <4> QED
        BY <4>1, <4>2, <4>4, <4>5, <4>7
    <3>3. d[i] = b[j]
      BY <1>6, <3>1, <3>2
    <3> QED
      BY <1>3, <2>2, <3>1, <3>2, <3>3
  <2> QED
    BY <2>1, <2>2
<1> QED
  BY <1>1, <1>6, <1>7 DEF Without

\* A throw at time t: the clubs in `kept' move to their places by b, at most one
\* club that lands is gone, and the club that is thrown comes last.
Moved(p, s, t, s2, kept, b) ==
    /\ s2 \in ClubsType(p) /\ s2.left + Len(s2.clubs) = s.left + Len(s.clubs)
    /\ s2.left \in {s.left, s.left - 1}
    /\ Len(s2.clubs) > 0 /\ s2.clubs[Len(s2.clubs)] = Club(p, t)
    /\ kept \subseteq DOMAIN s.clubs /\ b \in [kept -> 1 .. Len(s2.clubs) - 1]
    /\ \A i, k \in kept : b[i] = b[k] => i = k
    /\ \A y \in 1 .. Len(s2.clubs) - 1 : \E i \in kept : b[i] = y
    /\ \A i \in kept : s2.clubs[b[i]] = s.clubs[i]
    /\ \A i \in DOMAIN s.clubs \ kept : s.clubs[i].end = t
    /\ (\E i \in DOMAIN s.clubs : s.clubs[i].end = t) => kept # DOMAIN s.clubs

LEMMA Appended ==
    ASSUME NEW X, NEW c \in Seq(X), NEW x \in X, NEW d, d = Append(c, x)
    PROVE  /\ d \in Seq(X) /\ Len(c) \in Nat /\ Len(d) = Len(c) + 1
           /\ DOMAIN c = 1 .. Len(c) /\ DOMAIN d = 1 .. Len(d)
           /\ \A i \in 1 .. Len(c) : d[i] = c[i]
           /\ d[Len(d)] = x
<1>1. /\ d \in Seq(X) /\ Len(d) = Len(c) + 1
      /\ \A i \in 1 .. Len(c) : d[i] = c[i]
      /\ d[Len(c) + 1] = x
  BY AppendProperties
<1> QED
  BY <1>1

LEMMA NewThrow ==
    ASSUME NEW q, NEW f, NEW p, NEW P \in Nat \ {0},
           NEW J \in Nat \ {0, 1}, Timed(p, q, f, P, J), NEW t \in Nat,
           NEW s \in ClubsType(p), HeightAt(p, t) # 0,
           \A i \in DOMAIN s.clubs : s.clubs[i].end # t
    PROVE  \E kept, b : Moved(p, s, t, Throw(p, s, t), kept, b)
<1>1. PICK c \in Seq(ClubType(p)), l \in Int, x \in ClubType(p) :
          c = s.clubs /\ l = s.left /\ x = Club(p, t)
  BY ClubIs DEF ClubsType
<1>2. PICK d : d = Append(c, x)
  OBVIOUS
<1>3. Throw(p, s, t) = [left |-> l - 1, clubs |-> d]
  <2>1. {i \in DOMAIN s.clubs : s.clubs[i].end = t} = {}
    OBVIOUS
  <2> QED
    BY <1>1, <1>2, <2>1 DEF Throw, HeightAt
<1>4. /\ d \in Seq(ClubType(p)) /\ Len(c) \in Nat /\ Len(d) = Len(c) + 1
      /\ DOMAIN c = 1 .. Len(c)
      /\ \A i \in 1 .. Len(c) : d[i] = c[i]
      /\ d[Len(d)] = x
  BY <1>2, Appended
<1>5. PICK s2 : s2 = Throw(p, s, t) /\ s2.left = l - 1 /\ s2.clubs = d /\ s2 \in ClubsType(p)
  BY <1>3, <1>4 DEF ClubsType
<1> DEFINE b == [i \in DOMAIN c |-> i]
<1>6. b \in [DOMAIN c -> 1 .. Len(d) - 1]
  BY <1>4
<1>7. \A i \in DOMAIN c : b[i] = i
  OBVIOUS
<1> HIDE DEF b
<1>8. (l - 1) + Len(d) = l + Len(c) /\ Len(d) > 0 /\ 1 .. Len(d) - 1 = DOMAIN c
  BY <1>4
<1>9. Moved(p, s, t, s2, DOMAIN c, b)
  <2>1. /\ s2.left + Len(s2.clubs) = s.left + Len(s.clubs) /\ s2.left \in {s.left, s.left - 1}
        /\ Len(s2.clubs) > 0 /\ s2.clubs[Len(s2.clubs)] = Club(p, t)
    BY <1>1, <1>4, <1>5, <1>8
  <2>2. b \in [DOMAIN c -> 1 .. Len(s2.clubs) - 1] /\ \A i, k \in DOMAIN c : b[i] = b[k] => i = k
    BY <1>5, <1>6, <1>7
  <2>3. \A y \in 1 .. Len(s2.clubs) - 1 : \E i \in DOMAIN c : b[i] = y
    BY <1>5, <1>7, <1>8
  <2>4. \A i \in DOMAIN c : s2.clubs[b[i]] = s.clubs[i]
    BY <1>1, <1>4, <1>5, <1>7
  <2>5. DOMAIN c = DOMAIN s.clubs
    BY <1>1
  <2> QED
    BY <1>5, <2>1, <2>2, <2>3, <2>4, <2>5 DEF Moved
<1> QED
  BY <1>5, <1>9

LEMMA NextThrow ==
    ASSUME NEW q, NEW f, NEW p, NEW P \in Nat \ {0},
           NEW J \in Nat \ {0, 1}, Timed(p, q, f, P, J), NEW t \in Nat,
           NEW s \in ClubsType(p), HeightAt(p, t) # 0,
           \E i \in DOMAIN s.clubs : s.clubs[i].end = t
    PROVE  \E kept, b : Moved(p, s, t, Throw(p, s, t), kept, b)
<1>1. PICK c \in Seq(ClubType(p)), l \in Int, x \in ClubType(p) :
          c = s.clubs /\ l = s.left /\ x = Club(p, t)
  BY ClubIs DEF ClubsType
<1> DEFINE landing == {i \in DOMAIN c : c[i].end = t}
<1>2. landing # {} /\ landing \in SUBSET Nat
  <2>1. DOMAIN c \subseteq Nat
    OBVIOUS
  <2> QED
    BY <1>1, <2>1
<1>3. PICK r \in DOMAIN c : r = Min(landing) /\ c[r].end = t
  <2> DEFINE S == landing
  <2> HIDE DEF landing
  <2>1. Min(landing) \in landing
    BY <1>2, LeastOf
  <2> QED
    BY <2>1 DEF landing
<1>4. PICK e, d : e = RemoveAt(c, r) /\ d = Append(e, x)
  OBVIOUS
<1>5. Throw(p, s, t) = [left |-> l, clubs |-> d]
  <2>1. {i \in DOMAIN s.clubs : s.clubs[i].end = t} = landing
    BY <1>1
  <2> HIDE DEF landing
  <2> QED
    BY <1>1, <1>2, <1>3, <1>4, <2>1 DEF Throw, HeightAt
<1> HIDE DEF landing
<1>6. /\ e \in Seq(ClubType(p)) /\ Len(c) \in Nat /\ Len(e) = Len(c) - 1
      /\ DOMAIN c = 1 .. Len(c)
      /\ \A i \in 1 .. Len(e) : e[i] = IF i < r THEN c[i] ELSE c[i + 1]
  <2>1. PICK X : X = ClubType(p) /\ c \in Seq(X)
    OBVIOUS
  <2>2. Without(e, c, r, X)
    BY <1>4, <2>1, RemovedAt
  <2> QED
    BY <2>1, <2>2 DEF Without
<1>7. /\ d \in Seq(ClubType(p)) /\ Len(d) = Len(e) + 1 /\ Len(e) \in Nat
      /\ \A i \in 1 .. Len(e) : d[i] = e[i]
      /\ d[Len(d)] = x
  BY <1>4, <1>6, Appended
<1>8. PICK s2 : s2 = Throw(p, s, t) /\ s2.left = l /\ s2.clubs = d /\ s2 \in ClubsType(p)
  BY <1>5, <1>7 DEF ClubsType
<1>9. PICK n \in Nat : n = Len(c) /\ Len(d) = n /\ Len(e) = n - 1 /\ DOMAIN c = 1 .. n /\ r \in 1 .. n
  BY <1>6, <1>7
<1> DEFINE kept == 1 .. n \ {r}
           b == [i \in kept |-> IF i < r THEN i ELSE i - 1]
<1>10. b \in [kept -> 1 .. n - 1]
  BY <1>9
<1>11. \A i \in kept : b[i] = IF i < r THEN i ELSE i - 1
  OBVIOUS
<1>12. \A i, k \in kept : b[i] = b[k] => i = k
  BY <1>9
<1>13. \A y \in 1 .. n - 1 : \E i \in kept : b[i] = y
  <2> SUFFICES ASSUME NEW y \in 1 .. n - 1 PROVE \E i \in kept : b[i] = y
    OBVIOUS
  <2>1. CASE y < r
    <3>1. y \in kept /\ b[y] = y
      BY <1>9, <2>1
    <3> QED
      BY <3>1
  <2>2. CASE ~(y < r)
    <3>1. PICK k \in 1 .. n : k = y + 1 /\ k - 1 = y /\ k # r /\ ~(k < r)
      BY <1>9, <2>2
    <3>2. k \in kept /\ b[k] = y
      BY <3>1
    <3> QED
      BY <3>2
  <2> QED
    BY <2>1, <2>2
<1>14. \A i \in kept : d[b[i]] = c[i]
  <2> SUFFICES ASSUME NEW i \in kept PROVE d[b[i]] = c[i]
    OBVIOUS
  <2>1. i \in 1 .. n /\ i # r
    OBVIOUS
  <2>2. CASE i < r
    <3>1. i \in 1 .. Len(e) /\ b[i] = i
      BY <1>9, <2>1, <2>2
    <3>2. e[i] = c[i]
      BY <1>6, <2>2, <3>1
    <3> QED
      BY <1>7, <3>1, <3>2
  <2>3. CASE ~(i < r)
    <3>1. PICK k \in 1 .. Len(e) : k = i - 1 /\ ~(k < r) /\ k + 1 = i
      BY <1>9, <2>1, <2>3
    <3>2. b[i] = k
      BY <1>11, <2>3, <3>1
    <3>3. e[k] = c[i]
      BY <1>6, <3>1
    <3> QED
      BY <1>7, <3>1, <3>2, <3>3
  <2> QED
    BY <2>2, <2>3
<1>15. kept \subseteq DOMAIN c /\ kept # DOMAIN c /\ \A i \in DOMAIN c \ kept : i = r
  BY <1>9
<1> HIDE DEF kept, b
<1>16. Moved(p, s, t, s2, kept, b)
  <2>1. s2.left + Len(s2.clubs) = s.left + Len(s.clubs) /\ s2.left \in {s.left, s.left - 1}
    BY <1>1, <1>8, <1>9
  <2>2. Len(s2.clubs) > 0 /\ s2.clubs[Len(s2.clubs)] = Club(p, t)
    BY <1>1, <1>7, <1>8, <1>9
  <2>3. \A i \in DOMAIN s.clubs \ kept : s.clubs[i].end = t
    BY <1>1, <1>3, <1>15
  <2>4. kept \subseteq DOMAIN s.clubs /\ kept # DOMAIN s.clubs
    BY <1>1, <1>15
  <2>5. /\ b \in [kept -> 1 .. Len(s2.clubs) - 1]
        /\ \A y \in 1 .. Len(s2.clubs) - 1 : \E i \in kept : b[i] = y
    BY <1>8, <1>9, <1>10, <1>13
  <2>6. \A i \in kept : s2.clubs[b[i]] = s.clubs[i]
    BY <1>1, <1>8, <1>14
  <2> QED
    BY <1>8, <1>12, <2>1, <2>2, <2>3, <2>4, <2>5, <2>6 DEF Moved
<1> QED
  BY <1>8, <1>16

LEMMA ThrowMoves ==
    ASSUME NEW q, NEW f, NEW p, NEW P \in Nat \ {0},
           NEW J \in Nat \ {0, 1}, Timed(p, q, f, P, J), NEW t \in Nat,
           NEW s \in ClubsType(p)
    PROVE  IF HeightAt(p, t) = 0 THEN Throw(p, s, t) = s
           ELSE \E kept, b : Moved(p, s, t, Throw(p, s, t), kept, b)
<1>1. CASE HeightAt(p, t) = 0
  BY <1>1 DEF Throw, HeightAt
<1>2. CASE HeightAt(p, t) # 0
  <2>1. CASE \A i \in DOMAIN s.clubs : s.clubs[i].end # t
    BY <1>2, <2>1, NewThrow
  <2>2. CASE \E i \in DOMAIN s.clubs : s.clubs[i].end = t
    BY <1>2, <2>2, NextThrow
  <2> QED
    BY <1>2, <2>1, <2>2
<1> QED
  BY <1>1, <1>2

\* The throws before time T that land at T or later.
Flying(p, T) == {t \in 0 .. T - 1 : HeightAt(p, t) # 0 /\ EndAt(p, t) >= T}

\* Every throw in the air has a club of its own.
Carries(p, s, T, b) ==
    /\ b \in [Flying(p, T) -> DOMAIN s.clubs]
    /\ \A t, u \in Flying(p, T) : b[t] = b[u] => t = u
    /\ \A t \in Flying(p, T) : s.clubs[b[t]].end = EndAt(p, t)

ClubsInv(p, s, T) ==
    /\ s \in ClubsType(p) /\ s.left + Len(s.clubs) = NumberOfClubs(p)
    /\ \E b : Carries(p, s, T, b)

\* Every club is in the air, and no two land at the same time.
AllFly(p, s, T) ==
    /\ \A i \in DOMAIN s.clubs : \E t \in Flying(p, T) : s.clubs[i] = Club(p, t)
    /\ \A i, k \in DOMAIN s.clubs : s.clubs[i].end = s.clubs[k].end => i = k

LEMMA Grounded ==
    ASSUME NEW q, NEW f, NEW p, SearchedFor(p, q, f)
    PROVE  ClubsInv(p, NoClubs(p), 0) /\ AllFly(p, NoClubs(p), 0)
<1>1. NumberOfClubs(p) \in Nat
  BY AllClubs
<1>2. PICK c \in Seq(ClubType(p)) : c = <<>> /\ Len(c) = 0 /\ DOMAIN c = {}
  <2>1. PICK X : X = ClubType(p)
    OBVIOUS
  <2>2. PICK c : c = <<>>
    OBVIOUS
  <2>3. c \in Seq(X) /\ Len(c) = 0 /\ DOMAIN c = {}
    BY <2>2
  <2> QED
    BY <2>1, <2>2, <2>3
<1>3. NoClubs(p) = [left |-> NumberOfClubs(p), clubs |-> c]
  BY <1>2 DEF NoClubs
<1>4. NoClubs(p) \in ClubsType(p) /\ NoClubs(p).clubs = c /\ NoClubs(p).left = NumberOfClubs(p)
  BY <1>1, <1>3 DEF ClubsType
<1>5. Flying(p, 0) = {}
  BY DEF Flying
<1>6. PICK b : b = [t \in {} |-> 0]
  OBVIOUS
<1>7. Carries(p, NoClubs(p), 0, b)
  BY <1>2, <1>4, <1>5, <1>6 DEF Carries
<1>8. NoClubs(p).left + Len(NoClubs(p).clubs) = NumberOfClubs(p)
  BY <1>1, <1>2, <1>4
<1> QED
  BY <1>2, <1>4, <1>7, <1>8 DEF ClubsInv, AllFly

\* Time goes on over a throw of nothing.
LEMMA NothingThrown ==
    ASSUME NEW q, NEW f, NEW p, NEW P \in Nat \ {0}, NEW J \in Nat \ {0, 1},
           Timed(p, q, f, P, J), NEW T \in Nat, NEW s, ClubsInv(p, s, T), HeightAt(p, T) = 0
    PROVE  ClubsInv(p, s, T + 1)
<1>2. Flying(p, T + 1) \subseteq Flying(p, T)
  <2> SUFFICES ASSUME NEW t \in Flying(p, T + 1) PROVE t \in Flying(p, T)
    OBVIOUS
  <2>1. t \in 0 .. T /\ HeightAt(p, t) # 0 /\ EndAt(p, t) >= T + 1
    BY DEF Flying
  <2>2. t \in 0 .. T - 1
    BY <2>1
  <2>3. EndAt(p, t) \in Nat
    <3>1. t \in Nat
      BY <2>1
    <3> QED
      BY <3>1, ClubIs
  <2> QED
    BY <2>1, <2>2, <2>3 DEF Flying
<1>3. PICK b : Carries(p, s, T, b)
  BY DEF ClubsInv
<1>4. PICK d : d = [t \in Flying(p, T + 1) |-> b[t]]
  OBVIOUS
<1>5. Carries(p, s, T + 1, d)
  BY <1>2, <1>3, <1>4 DEF Carries
<1> QED
  BY <1>5 DEF ClubsInv

\* Time goes on over a throw.
LEMMA ClubThrown ==
    ASSUME NEW q, NEW f, NEW p, NEW P \in Nat \ {0}, NEW J \in Nat \ {0, 1},
           Timed(p, q, f, P, J), NEW T \in Nat, NEW s, ClubsInv(p, s, T),
           NEW s2, NEW kept, NEW m, Moved(p, s, T, s2, kept, m)
    PROVE  ClubsInv(p, s2, T + 1)
<1>1. PICK b : Carries(p, s, T, b)
  BY DEF ClubsInv
<1>2. PICK n \in Nat : n = Len(s2.clubs) /\ DOMAIN s2.clubs = 1 .. n /\ n > 0 /\ n \in 1 .. n
  <2>1. s2.clubs \in Seq(ClubType(p)) /\ Len(s2.clubs) > 0
    BY DEF Moved, ClubsType
  <2> QED
    BY <2>1
<1>3. ASSUME NEW t \in Flying(p, T + 1), t # T
      PROVE  t \in Flying(p, T) /\ b[t] \in kept
  <2>1. t \in 0 .. T /\ HeightAt(p, t) # 0 /\ EndAt(p, t) >= T + 1
    BY DEF Flying
  <2>2. t \in 0 .. T - 1
    BY <1>3, <2>1
  <2>3. EndAt(p, t) \in Nat
    <3>1. t \in Nat
      BY <2>1
    <3> QED
      BY <3>1, ClubIs
  <2>4. t \in Flying(p, T) /\ EndAt(p, t) # T
    BY <2>1, <2>2, <2>3 DEF Flying
  <2>5. b[t] \in DOMAIN s.clubs /\ s.clubs[b[t]].end # T
    BY <1>1, <2>4 DEF Carries
  <2> QED
    BY <2>4, <2>5 DEF Moved
<1>4. /\ m \in [kept -> 1 .. n - 1]
      /\ \A i, k \in kept : m[i] = m[k] => i = k
      /\ \A i \in kept : s2.clubs[m[i]] = s.clubs[i]
      /\ s2.clubs[n] = Club(p, T)
  BY <1>2 DEF Moved
<1>5. PICK d : d = [t \in Flying(p, T + 1) |-> IF t = T THEN n ELSE m[b[t]]]
  OBVIOUS
<1>6. ASSUME NEW t \in Flying(p, T + 1), t # T
      PROVE  d[t] = m[b[t]] /\ d[t] \in 1 .. n - 1 /\ d[t] \in 1 .. n /\ d[t] # n
  <2>1. m[b[t]] \in 1 .. n - 1
    BY <1>3, <1>4, <1>6
  <2> QED
    BY <1>5, <1>6, <2>1
<1>7. ASSUME T \in Flying(p, T + 1) PROVE d[T] = n
  BY <1>5, <1>7
<1>8. d \in [Flying(p, T + 1) -> 1 .. n]
  BY <1>2, <1>5, <1>6
<1>9. ASSUME NEW t \in Flying(p, T + 1), NEW u \in Flying(p, T + 1), d[t] = d[u]
      PROVE  t = u
  <2>1. CASE t = T \/ u = T
    BY <1>6, <1>7, <1>9, <2>1
  <2>2. CASE t # T /\ u # T
    <3>1. m[b[t]] = m[b[u]] /\ b[t] \in kept /\ b[u] \in kept
      BY <1>3, <1>6, <1>9, <2>2
    <3>2. b[t] = b[u]
      BY <1>4, <3>1
    <3>3. t \in Flying(p, T) /\ u \in Flying(p, T)
      BY <1>3, <2>2
    <3> QED
      BY <1>1, <3>2, <3>3 DEF Carries
  <2> QED
    BY <2>1, <2>2
<1>10. ASSUME NEW t \in Flying(p, T + 1) PROVE s2.clubs[d[t]].end = EndAt(p, t)
  <2>1. CASE t = T
    BY <1>4, <1>7, <2>1, ClubIs
  <2>2. CASE t # T
    <3>1. s2.clubs[m[b[t]]] = s.clubs[b[t]]
      BY <1>3, <1>4, <2>2
    <3>2. s.clubs[b[t]].end = EndAt(p, t)
      BY <1>1, <1>3, <2>2 DEF Carries
    <3> QED
      BY <1>6, <2>2, <3>1, <3>2
  <2> QED
    BY <2>1, <2>2
<1>11. Carries(p, s2, T + 1, d)
  BY <1>2, <1>8, <1>9, <1>10 DEF Carries
<1> QED
  BY <1>11 DEF ClubsInv, Moved

LEMMA StillInAir ==
    ASSUME NEW q, NEW f, NEW p, NEW P \in Nat \ {0}, NEW J \in Nat \ {0, 1},
           Timed(p, q, f, P, J), NEW T \in Nat, NEW t \in Flying(p, T), EndAt(p, t) # T
    PROVE  t \in Flying(p, T + 1) /\ t \in Nat /\ HeightAt(p, t) # 0 /\ t # T
<1>1. t \in 0 .. T - 1 /\ HeightAt(p, t) # 0 /\ EndAt(p, t) >= T
  BY DEF Flying
<1>2. EndAt(p, t) \in Nat
  <2>1. t \in Nat
    BY <1>1
  <2> QED
    BY <2>1, ClubIs
<1>3. EndAt(p, t) >= T + 1 /\ t \in 0 .. (T + 1) - 1 /\ t # T /\ t \in Nat
  BY <1>1, <1>2
<1> QED
  BY <1>1, <1>3 DEF Flying

LEMMA NothingThrownInStep ==
    ASSUME NEW q, NEW f, NEW p, NEW P \in Nat \ {0}, NEW J \in Nat \ {0, 1}, NEW m \in Int,
           InStep(p, q, f, P, J, m), NEW T \in Nat, NEW s, AllFly(p, s, T), HeightAt(p, T) = 0
    PROVE  AllFly(p, s, T + 1)
<1>0. Timed(p, q, f, P, J)
  BY DEF InStep
<1>1. ASSUME NEW t \in Flying(p, T) PROVE t \in Flying(p, T + 1)
  <2>1. t \in Nat /\ HeightAt(p, t) # 0
    BY DEF Flying
  <2>2. EndAt(p, t) # T
    BY <2>1, LandsOnThrow
  <2> QED
    BY <1>0, <2>2, StillInAir
<1> QED
  BY <1>1 DEF AllFly

LEMMA ClubThrownInStep ==
    ASSUME NEW q, NEW f, NEW p, NEW P \in Nat \ {0}, NEW J \in Nat \ {0, 1}, NEW m \in Int,
           InStep(p, q, f, P, J, m), NEW T \in Nat, NEW s, AllFly(p, s, T), HeightAt(p, T) # 0,
           NEW s2, NEW kept, NEW b, Moved(p, s, T, s2, kept, b)
    PROVE  AllFly(p, s2, T + 1)
<1>0. Timed(p, q, f, P, J)
  BY DEF InStep
<1>1. PICK n \in Nat : n = Len(s2.clubs) /\ DOMAIN s2.clubs = 1 .. n /\ n > 0 /\ n \in 1 .. n
  <2>1. s2.clubs \in Seq(ClubType(p)) /\ Len(s2.clubs) > 0
    BY DEF Moved, ClubsType
  <2> QED
    BY <2>1
<1>2. T \in Flying(p, T + 1) /\ s2.clubs[n] = Club(p, T) /\ Club(p, T).end = EndAt(p, T)
  <2>1. EndAt(p, T) \in Nat /\ EndAt(p, T) > T /\ Club(p, T).end = EndAt(p, T)
    BY <1>0, ClubIs
  <2>2. T \in 0 .. (T + 1) - 1 /\ EndAt(p, T) >= T + 1
    BY <2>1
  <2> QED
    BY <1>1, <2>1, <2>2 DEF Flying, Moved
<1>3. ASSUME NEW i \in 1 .. n, i # n
      PROVE  \E k \in kept : /\ i = b[k] /\ s2.clubs[i] = s.clubs[k] /\ k \in DOMAIN s.clubs
  <2>1. i \in 1 .. n - 1
    BY <1>3
  <2> QED
    BY <1>1, <2>1 DEF Moved
<1>4. ASSUME NEW k \in kept
      PROVE  \E t \in Flying(p, T + 1) : s.clubs[k] = Club(p, t) /\ t # T /\ t \in Nat
  <2>1. k \in DOMAIN s.clubs
    BY DEF Moved
  <2>2. PICK t \in Flying(p, T) : s.clubs[k] = Club(p, t)
    BY <2>1 DEF AllFly
  <2>3. Club(p, t).end = EndAt(p, t)
    <3>1. t \in Nat
      BY DEF Flying
    <3> QED
      BY <1>0, <3>1, ClubIs
  <2>4. EndAt(p, t) # T
    <3> SUFFICES ASSUME EndAt(p, t) = T PROVE FALSE
      OBVIOUS
    <3>1. s.clubs[k].end = T
      BY <2>2, <2>3
    <3>2. PICK l \in DOMAIN s.clubs : l \notin kept
      BY <2>1, <3>1 DEF Moved
    <3>3. s.clubs[l].end = T
      BY <3>2 DEF Moved
    <3> QED
      BY <2>1, <3>1, <3>2, <3>3 DEF AllFly
  <2>5. t \in Flying(p, T + 1) /\ t \in Nat /\ t # T
    BY <1>0, <2>4, StillInAir
  <2> QED
    BY <2>2, <2>5
<1>5. ASSUME NEW i \in 1 .. n PROVE \E t \in Flying(p, T + 1) : s2.clubs[i] = Club(p, t)
  <2>1. CASE i = n
    BY <1>2, <2>1
  <2>2. CASE i # n
    <3>1. PICK k \in kept : s2.clubs[i] = s.clubs[k]
      BY <1>3, <2>2
    <3> QED
      BY <1>4, <3>1
  <2> QED
    BY <2>1, <2>2
<1>6. ASSUME NEW i \in 1 .. n, i # n PROVE s2.clubs[i].end # s2.clubs[n].end
  <2>1. PICK k \in kept : s2.clubs[i] = s.clubs[k]
    BY <1>3, <1>6
  <2>2. PICK t \in Flying(p, T + 1) : s.clubs[k] = Club(p, t) /\ t # T /\ t \in Nat
    BY <1>4
  <2>3. s2.clubs[i].end = EndAt(p, t)
    BY <1>0, <2>1, <2>2, ClubIs
  <2>4. EndAt(p, t) # EndAt(p, T)
    BY <2>2, LandsAlone
  <2> QED
    BY <1>2, <2>3, <2>4
<1>7. ASSUME NEW i \in 1 .. n, NEW k \in 1 .. n, s2.clubs[i].end = s2.clubs[k].end PROVE i = k
  <2>1. CASE i = n \/ k = n
    BY <1>6, <1>7, <2>1
  <2>2. CASE i # n /\ k # n
    <3>1. PICK x \in kept : i = b[x] /\ s2.clubs[i] = s.clubs[x] /\ x \in DOMAIN s.clubs
      BY <1>3, <2>2
    <3>2. PICK y \in kept : k = b[y] /\ s2.clubs[k] = s.clubs[y] /\ y \in DOMAIN s.clubs
      BY <1>3, <2>2
    <3>3. s.clubs[x].end = s.clubs[y].end
      BY <1>7, <3>1, <3>2
    <3>4. x = y
      BY <3>1, <3>2, <3>3 DEF AllFly
    <3> QED
      BY <3>1, <3>2, <3>4
  <2> QED
    BY <2>1, <2>2
<1> QED
  BY <1>1, <1>5, <1>7 DEF AllFly

(***************************************************************************)
(* The walk of getClubPositions.                                           *)
(***************************************************************************)

PositionsEq(g, p) ==
    g = [time \in Nat |-> IF time = 0 THEN NoClubs(p) ELSE Throw(p, g[time - 1], time - 1)]

\* The clubs from beat to beat.
PositionsAre(g, p) == g[0] = NoClubs(p) /\ \A n \in Nat : g[n + 1] = Throw(p, g[n], n)

AllThrown(g, p) == Min({time \in 0 .. LongestWalk(p) : g[time].left = 0})

LEMMA PositionsDef ==
    ASSUME NEW p, NEW g, g = CHOOSE h : PositionsEq(h, p)
    PROVE  GetClubPositions(p) = [time |-> AllThrown(g, p), clubs |-> g[AllThrown(g, p)].clubs]
<1>1. GetClubPositions(p)
        = [time |-> AllThrown(CHOOSE h : PositionsEq(h, p), p),
           clubs |-> (CHOOSE h : PositionsEq(h, p))[AllThrown(CHOOSE h : PositionsEq(h, p), p)].clubs]
  BY DEF GetClubPositions, PositionsEq, AllThrown
<1> QED
  BY <1>1

LEMMA ThrowType ==
    ASSUME NEW q, NEW f, NEW p, NEW P \in Nat \ {0}, NEW J \in Nat \ {0, 1},
           Timed(p, q, f, P, J), NEW t \in Nat, NEW s \in ClubsType(p)
    PROVE  Throw(p, s, t) \in ClubsType(p)
<1>1. CASE HeightAt(p, t) = 0
  <2>1. Throw(p, s, t) = s
    BY <1>1 DEF Throw, HeightAt
  <2> QED
    BY <2>1
<1>2. CASE HeightAt(p, t) # 0
  <2>1. PICK kept, b : Moved(p, s, t, Throw(p, s, t), kept, b)
    BY <1>2, NewThrow, NextThrow
  <2> QED
    BY <2>1 DEF Moved
<1> QED
  BY <1>1, <1>2

LEMMA PositionsExist ==
    ASSUME NEW q, NEW f, NEW p, SearchedFor(p, q, f)
    PROVE  \E g : PositionsEq(g, p)
<1>0. PICK P \in Nat \ {0}, J \in Nat \ {0, 1} : Timed(p, q, f, P, J)
  BY TimedIs
<1> DEFINE V == ClubsType(p)
           step == [n \in Nat |-> [s \in V |-> Throw(p, s, n)]]
<1>1. \A n \in Nat : \A s \in V : Throw(p, s, n) \in V
  BY <1>0, ThrowType
<1>2. NoClubs(p) \in V
  BY Grounded DEF ClubsInv
<1> HIDE DEF V
<1>3. Steps(step, NoClubs(p), V)
  BY <1>1, <1>2 DEF Steps
<1>4. \A n \in Nat : \A s \in V : step[n][s] = Throw(p, s, n)
  OBVIOUS
<1> HIDE DEF step
<1>5. PICK h : Follows(h, step, NoClubs(p), V)
  BY <1>3, StepsAreFollowed
<1>6. h \in [Nat -> V] /\ h[0] = NoClubs(p) /\ \A n \in Nat : h[n + 1] = step[n][h[n]]
  BY <1>5 DEF Follows
<1>7. ASSUME NEW n \in Nat
      PROVE  h[n] = IF n = 0 THEN NoClubs(p) ELSE Throw(p, h[n - 1], n - 1)
  <2>1. CASE n = 0
    BY <1>6, <2>1
  <2>2. CASE n # 0
    <3>1. PICK m \in Nat : m = n - 1 /\ n = m + 1
      BY <2>2
    <3>2. h[m] \in V /\ h[n] = step[m][h[m]]
      BY <1>6, <3>1
    <3>3. h[n] = Throw(p, h[m], m)
      BY <1>4, <3>2
    <3> QED
      BY <2>2, <3>1, <3>3
  <2> QED
    BY <2>1, <2>2
<1>8. h = [n \in Nat |-> h[n]]
  BY <1>6
<1>9. PositionsEq(h, p)
  BY <1>7, <1>8 DEF PositionsEq
<1> QED
  BY <1>9

LEMMA PositionsFollow ==
    ASSUME NEW p, NEW g, PositionsEq(g, p)
    PROVE  PositionsAre(g, p)
<1>1. ASSUME NEW n \in Nat
      PROVE  g[n] = IF n = 0 THEN NoClubs(p) ELSE Throw(p, g[n - 1], n - 1)
  BY DEF PositionsEq
<1>2. ASSUME NEW n \in Nat PROVE g[n + 1] = Throw(p, g[n], n)
  <2>1. PICK m \in Nat : m = n + 1 /\ m # 0 /\ m - 1 = n
    OBVIOUS
  <2>2. g[m] = Throw(p, g[m - 1], m - 1)
    BY <1>1, <2>1
  <2> QED
    BY <2>1, <2>2
<1> QED
  BY <1>1, <1>2 DEF PositionsAre

\* What is true of the clubs at every time.
LEMMA ClubsStep ==
    ASSUME NEW q, NEW f, NEW p, NEW P \in Nat \ {0}, NEW J \in Nat \ {0, 1},
           Timed(p, q, f, P, J), NEW t \in Nat, NEW s, ClubsInv(p, s, t)
    PROVE  /\ ClubsInv(p, Throw(p, s, t), t + 1)
           /\ Throw(p, s, t).left \in {s.left, s.left - 1}
<1>0. s \in ClubsType(p)
  BY DEF ClubsInv
<1>1. CASE HeightAt(p, t) = 0
  <2>1. ClubsInv(p, s, t + 1) /\ Throw(p, s, t) = s
    <3>1. Throw(p, s, t) = s
      BY <1>1 DEF Throw, HeightAt
    <3>2. ClubsInv(p, s, t + 1)
      BY <1>1, NothingThrown
    <3> QED
      BY <3>1, <3>2
  <2> QED
    BY <2>1
<1>2. CASE HeightAt(p, t) # 0
  <2>1. PICK kept, b : Moved(p, s, t, Throw(p, s, t), kept, b)
    BY <1>0, <1>2, NewThrow, NextThrow
  <2>2. ClubsInv(p, Throw(p, s, t), t + 1)
    BY <2>1, ClubThrown
  <2>3. Throw(p, s, t).left \in {s.left, s.left - 1}
    BY <2>1 DEF Moved
  <2> QED
    BY <2>2, <2>3
<1> QED
  BY <1>1, <1>2

LEMMA ClubsAlways ==
    ASSUME NEW q, NEW f, NEW p, SearchedFor(p, q, f), NEW g, PositionsAre(g, p)
    PROVE  \A t \in Nat : /\ ClubsInv(p, g[t], t)
                          /\ g[t + 1].left \in {g[t].left, g[t].left - 1}
<1>0. PICK P \in Nat \ {0}, J \in Nat \ {0, 1} : Timed(p, q, f, P, J)
  BY TimedIs
<1> DEFINE Good == {t \in Nat : ClubsInv(p, g[t], t)}
<1>1. 0 \in Good
  BY Grounded DEF PositionsAre
<1>2. \A t \in Nat : t \in Good => t + 1 \in Good
  <2> SUFFICES ASSUME NEW t \in Nat, ClubsInv(p, g[t], t) PROVE ClubsInv(p, g[t + 1], t + 1)
    OBVIOUS
  <2>1. g[t + 1] = Throw(p, g[t], t)
    BY DEF PositionsAre
  <2>2. ClubsInv(p, Throw(p, g[t], t), t + 1)
    BY <1>0, ClubsStep
  <2> QED
    BY <2>1, <2>2
<1> HIDE DEF Good
<1>3. Nat \subseteq Good
  BY <1>1, <1>2, Upwards
<1> USE DEF Good
<1> SUFFICES ASSUME NEW t \in Nat
             PROVE  ClubsInv(p, g[t], t) /\ g[t + 1].left \in {g[t].left, g[t].left - 1}
  OBVIOUS
<1>4. ClubsInv(p, g[t], t)
  BY <1>3
<1>5. g[t + 1] = Throw(p, g[t], t)
  BY DEF PositionsAre
<1>6. Throw(p, g[t], t).left \in {g[t].left, g[t].left - 1}
  BY <1>0, <1>4, ClubsStep
<1> QED
  BY <1>4, <1>5, <1>6

LEMMA AlwaysFly ==
    ASSUME NEW q, NEW f, NEW p, NEW P \in Nat \ {0}, NEW J \in Nat \ {0, 1}, NEW m \in Int,
           InStep(p, q, f, P, J, m), NEW g, PositionsAre(g, p)
    PROVE  \A t \in Nat : AllFly(p, g[t], t)
<1>0. Timed(p, q, f, P, J) /\ SearchedFor(p, q, f)
  BY DEF InStep, Timed
<1> DEFINE Good == {t \in Nat : AllFly(p, g[t], t)}
<1>1. 0 \in Good
  BY <1>0, Grounded DEF PositionsAre
<1>2. \A t \in Nat : t \in Good => t + 1 \in Good
  <2> SUFFICES ASSUME NEW t \in Nat, AllFly(p, g[t], t) PROVE AllFly(p, g[t + 1], t + 1)
    OBVIOUS
  <2>1. g[t + 1] = Throw(p, g[t], t)
    BY DEF PositionsAre
  <2>2. CASE HeightAt(p, t) = 0
    <3>1. Throw(p, g[t], t) = g[t]
      BY <2>2 DEF Throw, HeightAt
    <3>2. AllFly(p, g[t], t + 1)
      BY <2>2, NothingThrownInStep
    <3> QED
      BY <2>1, <3>1, <3>2
  <2>3. CASE HeightAt(p, t) # 0
    <3>1. g[t] \in ClubsType(p)
      BY <1>0, ClubsAlways DEF ClubsInv
    <3>2. PICK kept, b : Moved(p, g[t], t, Throw(p, g[t], t), kept, b)
      BY <1>0, <2>3, <3>1, NewThrow, NextThrow
    <3>3. AllFly(p, Throw(p, g[t], t), t + 1)
      BY <2>3, <3>2, ClubThrownInStep
    <3> QED
      BY <2>1, <3>3
  <2> QED
    BY <2>2, <2>3
<1> HIDE DEF Good
<1>3. Nat \subseteq Good
  BY <1>1, <1>2, Upwards
<1> QED
  BY <1>3 DEF Good

(***************************************************************************)
(* Heights that repeat: at some time as many clubs are in the air as the   *)
(* heights average to.                                                     *)
(***************************************************************************)

InAir(h, T) == {t \in 0 .. T - 1 : h[t] # 0 /\ t + h[t] >= T}

\* How much longer, after time T, the throw at t is in the air.
Gap(h, T) == [t \in Nat |-> IF t + h[t] >= T THEN t + h[t] - T ELSE 0]
Rest(h, T) == Sum(Gap(h, T), 0 .. T - 1)
Thrown(h, T) == Sum(h, 0 .. T - 1)

Repeats(h, W, M) ==
    /\ h \in [Nat -> Nat]
    /\ \A t \in Nat : h[t] <= M /\ h[t + W] = h[t]

LEMMA Before ==
    ASSUME NEW T \in Nat
    PROVE  /\ IsFiniteSet(0 .. T - 1) /\ IsFiniteSet(0 .. T)
           /\ 0 .. (T + 1) - 1 = 0 .. T
           /\ 0 .. T = (0 .. T - 1) \cup {T} /\ T \notin 0 .. T - 1
           /\ 0 .. T - 1 \subseteq Nat /\ 0 .. T \subseteq Nat
<1>1. PICK zero \in Int, t \in Int, u \in Int : zero = 0 /\ t = T - 1 /\ u = T
  OBVIOUS
<1>2. IsFiniteSet(zero .. t) /\ IsFiniteSet(zero .. u)
  BY FS_Interval
<1> QED
  BY <1>1, <1>2

LEMMA AirFinite ==
    ASSUME NEW h, NEW T \in Nat
    PROVE  IsFiniteSet(InAir(h, T)) /\ Cardinality(InAir(h, T)) \in Nat
<1>1. IsFiniteSet(0 .. T - 1) /\ InAir(h, T) \subseteq 0 .. T - 1
  BY Before DEF InAir
<1>2. IsFiniteSet(InAir(h, T))
  BY <1>1, FS_Subset
<1> QED
  BY <1>2, FS_CardinalityType

LEMMA GapType ==
    ASSUME NEW h \in [Nat -> Nat], NEW T \in Nat
    PROVE  /\ \A t \in Nat : Gap(h, T)[t] \in Int /\ Gap(h, T)[t] = IF t + h[t] >= T THEN t + h[t] - T ELSE 0
           /\ Rest(h, T) \in Int /\ Thrown(h, T) \in Int
<1>1. ASSUME NEW t \in Nat
      PROVE  Gap(h, T)[t] \in Int /\ Gap(h, T)[t] = IF t + h[t] >= T THEN t + h[t] - T ELSE 0
  BY DEF Gap
<1>2. IsFiniteSet(0 .. T - 1) /\ \A t \in 0 .. T - 1 : t \in Nat
  BY Before
<1>3. ASSUME NEW t \in 0 .. T - 1 PROVE Gap(h, T)[t] \in Int /\ h[t] \in Int
  <2>1. t \in Nat
    BY <1>2
  <2> QED
    BY <1>1, <2>1
<1>4. Rest(h, T) \in Int
  BY <1>2, <1>3, SumInt DEF Rest
<1>5. Thrown(h, T) \in Int
  BY <1>2, <1>3, SumInt DEF Thrown
<1> QED
  BY <1>1, <1>4, <1>5

LEMMA ThrownStep ==
    ASSUME NEW h \in [Nat -> Nat], NEW T \in Nat
    PROVE  Thrown(h, T + 1) = Thrown(h, T) + h[T]
<1>1. Sum(h, (0 .. T - 1) \cup {T}) = h[T] + Sum(h, 0 .. T - 1)
  <2>1. IsFiniteSet(0 .. T - 1) /\ T \notin 0 .. T - 1
    BY Before
  <2>2. \A t \in (0 .. T - 1) \cup {T} : h[t] \in Int
    OBVIOUS
  <2> QED
    BY <2>1, <2>2, SumAdd
<1>2. Thrown(h, T + 1) = h[T] + Thrown(h, T)
  BY <1>1, Before DEF Thrown
<1> QED
  BY <1>2, GapType

\* One beat later every throw in the air has one beat less to go.
LEMMA RestStep ==
    ASSUME NEW h \in [Nat -> Nat], NEW T \in Nat
    PROVE  Rest(h, T + 1) + Cardinality(InAir(h, T + 1)) >= Rest(h, T) + h[T]
<1> DEFINE U == 0 .. T
           S == 0 .. T - 1
           old == Gap(h, T)
           new == Gap(h, T + 1)
           ind == [t \in Nat |-> IF t + h[t] >= T + 1 THEN 1 ELSE 0]
           A == InAir(h, T + 1)
<1>1. ASSUME NEW t \in Nat
      PROVE  old[t] \in Int /\ new[t] \in Int /\ ind[t] \in Int /\ old[t] = new[t] + ind[t]
  BY DEF Gap
<1>2. /\ IsFiniteSet(S) /\ IsFiniteSet(U) /\ U = S \cup {T} /\ T \notin S
      /\ S \subseteq Nat /\ U \subseteq Nat /\ 0 .. (T + 1) - 1 = U
  BY Before
<1>3. old[T] = h[T] /\ h[T] \in Int
  BY DEF Gap
<1>4. A \subseteq U /\ \A t \in A : ind[t] = 1
  BY <1>2 DEF InAir
<1>5. \A t \in U \ A : ind[t] = 0
  BY <1>2 DEF InAir
<1>6. IsFiniteSet(A) /\ Cardinality(A) \in Nat
  BY AirFinite
<1>7. Rest(h, T) = Sum(old, S) /\ Rest(h, T + 1) = Sum(new, U)
  BY <1>2 DEF Rest
<1> HIDE DEF U, S, old, new, ind, A
<1>8. Sum(old, U) = old[T] + Sum(old, S)
  BY <1>1, <1>2, SumAdd
<1>9. Sum(old, U) = Sum(new, U) + Sum(ind, U)
  <2>1. \A t \in U : new[t] \in Int /\ ind[t] \in Int /\ old[t] = new[t] + ind[t]
    BY <1>1, <1>2
  <2> QED
    BY <1>2, <2>1, SumPlus
<1>10. Sum(ind, U) = Sum(ind, A) + Sum(ind, U \ A)
  <2>1. \A t \in U : ind[t] \in Int
    BY <1>1, <1>2
  <2> QED
    BY <1>2, <1>4, <2>1, SumUnion
<1>11. Sum(ind, A) <= 1 * Cardinality(A) /\ Sum(ind, A) \in Int
  <2>1. \A t \in A : ind[t] \in Int /\ ind[t] <= 1
    BY <1>4
  <2>2. PICK one \in Int : one = 1 /\ \A t \in A : ind[t] \in Int /\ ind[t] <= one
    BY <2>1
  <2>3. Sum(ind, A) <= one * Cardinality(A)
    BY <1>6, <2>2, SumBound
  <2>4. Sum(ind, A) \in Int
    BY <1>6, <2>1, SumInt
  <2> QED
    BY <2>2, <2>3, <2>4
<1>12. Sum(ind, U \ A) <= 0 * Cardinality(U \ A) /\ Sum(ind, U \ A) \in Int /\ Cardinality(U \ A) \in Nat
  <2>1. IsFiniteSet(U \ A)
    BY <1>2, FS_Subset
  <2>2. \A t \in U \ A : ind[t] \in Int /\ ind[t] <= 0
    BY <1>5
  <2>3. PICK zero \in Int : zero = 0 /\ \A t \in U \ A : ind[t] \in Int /\ ind[t] <= zero
    BY <2>2
  <2>4. Sum(ind, U \ A) <= zero * Cardinality(U \ A)
    BY <2>1, <2>3, SumBound
  <2>5. Sum(ind, U \ A) \in Int
    BY <2>1, <2>2, SumInt
  <2>6. Cardinality(U \ A) \in Nat
    BY <2>1, FS_CardinalityType
  <2> QED
    BY <2>3, <2>4, <2>5, <2>6
<1>13. Sum(old, S) \in Int /\ Sum(new, U) \in Int
  BY <1>1, <1>2, SumInt
<1>14. PICK a \in Int, b \in Int, c \in Int, d \in Int, e \in Int, k \in Int :
          /\ a = Sum(old, S) /\ b = Sum(new, U) /\ c = Sum(ind, A) /\ d = Sum(ind, U \ A)
          /\ e = h[T] /\ k = Cardinality(A)
  BY <1>3, <1>6, <1>11, <1>12, <1>13
<1>15. c <= k
  BY <1>6, <1>11, <1>14
<1>16. d <= 0
  <2>1. 0 * Cardinality(U \ A) = 0
    BY <1>12
  <2> QED
    BY <1>12, <1>14, <2>1
<1>17. e + a = b + (c + d)
  BY <1>3, <1>8, <1>9, <1>10, <1>14
<1>18. b + k >= a + e
  BY <1>15, <1>16, <1>17
<1> QED
  BY <1>7, <1>14, <1>18 DEF A

LEMMA ThrownRepeats ==
    ASSUME NEW h, NEW W \in Nat, NEW M, Repeats(h, W, M), NEW T \in Nat
    PROVE  Thrown(h, T + W) = Thrown(h, T) + Thrown(h, W)
<1>0. h \in [Nat -> Nat] /\ \A t \in Nat : h[t + W] = h[t]
  BY DEF Repeats
<1> DEFINE Good == {t \in Nat : Thrown(h, t + W) = Thrown(h, t) + Thrown(h, W)}
<1>1. 0 \in Good
  <2>1. 0 .. 0 - 1 = {}
    OBVIOUS
  <2>2. Thrown(h, 0) = 0
    BY <2>1, SumEmpty DEF Thrown
  <2>3. Thrown(h, W) \in Int
    BY <1>0, GapType
  <2> QED
    BY <2>2, <2>3
<1>2. \A t \in Nat : t \in Good => t + 1 \in Good
  <2> SUFFICES ASSUME NEW t \in Nat, Thrown(h, t + W) = Thrown(h, t) + Thrown(h, W)
               PROVE  Thrown(h, (t + 1) + W) = Thrown(h, t + 1) + Thrown(h, W)
    OBVIOUS
  <2>1. PICK u \in Nat : u = t + W /\ (t + 1) + W = u + 1
    OBVIOUS
  <2>2. Thrown(h, u + 1) = Thrown(h, u) + h[u]
    BY <1>0, ThrownStep
  <2>3. Thrown(h, t + 1) = Thrown(h, t) + h[t]
    BY <1>0, ThrownStep
  <2>4. h[u] = h[t] /\ h[t] \in Int
    BY <1>0, <2>1
  <2>5. PICK a \in Int, b \in Int, c \in Int : a = Thrown(h, t) /\ b = Thrown(h, W) /\ c = Thrown(h, u)
    BY <1>0, GapType
  <2>6. c = a + b
    BY <2>1, <2>5
  <2> QED
    BY <2>1, <2>2, <2>3, <2>4, <2>5, <2>6
<1> HIDE DEF Good
<1>3. Nat \subseteq Good
  BY <1>1, <1>2, Upwards
<1> QED
  BY <1>3 DEF Good

\* After W beats the air looks as it did.
LEMMA RestRepeats ==
    ASSUME NEW h, NEW W \in Nat, NEW M \in Nat, Repeats(h, W, M)
    PROVE  Rest(h, M + W) <= Rest(h, M)
<1>0. h \in [Nat -> Nat] /\ \A t \in Nat : h[t] <= M /\ h[t + W] = h[t]
  BY DEF Repeats
<1>1. PICK N \in Nat : N = M + W
  OBVIOUS
<1> DEFINE U == 0 .. N - 1
           A == 0 .. W - 1
           B == 0 .. M - 1
           new == Gap(h, N)
           old == Gap(h, M)
<1>2. IsFiniteSet(U) /\ IsFiniteSet(A) /\ IsFiniteSet(B) /\ U \subseteq Nat /\ A \subseteq Nat /\ B \subseteq Nat
  BY Before
<1>3. A \subseteq U
  BY <1>1
<1>4. ASSUME NEW t \in Nat
      PROVE  /\ new[t] \in Int /\ new[t] = IF t + h[t] >= N THEN t + h[t] - N ELSE 0
             /\ old[t] \in Int /\ old[t] = IF t + h[t] >= M THEN t + h[t] - M ELSE 0
  <2>1. new[t] \in Int /\ new[t] = IF t + h[t] >= N THEN t + h[t] - N ELSE 0
    BY <1>0, GapType
  <2>2. old[t] \in Int /\ old[t] = IF t + h[t] >= M THEN t + h[t] - M ELSE 0
    BY <1>0, GapType
  <2> QED
    BY <2>1, <2>2
<1>5. ASSUME NEW t \in A PROVE new[t] = 0
  <2>0. PICK x \in Nat : x = t /\ x < W
    OBVIOUS
  <2>1. PICK y \in Nat : y = h[x] /\ y <= M
    BY <1>0
  <2>2. ~(x + y >= N)
    BY <1>1, <2>0, <2>1
  <2> QED
    BY <1>4, <2>0, <2>1, <2>2
<1>6. ASSUME NEW t \in B PROVE new[t + W] = old[t] /\ t + W \in U \ A
  <2>0. PICK x \in Nat : x = t /\ x < M
    OBVIOUS
  <2>1. PICK y \in Nat : y = h[x] /\ h[x + W] = y
    BY <1>0
  <2>2. PICK z \in Nat : z = x + W /\ h[z] = y
    BY <2>0, <2>1
  <2>3. (z + y >= N <=> x + y >= M) /\ z + y - N = x + y - M
    BY <1>1, <2>0, <2>1, <2>2
  <2>4. new[z] = old[x]
    BY <1>4, <2>1, <2>2, <2>3
  <2>5. z \in U \ A
    BY <1>1, <2>0, <2>1, <2>2
  <2> QED
    BY <2>0, <2>2, <2>4, <2>5
<1>7. ASSUME NEW y \in U \ A PROVE \E t \in B : y = t + W
  <2>1. PICK x \in Int : x = y - W /\ x \in 0 .. M - 1 /\ y = x + W
    BY <1>1
  <2> QED
    BY <2>1
<1>8. Rest(h, N) = Sum(new, U) /\ Rest(h, M) = Sum(old, B)
  BY DEF Rest
<1>9. PICK b : b = [t \in B |-> t + W]
  OBVIOUS
<1>10. \A t, u \in B : t + W = u + W => t = u
  BY <1>2
<1>11. \A t \in B : b[t] = t + W
  BY <1>9
<1> HIDE DEF U, A, B, new, old
<1>12. Matches(b, B, old, U \ A, new)
  <2>1. b \in [B -> U \ A]
    BY <1>6, <1>9
  <2>2. \A t, u \in B : b[t] = b[u] => t = u
    BY <1>10, <1>11
  <2>3. \A t \in B : new[b[t]] = old[t] /\ old[t] \in Int
    BY <1>2, <1>4, <1>6, <1>11
  <2>4. \A y \in U \ A : \E t \in B : y = b[t]
    BY <1>7, <1>11
  <2> QED
    BY <2>1, <2>2, <2>3, <2>4 DEF Matches
<1>13. Sum(new, U \ A) = Sum(old, B)
  BY <1>2, <1>12, SumImage
<1>14. Sum(new, U) = Sum(new, A) + Sum(new, U \ A)
  <2>1. \A t \in U : new[t] \in Int
    BY <1>2, <1>4
  <2> QED
    BY <1>2, <1>3, <2>1, SumUnion
<1>15. Sum(new, A) <= 0 /\ Sum(new, A) \in Int
  <2>1. PICK zero \in Int : zero = 0 /\ \A t \in A : new[t] \in Int /\ new[t] <= zero
    BY <1>5
  <2>2. Sum(new, A) <= zero * Cardinality(A)
    BY <1>2, <2>1, SumBound
  <2>3. Cardinality(A) \in Nat
    BY <1>2, FS_CardinalityType
  <2>4. Sum(new, A) \in Int
    BY <1>2, <2>1, SumInt
  <2>5. zero * Cardinality(A) = 0
    BY <2>1, <2>3
  <2> QED
    BY <2>2, <2>4, <2>5
<1>16. Sum(old, B) \in Int
  BY <1>2, <1>4, SumInt
<1>17. Sum(new, U) <= Sum(old, B)
  BY <1>13, <1>14, <1>15, <1>16
<1> QED
  BY <1>1, <1>8, <1>17

\* If the heights of a round add up to n for every beat, then there are at some
\* time n throws in the air.
LEMMA SomeTimeFull ==
    ASSUME NEW h, NEW W \in Nat \ {0}, NEW M \in Nat, Repeats(h, W, M),
           NEW n \in Nat, Thrown(h, W) = W * n
    PROVE  \E T \in 0 .. M + W : Cardinality(InAir(h, T)) >= n
<1> SUFFICES ASSUME \A T \in 0 .. M + W : ~(Cardinality(InAir(h, T)) >= n)
             PROVE  FALSE
  OBVIOUS
<1>0. h \in [Nat -> Nat]
  BY DEF Repeats
<1>1. PICK c \in Int : c = n - 1
  OBVIOUS
<1>2. ASSUME NEW T \in 0 .. M + W PROVE Cardinality(InAir(h, T)) <= c
  <2>1. ~(Cardinality(InAir(h, T)) >= n) /\ Cardinality(InAir(h, T)) \in Nat
    BY AirFinite
  <2> QED
    BY <1>1, <2>1
<1> DEFINE Good == {k \in 0 .. W : Rest(h, M + k) + c * k >= Rest(h, M) + (Thrown(h, M + k) - Thrown(h, M))}
<1>3. 0 \in Good
  <2>1. Rest(h, M) \in Int /\ Thrown(h, M) \in Int /\ M + 0 = M
    BY <1>0, GapType
  <2>2. c * 0 = 0
    BY <1>1
  <2> QED
    BY <2>1, <2>2
<1>4. \A k \in 0 .. W - 1 : k \in Good => k + 1 \in Good
  <2> SUFFICES ASSUME NEW k \in 0 .. W - 1, k \in Good PROVE k + 1 \in Good
    OBVIOUS
  <2>1. PICK t \in Nat : t = M + k /\ M + (k + 1) = t + 1 /\ t + 1 \in 0 .. M + W /\ k + 1 \in 0 .. W
    OBVIOUS
  <2>2. Rest(h, t + 1) + Cardinality(InAir(h, t + 1)) >= Rest(h, t) + h[t]
    BY <1>0, RestStep
  <2>3. Cardinality(InAir(h, t + 1)) <= c /\ Cardinality(InAir(h, t + 1)) \in Nat
    BY <1>2, <2>1, AirFinite
  <2>4. Thrown(h, t + 1) = Thrown(h, t) + h[t]
    BY <1>0, ThrownStep
  <2>5. PICK r \in Int, s \in Int, a \in Int, b \in Int, e \in Int, r0 \in Int, a0 \in Int, d \in Int :
            /\ r = Rest(h, t) /\ s = Rest(h, t + 1) /\ a = Thrown(h, t) /\ b = Thrown(h, t + 1)
            /\ e = h[t] /\ r0 = Rest(h, M) /\ a0 = Thrown(h, M)
            /\ d = Cardinality(InAir(h, t + 1))
    <3>1. /\ Rest(h, t) \in Int /\ Rest(h, t + 1) \in Int /\ Thrown(h, t) \in Int /\ Thrown(h, t + 1) \in Int
          /\ Rest(h, M) \in Int /\ Thrown(h, M) \in Int
      <4>1. PICK u \in Nat : u = t + 1
        OBVIOUS
      <4> QED
        BY <1>0, <4>1, GapType
    <3>2. h[t] \in Int /\ Cardinality(InAir(h, t + 1)) \in Int
      BY <1>0, <2>3
    <3> QED
      BY <3>1, <3>2
  <2>6. PICK x \in Int, y \in Int : x = c * k /\ y = c * (k + 1) /\ y = x + c
    OBVIOUS
  <2>7. r + x >= r0 + (a - a0)
    BY <2>1, <2>5, <2>6
  <2>8. s + d >= r + e /\ d <= c /\ b = a + e
    BY <2>2, <2>3, <2>4, <2>5
  <2>9. s + y >= r0 + (b - a0)
    BY <2>6, <2>7, <2>8
  <2> QED
    BY <2>1, <2>5, <2>6, <2>9
<1>5. W \in Good
  <2> HIDE DEF Good
  <2>1. 0 .. W \subseteq Good
    BY <1>3, <1>4, UpTo
  <2> QED
    BY <2>1
<1>6. Rest(h, M + W) + c * W >= Rest(h, M) + (Thrown(h, M + W) - Thrown(h, M))
  BY <1>5
<1> HIDE DEF Good
<1>7. Thrown(h, M + W) = Thrown(h, M) + W * n
  BY ThrownRepeats
<1>8. Rest(h, M + W) <= Rest(h, M)
  BY RestRepeats
<1>9. PICK r \in Int, s \in Int, a \in Int :
          r = Rest(h, M) /\ s = Rest(h, M + W) /\ a = Thrown(h, M)
  <2>1. PICK u \in Nat : u = M + W
    OBVIOUS
  <2>2. Rest(h, M) \in Int /\ Rest(h, u) \in Int /\ Thrown(h, M) \in Int
    BY <1>0, GapType
  <2> QED
    BY <2>1, <2>2
<1>10. PICK x \in Int, y \in Int : x = W * n /\ y = c * W /\ x = y + W
  BY <1>1
<1> QED
  BY <1>6, <1>7, <1>8, <1>9, <1>10

LEMMA GreatestOf ==
    ASSUME NEW S \in SUBSET Nat, S # {}, NEW B \in Nat, \A x \in S : x <= B
    PROVE  Max(S) \in S /\ \A x \in S : x <= Max(S)
<1> DEFINE above == {b \in Nat : \A x \in S : x <= b}
<1>1. above # {} /\ above \in SUBSET Nat
  BY DEF above
<1>2. PICK m \in above : \A b \in above : m <= b
  <2> HIDE DEF above
  <2> QED
    BY <1>1, LeastNumber
<1>3. m \in S
  <2> SUFFICES ASSUME m \notin S PROVE FALSE
    OBVIOUS
  <2>1. PICK x \in S : x \in Nat
    OBVIOUS
  <2>2. \A y \in S : y \in Nat /\ y <= m /\ y # m
    OBVIOUS
  <2>3. PICK n \in Nat : n = m - 1
    BY <2>1, <2>2
  <2>4. n \in above
    BY <2>2, <2>3
  <2>5. m <= n
    BY <1>2, <2>4
  <2> QED
    BY <2>3, <2>5
<1>4. \A x \in S : m >= x
  OBVIOUS
<1>5. \E y \in S : \A x \in S : y >= x
  BY <1>3, <1>4
<1>6. Max(S) \in S /\ \A x \in S : Max(S) >= x
  BY <1>5 DEF Max
<1>7. \A x \in S : x \in Int
  OBVIOUS
<1> QED
  BY <1>6, <1>7

OverTime(p) == [t \in Nat |-> HeightAt(p, t)]
HighestThrow(p) == Max({toss.height : toss \in Range(p.tosses)})

LEMMA HighestThrowIs ==
    ASSUME NEW q, NEW f, NEW p, NEW P \in Nat \ {0}, NEW J \in Nat \ {0, 1}, Timed(p, q, f, P, J)
    PROVE  HighestThrow(p) \in Nat /\ \A t \in Nat : HeightAt(p, t) <= HighestThrow(p)
<1> DEFINE I == Indices(p)
           h == HeightsAt(p)
           S == {toss.height : toss \in Range(p.tosses)}
<1>0. P = PatternLength(p)
  BY DEF Timed
<1>1. I = 0 .. P - 1 /\ IsFiniteSet(I)
  BY DetailsOf DEF Timed
<1>2. \A i \in I : h[i] = GetToss(p, i).height /\ h[i] \in Nat
  BY TossIs DEF HeightsAt
<1>3. DOMAIN p.tosses = 1 .. P
  <2>1. f \in Patterns(q) /\ GoodQuery(q) /\ p.tosses = f /\ P = q.period
    BY DEF Timed, SearchedFor, NewPattern
  <2>2. Cycle(f, P)
    BY <2>1, PatternIs
  <2> QED
    BY <2>1, <2>2, CycleIs
<1>4. \A x \in S : \E i \in I : x = h[i]
  <2> SUFFICES ASSUME NEW x \in S PROVE \E i \in I : x = h[i]
    OBVIOUS
  <2>1. PICK k \in 1 .. P : x = p.tosses[k].height
    BY <1>3 DEF Range
  <2>2. PICK i \in I : i = k - 1 /\ i + 1 = k
    BY <1>1
  <2>3. GetToss(p, i) = p.tosses[k]
    BY <2>2 DEF GetToss
  <2> QED
    BY <1>2, <2>1, <2>2, <2>3
<1>5. \A i \in I : h[i] \in S
  <2> SUFFICES ASSUME NEW i \in I PROVE h[i] \in S
    OBVIOUS
  <2>1. PICK k \in 1 .. P : k = i + 1
    BY <1>1
  <2>2. p.tosses[k] \in Range(p.tosses)
    BY <1>3 DEF Range
  <2>3. GetToss(p, i) = p.tosses[k]
    BY <2>1 DEF GetToss
  <2> QED
    BY <1>2, <2>2, <2>3
<1> HIDE DEF I, h, S
<1>6. 0 \in I
  BY <1>1
<1>7. S \in SUBSET Nat /\ S # {}
  BY <1>2, <1>4, <1>5, <1>6
<1>8. \A i \in I : h[i] \in Int
  BY <1>2
<1>9. PICK B \in Nat : B = Sum(h, I)
  BY <1>1, <1>2, SumNat
<1>10. ASSUME NEW i \in I PROVE h[i] <= B
  <2>1. Sum(h, I) = h[i] + Sum(h, I \ {i})
    BY <1>1, <1>8, SumTake
  <2>2. IsFiniteSet(I \ {i}) /\ \A k \in I \ {i} : h[k] \in Nat
    BY <1>1, <1>2, FS_Subset
  <2>3. PICK r \in Nat : r = Sum(h, I \ {i})
    BY <2>2, SumNat
  <2> QED
    BY <1>2, <1>9, <2>1, <2>3
<1>11. \A x \in S : x <= B
  BY <1>4, <1>10
<1>12. Max(S) \in S /\ \A x \in S : x <= Max(S)
  BY <1>7, <1>11, GreatestOf
<1>13. HighestThrow(p) = Max(S)
  BY DEF HighestThrow, S
<1>14. ASSUME NEW t \in Nat PROVE HeightAt(p, t) <= HighestThrow(p)
  <2>1. IndexAt(p, t) \in I
    BY IndexAtIs DEF I
  <2>2. HeightAt(p, t) = h[IndexAt(p, t)]
    BY <1>2, <2>1 DEF HeightAt
  <2> QED
    BY <1>5, <1>12, <1>13, <2>1, <2>2
<1> QED
  BY <1>7, <1>12, <1>13, <1>14

LEMMA HeightsRepeat ==
    ASSUME NEW q, NEW f, NEW p, NEW P \in Nat \ {0}, NEW J \in Nat \ {0, 1}, Timed(p, q, f, P, J)
    PROVE  Repeats(OverTime(p), J * P, HighestThrow(p))
<1>1. \A t \in Nat : HeightAt(p, t) \in Nat
  BY IndexAtIs
<1>2. OverTime(p) \in [Nat -> Nat] /\ \A t \in Nat : OverTime(p)[t] = HeightAt(p, t)
  BY <1>1 DEF OverTime
<1>3. \A t \in Nat : t + J * P \in Nat /\ HeightAt(p, t + J * P) = HeightAt(p, t)
  BY ThrowsRepeat
<1>4. \A t \in Nat : HeightAt(p, t) <= HighestThrow(p)
  BY HighestThrowIs
<1> QED
  BY <1>2, <1>3, <1>4 DEF Repeats

\* Time t of a round is the u-th turn of juggler a.
TurnOf(p, P, J, t, u, a, k) ==
    t = J * u + a /\ a = t % J /\ k = (P * a) \div J /\ IndexAt(p, t) = (u - k) % P

LEMMA TurnOfIs ==
    ASSUME NEW q, NEW f, NEW p, NEW P \in Nat \ {0}, NEW J \in Nat \ {0, 1}, Timed(p, q, f, P, J),
           NEW t \in 0 .. J * P - 1
    PROVE  \E u \in 0 .. P - 1, a \in 0 .. J - 1, k \in Int : TurnOf(p, P, J, t, u, a, k)
<1>0. PICK K \in Nat \ {0} : K = J /\ J * P \in Int
  OBVIOUS
<1>1. t \in Nat /\ t < J * P
  BY <1>0
<1>2. PICK u \in Int, a \in Int, k \in Int : TimeParts(p, P, J, t, u, a, k)
  BY <1>1, IndexAtIs
<1>3. t = J * u + a /\ a \in 0 .. J - 1 /\ k = (P * a) \div J /\ IndexAt(p, t) = ((u % P) - k) % P
  BY <1>2 DEF TimeParts
<1>4. PICK ju \in Int, jp \in Int : ju = K * u /\ jp = K * P /\ ju + a = t /\ t < jp
  BY <1>0, <1>1, <1>3
<1>5. u < P
  <2>1. K * u < K * P
    BY <1>0, <1>3, <1>4
  <2>2. P \in Int
    OBVIOUS
  <2> QED
    BY <2>1, <2>2, Products
<1>6. -1 < u
  <2>1. PICK m \in Int : m = -1 /\ K * m = -K
    BY <1>0
  <2>2. K * m < K * u
    BY <1>0, <1>1, <1>3, <1>4, <2>1
  <2>3. m < u
    BY <2>2, Products
  <2> QED
    BY <2>1, <2>3
<1>7. u \in 0 .. P - 1
  BY <1>5, <1>6
<1>8. u % P = u
  <2>1. PICK zero \in Int : zero = 0 /\ u = P * zero + u
    OBVIOUS
  <2> QED
    BY <1>7, <2>1, DivModUnique
<1>9. t % J = a
  <2>1. t \in Int /\ a \in 0 .. K - 1 /\ t = K * u + a
    BY <1>0, <1>1, <1>3
  <2>2. t % K = a
    BY <2>1, DivModUnique
  <2> QED
    BY <1>0, <2>2
<1>10. TurnOf(p, P, J, t, u, a, k)
  BY <1>3, <1>8, <1>9 DEF TurnOf
<1> QED
  BY <1>3, <1>7, <1>10

\* The times of a round at which juggler a throws.
TurnsOf(J, P, a) == {t \in 0 .. J * P - 1 : t % J = a}

LEMMA RoundFinite ==
    ASSUME NEW P \in Nat \ {0}, NEW J \in Nat \ {0, 1}
    PROVE  IsFiniteSet(0 .. J * P - 1) /\ 0 .. J * P - 1 \subseteq Nat /\ J * P \in Nat \ {0}
<1>1. PICK K \in Nat \ {0} : K = J
  OBVIOUS
<1>2. K * P \in Nat \ {0}
  OBVIOUS
<1>3. PICK n \in Nat \ {0} : n = J * P
  BY <1>1, <1>2
<1>4. IsFiniteSet(0 .. n - 1) /\ 0 .. n - 1 \subseteq Nat
  BY Before
<1> QED
  BY <1>3, <1>4

\* In a round a juggler throws every throw of the pattern once.
LEMMA TurnsDiffer ==
    ASSUME NEW q, NEW f, NEW p, NEW P \in Nat \ {0}, NEW J \in Nat \ {0, 1}, Timed(p, q, f, P, J),
           NEW a, NEW s \in TurnsOf(J, P, a), NEW t \in TurnsOf(J, P, a),
           IndexAt(p, s) = IndexAt(p, t)
    PROVE  s = t
<1>1. s \in 0 .. J * P - 1 /\ t \in 0 .. J * P - 1 /\ s % J = a /\ t % J = a
  BY DEF TurnsOf
<1>2. PICK u \in 0 .. P - 1, b \in 0 .. J - 1, k \in Int : TurnOf(p, P, J, s, u, b, k)
  BY <1>1, TurnOfIs
<1>3. PICK v \in 0 .. P - 1, c \in 0 .. J - 1, l \in Int : TurnOf(p, P, J, t, v, c, l)
  BY <1>1, TurnOfIs
<1>4. /\ s = J * u + b /\ t = J * v + c /\ b = c /\ k = l
      /\ (u - k) % P = (v - k) % P
  <2>1. s = J * u + b /\ b = a /\ k = (P * b) \div J /\ IndexAt(p, s) = (u - k) % P
    BY <1>1, <1>2 DEF TurnOf
  <2>2. t = J * v + c /\ c = a /\ l = (P * c) \div J /\ IndexAt(p, t) = (v - l) % P
    BY <1>1, <1>3 DEF TurnOf
  <2>3. b = c /\ k = l
    BY <2>1, <2>2
  <2> QED
    BY <2>1, <2>2, <2>3
<1>5. PICK x \in Int, y \in Int : x = u - k /\ y = v - k /\ x % P = y % P
  BY <1>4
<1>6. PICK e \in Int : x = y + P * e
  BY <1>5, ModuloSame
<1>7. PICK u1 \in 1 .. P, v1 \in 1 .. P : u1 = u + 1 /\ v1 = v + 1
  OBVIOUS
<1>8. u1 % P = v1 % P
  <2>1. v1 \in Int /\ u1 = v1 + P * e
    <3>1. PICK pe \in Int : pe = P * e
      OBVIOUS
    <3> QED
      BY <1>5, <1>6, <1>7, <3>1
  <2>2. (v1 + P * e) % P = v1 % P
    BY <2>1, SameModulo
  <2> QED
    BY <2>1, <2>2
<1>9. u1 = v1
  BY <1>8, SameBeat
<1>10. u = v
  BY <1>7, <1>9
<1> QED
  BY <1>4, <1>10

LEMMA TurnsReach ==
    ASSUME NEW q, NEW f, NEW p, NEW P \in Nat \ {0}, NEW J \in Nat \ {0, 1}, Timed(p, q, f, P, J),
           NEW a \in 0 .. J - 1, NEW i \in 0 .. P - 1
    PROVE  \E t \in TurnsOf(J, P, a) : IndexAt(p, t) = i
<1>0. PICK K \in Nat \ {0} : K = J /\ J * P \in Int /\ a \in 0 .. K - 1
  OBVIOUS
<1>1. PICK x \in Int, k \in Int : x = P * a /\ k = x \div J
  <2>1. PICK x \in Int : x = P * a
    <3>1. a \in Int
      OBVIOUS
    <3> QED
      BY <3>1
  <2>2. x \div K \in Int
    BY DivMod
  <2> QED
    BY <1>0, <2>1, <2>2
<1>2. PICK w \in Int, u \in 0 .. P - 1, d \in Int : w = i + k /\ w = P * d + u
  <2>1. PICK w \in Int : w = i + k
    OBVIOUS
  <2>2. w = P * (w \div P) + (w % P) /\ w \div P \in Int /\ w % P \in 0 .. P - 1
    BY DivMod
  <2>3. PICK u \in 0 .. P - 1, d \in Int : u = w % P /\ d = w \div P
    BY <2>2
  <2>4. w = P * d + u
    BY <2>2, <2>3
  <2> QED
    BY <2>1, <2>3, <2>4
<1>3. PICK t \in Int : t = K * u + a /\ t \in 0 .. J * P - 1
  <2>1. PICK n \in Int : n = P - 1 /\ u <= n /\ K * n = K * P - K
    OBVIOUS
  <2>2. u \in Int /\ 0 <= u
    OBVIOUS
  <2>3. K * u <= K * n /\ K * u \in Int
    BY <2>1, <2>2, Products
  <2>4. K * 0 <= K * u /\ K * 0 = 0
    BY <2>2, Products
  <2>5. PICK ku \in Int, kp \in Int, b \in Int : ku = K * u /\ kp = K * P /\ b = a /\ 0 <= b /\ b <= K - 1
    BY <1>0, <2>3
  <2>6. PICK t \in Int : t = ku + b
    OBVIOUS
  <2>7. 0 <= t /\ t <= kp - 1
    BY <2>1, <2>3, <2>4, <2>5, <2>6
  <2>8. kp = J * P
    BY <1>0, <2>5
  <2>9. t \in 0 .. J * P - 1
    BY <2>7, <2>8
  <2> QED
    BY <2>5, <2>6, <2>9
<1>4. t % J = a
  <2>1. a \in Int /\ u \in Int
    OBVIOUS
  <2>2. t % K = a
    BY <1>0, <1>3, <2>1, DivModUnique
  <2> QED
    BY <1>0, <2>2
<1>5. PICK v \in 0 .. P - 1, b \in 0 .. J - 1, l \in Int : TurnOf(p, P, J, t, v, b, l)
  BY <1>3, TurnOfIs
<1>6. t = J * v + b /\ b = a /\ l = k /\ IndexAt(p, t) = (v - k) % P
  <2>1. t = J * v + b /\ b = t % J /\ l = (P * b) \div J /\ IndexAt(p, t) = (v - l) % P
    BY <1>5 DEF TurnOf
  <2>2. b = a
    BY <1>4, <2>1
  <2>3. l = k
    BY <1>1, <2>1, <2>2
  <2> QED
    BY <2>1, <2>2, <2>3
<1>7. v = u
  <2>1. K * v = K * u
    <3>1. PICK kv \in Int, ku \in Int, c \in Int : kv = K * v /\ ku = K * u /\ c = a
      OBVIOUS
    <3>2. t = kv + c /\ t = ku + c
      BY <1>0, <1>3, <1>6, <3>1
    <3> QED
      BY <3>1, <3>2
  <2>2. v \in Int /\ u \in Int
    OBVIOUS
  <2> QED
    BY <2>1, <2>2, Products
<1>8. PICK j \in Int, m \in Int, z \in Int : j = i /\ m = -d /\ z = u - k /\ z = j + P * m
  <2>1. PICK pd \in Int : pd = P * d /\ P * (-d) = -pd
    OBVIOUS
  <2>2. PICK m \in Int : m = -d
    OBVIOUS
  <2> QED
    BY <1>2, <2>1, <2>2
<1>9. z % P = j
  <2>1. (j + P * m) % P = j % P
    BY SameModulo
  <2>2. PICK zero \in Int : zero = 0 /\ j = P * zero + j /\ j \in 0 .. P - 1
    BY <1>8
  <2>3. j % P = j
    BY <2>2, DivModUnique
  <2> QED
    BY <1>8, <2>1, <2>3
<1>10. IndexAt(p, t) = i
  BY <1>6, <1>7, <1>8, <1>9
<1> QED
  BY <1>3, <1>4, <1>10 DEF TurnsOf

LEMMA JugglerThrows ==
    ASSUME NEW q, NEW f, NEW p, NEW P \in Nat \ {0}, NEW J \in Nat \ {0, 1}, Timed(p, q, f, P, J),
           NEW a \in 0 .. J - 1
    PROVE  Sum(OverTime(p), TurnsOf(J, P, a)) = Sum(HeightsAt(p), Indices(p))
<1> DEFINE b == [t \in TurnsOf(J, P, a) |-> IndexAt(p, t)]
           S == TurnsOf(J, P, a)
<1>1. IsFiniteSet(S) /\ S \subseteq Nat
  <2>1. S \subseteq 0 .. J * P - 1
    BY DEF TurnsOf
  <2> QED
    BY <2>1, RoundFinite, FS_Subset
<1>2. Indices(p) = 0 .. P - 1
  BY DetailsOf DEF Timed
<1>3. ASSUME NEW t \in S
      PROVE  /\ b[t] = IndexAt(p, t) /\ b[t] \in Indices(p)
             /\ HeightsAt(p)[b[t]] \in Int /\ OverTime(p)[t] = HeightsAt(p)[b[t]]
  <2>1. t \in Nat
    BY <1>1
  <2>2. IndexAt(p, t) \in Indices(p) /\ HeightAt(p, t) \in Nat
    BY <2>1, IndexAtIs
  <2>3. HeightsAt(p)[IndexAt(p, t)] = HeightAt(p, t)
    BY <2>2 DEF HeightsAt, HeightAt
  <2>4. OverTime(p)[t] = HeightAt(p, t)
    BY <2>1 DEF OverTime
  <2> QED
    BY <2>2, <2>3, <2>4
<1>4. \A s, t \in S : b[s] = b[t] => s = t
  <2> SUFFICES ASSUME NEW s \in S, NEW t \in S, b[s] = b[t] PROVE s = t
    OBVIOUS
  <2>1. IndexAt(p, s) = IndexAt(p, t)
    BY <1>3
  <2> QED
    BY <2>1, TurnsDiffer
<1>5. \A i \in Indices(p) : \E t \in S : b[t] = i
  <2> SUFFICES ASSUME NEW i \in 0 .. P - 1 PROVE \E t \in S : b[t] = i
    BY <1>2
  <2>1. PICK t \in S : IndexAt(p, t) = i
    BY TurnsReach
  <2> QED
    BY <1>3, <2>1
<1> HIDE DEF b, S
<1>6. Matches(b, S, OverTime(p), Indices(p), HeightsAt(p))
  BY <1>3, <1>4, <1>5 DEF Matches
<1>7. Sum(HeightsAt(p), Indices(p)) = Sum(OverTime(p), S)
  BY <1>1, <1>6, SumImage
<1> QED
  BY <1>7 DEF S

\* In a round as much is thrown as there are clubs, at every time.
LEMMA RoundThrows ==
    ASSUME NEW q, NEW f, NEW p, NEW P \in Nat \ {0}, NEW J \in Nat \ {0, 1}, Timed(p, q, f, P, J)
    PROVE  Thrown(OverTime(p), J * P) = (J * P) * q.others.objects
<1> DEFINE W == J * P
           h == OverTime(p)
           under(a) == {t \in 0 .. W - 1 : t % J < a}
           Good == {a \in 0 .. J : Sum(h, under(a)) = a * Sum(HeightsAt(p), Indices(p))}
<1>1. W \in Nat \ {0} /\ IsFiniteSet(0 .. W - 1) /\ 0 .. W - 1 \subseteq Nat
  BY RoundFinite
<1>2. PICK n \in Nat : n = q.others.objects
  BY DEF Timed, SearchedFor, GoodQuery
<1>3. PICK c \in Int : c = Sum(HeightsAt(p), Indices(p)) /\ c = P * n
  <2>1. Sum(HeightsAt(p), Indices(p)) = P * n
    BY <1>2, AllHeights DEF Timed
  <2> QED
    BY <2>1
<1>4. \A t \in Nat : h[t] \in Int
  <2>1. \A t \in Nat : HeightAt(p, t) \in Nat
    BY IndexAtIs
  <2> QED
    BY <2>1 DEF OverTime
<1>5. ASSUME NEW t \in 0 .. W - 1 PROVE t % J \in 0 .. J - 1
  <2>1. PICK K \in Nat \ {0}, s \in Int : K = J /\ s = t
    BY <1>1
  <2>2. s % K \in 0 .. K - 1
    BY DivMod
  <2> QED
    BY <2>1, <2>2
<1> HIDE DEF W, h
<1>6. 0 \in Good
  <2>1. under(0) = {}
    <3> SUFFICES ASSUME NEW t \in 0 .. W - 1, t % J < 0 PROVE FALSE
      OBVIOUS
    <3> QED
      BY <1>5
  <2>2. Sum(h, under(0)) = 0
    BY <2>1, SumEmpty
  <2> QED
    BY <1>3, <2>2
<1>7. \A a \in 0 .. J - 1 : a \in Good => a + 1 \in Good
  <2> SUFFICES ASSUME NEW a \in 0 .. J - 1, Sum(h, under(a)) = a * Sum(HeightsAt(p), Indices(p))
               PROVE  a + 1 \in Good
    OBVIOUS
  <2> DEFINE S == under(a + 1)
             T == under(a)
  <2>1. S \subseteq 0 .. W - 1 /\ IsFiniteSet(S) /\ \A t \in S : h[t] \in Int
    <3>1. S \subseteq 0 .. W - 1
      OBVIOUS
    <3> QED
      BY <1>1, <1>4, <3>1, FS_Subset
  <2>2. T \subseteq S
    <3> SUFFICES ASSUME NEW t \in 0 .. W - 1, t % J < a PROVE t % J < a + 1
      OBVIOUS
    <3> QED
      BY <1>5
  <2>3. S \ T = TurnsOf(J, P, a)
    <3>1. ASSUME NEW t \in 0 .. W - 1 PROVE (t % J < a + 1 /\ ~(t % J < a)) <=> t % J = a
      <4>1. PICK r \in Int : r = t % J
        BY <1>5
      <4> QED
        BY <4>1
    <3> QED
      BY <3>1 DEF TurnsOf, W
  <2> HIDE DEF S, T
  <2>4. Sum(h, S) = Sum(h, T) + Sum(h, S \ T)
    BY <2>1, <2>2, SumUnion
  <2>5. Sum(h, S \ T) = c
    <3>1. Sum(h, TurnsOf(J, P, a)) = Sum(HeightsAt(p), Indices(p))
      BY JugglerThrows DEF h
    <3> QED
      BY <1>3, <2>3, <3>1
  <2>6. Sum(h, T) = a * c
    BY <1>3 DEF T
  <2>7. Sum(h, S) = (a + 1) * c
    <3>1. (a + 1) * c = a * c + c
      BY <1>3
    <3> QED
      BY <2>4, <2>5, <2>6, <3>1
  <2>8. a + 1 \in 0 .. J
    OBVIOUS
  <2> QED
    BY <1>3, <2>7, <2>8 DEF S
<1>8. J \in Good
  <2> HIDE DEF Good
  <2>1. 0 .. J \subseteq Good
    BY <1>6, <1>7, UpTo
  <2> QED
    BY <2>1
<1>9. under(J) = 0 .. W - 1
  <2> SUFFICES ASSUME NEW t \in 0 .. W - 1 PROVE t % J < J
    OBVIOUS
  <2> QED
    BY <1>5
<1>10. Sum(h, 0 .. W - 1) = J * c
  BY <1>3, <1>8, <1>9
<1> HIDE DEF Good
<1>11. J * c = (J * P) * n
  BY <1>3
<1> QED
  BY <1>2, <1>10, <1>11 DEF Thrown, W, h

LEMMA AsManyClubs ==
    ASSUME NEW q, NEW f, NEW p, SearchedFor(p, q, f), NEW T \in Nat, NEW s, ClubsInv(p, s, T)
    PROVE  /\ s.left \in Int /\ Len(s.clubs) \in Nat /\ DOMAIN s.clubs = 1 .. Len(s.clubs)
           /\ s.left + Len(s.clubs) = q.others.objects
           /\ Cardinality(Flying(p, T)) <= Len(s.clubs)
<1>1. PICK c \in Seq(ClubType(p)), l \in Int : c = s.clubs /\ l = s.left /\ l + Len(c) = NumberOfClubs(p)
  <2>1. s.clubs \in Seq(ClubType(p)) /\ s.left \in Int
    BY DEF ClubsInv, ClubsType
  <2>2. s.left + Len(s.clubs) = NumberOfClubs(p)
    BY DEF ClubsInv
  <2> QED
    BY <2>1, <2>2
<1>2. PICK n \in Nat : n = Len(c) /\ DOMAIN c = 1 .. n
  OBVIOUS
<1>3. NumberOfClubs(p) = q.others.objects
  BY AllClubs
<1>4. PICK b : Carries(p, s, T, b)
  BY DEF ClubsInv
<1> DEFINE F == Flying(p, T)
           D == 1 .. n
<1>5. b \in [F -> D] /\ \A t, u \in F : b[t] = b[u] => t = u
  BY <1>1, <1>2, <1>4 DEF Carries
<1>6. IsFiniteSet(D) /\ Cardinality(D) = n
  <2>1. PICK one \in Int, k \in Int : one = 1 /\ k = n
    OBVIOUS
  <2>2. IsFiniteSet(one .. k) /\ Cardinality(one .. k) = IF one > k THEN 0 ELSE k - one + 1
    BY FS_Interval
  <2> QED
    BY <2>1, <2>2
<1>7. IsFiniteSet(F)
  <2>1. F \subseteq 0 .. T - 1
    BY DEF Flying
  <2> QED
    BY <2>1, Before, FS_Subset
<1> HIDE DEF F, D
<1>8. b \in Injection(F, D)
  BY <1>5 DEF Injection, IsInjective
<1>9. Cardinality(F) <= Cardinality(D)
  BY <1>6, <1>7, <1>8, FS_Injection
<1> QED
  BY <1>1, <1>2, <1>3, <1>6, <1>9 DEF F

\* The walk comes to a time at which no club is left to throw.
LEMMA WalkEnds ==
    ASSUME NEW q, NEW f, NEW p, SearchedFor(p, q, f), NEW g, PositionsAre(g, p)
    PROVE  AllThrown(g, p) \in Nat /\ g[AllThrown(g, p)].left = 0
<1>0. PICK P \in Nat \ {0}, J \in Nat \ {0, 1} : Timed(p, q, f, P, J)
  BY TimedIs
<1>1. PICK W \in Nat \ {0}, M \in Nat, n \in Nat :
          W = J * P /\ M = HighestThrow(p) /\ n = q.others.objects
  <2>1. J * P \in Nat \ {0}
    BY RoundFinite
  <2>2. HighestThrow(p) \in Nat
    BY <1>0, HighestThrowIs
  <2>3. q.others.objects \in Nat
    BY DEF SearchedFor, GoodQuery
  <2> QED
    BY <2>1, <2>2, <2>3
<1>2. LongestWalk(p) = W + M
  <2>1. p.jugglers = J /\ PatternLength(p) = P
    BY <1>0 DEF Timed
  <2> QED
    BY <1>1, <2>1 DEF LongestWalk, HighestThrow
<1>3. PICK h : h = OverTime(p)
  OBVIOUS
<1>4. Repeats(h, W, M) /\ Thrown(h, W) = W * n
  <2>1. Repeats(h, W, M)
    BY <1>0, <1>1, <1>3, HeightsRepeat
  <2>2. Thrown(h, W) = W * n
    BY <1>0, <1>1, <1>3, RoundThrows
  <2> QED
    BY <2>1, <2>2
<1>5. PICK T \in 0 .. M + W : Cardinality(InAir(h, T)) >= n
  BY <1>4, SomeTimeFull
<1>6. T \in Nat /\ T \in 0 .. LongestWalk(p)
  BY <1>2
<1>7. InAir(h, T) = Flying(p, T)
  <2>1. \A t \in 0 .. T - 1 : h[t] = HeightAt(p, t)
    BY <1>3, <1>6 DEF OverTime
  <2> QED
    BY <2>1 DEF InAir, Flying, EndAt
<1>8. g[T].left \in Int /\ g[T].left <= 0
  <2>1. ClubsInv(p, g[T], T)
    BY <1>6, ClubsAlways
  <2>2. /\ g[T].left \in Int /\ Len(g[T].clubs) \in Nat
        /\ g[T].left + Len(g[T].clubs) = q.others.objects
        /\ Cardinality(Flying(p, T)) <= Len(g[T].clubs)
    BY <1>6, <2>1, AsManyClubs
  <2>3. PICK k \in Int : k = Cardinality(InAir(h, T))
    BY <1>6, AirFinite
  <2>4. PICK l \in Int, m \in Int : l = g[T].left /\ m = Len(g[T].clubs) /\ l + m = n /\ k <= m /\ k >= n
    BY <1>1, <1>5, <1>7, <2>2, <2>3
  <2> QED
    BY <2>4
<1> DEFINE done == {t \in Nat : g[t].left <= 0}
<1>9. PICK t \in done : \A u \in done : t <= u
  <2>1. T \in done /\ done \in SUBSET Nat
    BY <1>6, <1>8
  <2> HIDE DEF done
  <2> QED
    BY <2>1, LeastNumber
<1>10. g[t].left = 0
  <2>1. \A u \in Nat : g[u].left \in Int
    <3> SUFFICES ASSUME NEW u \in Nat PROVE g[u].left \in Int
      OBVIOUS
    <3>1. ClubsInv(p, g[u], u)
      BY ClubsAlways
    <3> QED
      BY <3>1, AsManyClubs
  <2>2. CASE t = 0
    <3>1. g[t].left = NumberOfClubs(p)
      BY <2>2 DEF PositionsAre, NoClubs
    <3>2. NumberOfClubs(p) = n
      BY <1>1, AllClubs
    <3>3. g[t].left <= 0
      OBVIOUS
    <3> QED
      BY <3>1, <3>2, <3>3
  <2>3. CASE t # 0
    <3>1. PICK u \in Nat : u + 1 = t /\ u < t
      BY <2>3
    <3>2. u \notin done
      BY <1>9, <3>1
    <3>3. PICK x \in Int, y \in Int : x = g[u].left /\ y = g[t].left
      BY <2>1
    <3>4. ~(x <= 0) /\ y <= 0
      BY <3>2, <3>3
    <3>5. y \in {x, x - 1}
      BY <3>1, <3>3, ClubsAlways
    <3> QED
      BY <3>3, <3>4, <3>5
  <2> QED
    BY <2>2, <2>3
<1>11. t \in 0 .. LongestWalk(p)
  <2>1. T \in done
    BY <1>6, <1>8
  <2>2. t <= T
    BY <1>9, <2>1
  <2> QED
    BY <1>2, <2>2
<1>12. PICK Z \in SUBSET Nat : Z = {time \in 0 .. LongestWalk(p) : g[time].left = 0} /\ t \in Z
  <2>1. t \in {time \in 0 .. LongestWalk(p) : g[time].left = 0}
    BY <1>10, <1>11
  <2>2. PICK Z : Z = {time \in 0 .. LongestWalk(p) : g[time].left = 0}
    OBVIOUS
  <2>3. Z \in SUBSET Nat
    <3>1. 0 .. LongestWalk(p) \subseteq Nat
      BY <1>2
    <3> QED
      BY <2>2, <3>1
  <2> QED
    BY <2>1, <2>2, <2>3
<1>13. Min(Z) \in Z /\ AllThrown(g, p) = Min(Z)
  <2>1. Min(Z) \in Z
    BY <1>12, LeastOf
  <2> QED
    BY <1>12, <2>1 DEF AllThrown
<1> QED
  BY <1>12, <1>13

(***************************************************************************)
(* The clubs that the jugglers hold when the pattern starts.               *)
(***************************************************************************)

HeldIn(clubs, j, right) == {i \in DOMAIN clubs : clubs[i].juggler = j /\ clubs[i].right = right}

HeldSums(g, v, S) ==
    g = [s \in SUBSET S |-> IF s = {} THEN 0
                            ELSE (v[Pick(s)].left + v[Pick(s)].right) + g[s \ {Pick(s)}]]

SumHeld(v, S) == MapThenSumSet(LAMBDA j : v[j].left + v[j].right, S)

LEMMA SumOfHeld ==
    ASSUME NEW S, IsFiniteSet(S), NEW v, NEW h,
           \A i \in S : h[i] \in Int /\ h[i] = v[i].left + v[i].right
    PROVE  SumHeld(v, S) = Sum(h, S)
<1>1. SumHeld(v, S) = (CHOOSE g : HeldSums(g, v, S))[S]
  BY DEF SumHeld, MapThenSumSet, MapThenFoldSet, HeldSums, Pick
<1>2. \A g : HeldSums(g, v, S) <=> Sums(g, h, S)
  <2> SUFFICES ASSUME NEW g PROVE HeldSums(g, v, S) <=> Sums(g, h, S)
    OBVIOUS
  <2>1. \A s \in SUBSET S : s # {} => h[Pick(s)] = v[Pick(s)].left + v[Pick(s)].right
    BY PickIn
  <2>2. [s \in SUBSET S |-> IF s = {} THEN 0
                            ELSE (v[Pick(s)].left + v[Pick(s)].right) + g[s \ {Pick(s)}]]
          = [s \in SUBSET S |-> IF s = {} THEN 0 ELSE h[Pick(s)] + g[s \ {Pick(s)}]]
    BY <2>1
  <2> QED
    BY <2>2 DEF HeldSums, Sums
<1>3. \E g : Sums(g, h, S)
  BY SumsExist
<1>4. PICK g : g = (CHOOSE e : HeldSums(e, v, S)) /\ HeldSums(g, v, S)
  BY <1>2, <1>3
<1>5. Sums(g, h, S)
  BY <1>2, <1>4
<1>6. Sum(h, S) = g[S]
  BY <1>5, SumIs
<1> QED
  BY <1>1, <1>4, <1>6

LEMMA StartsAre ==
    ASSUME NEW p, NEW clubs, clubs = GetClubPositions(p).clubs, NEW j \in 0 .. p.jugglers - 1
    PROVE  /\ Starts(p)[j].left = Cardinality(HeldIn(clubs, j, FALSE))
           /\ Starts(p)[j].right = Cardinality(HeldIn(clubs, j, TRUE))
BY DEF Starts, HeldIn

\* Every club is in one hand of one juggler.
LEMMA HandsHoldAll ==
    ASSUME NEW p, NEW J \in Nat \ {0}, J = p.jugglers, NEW clubs \in Seq(ClubType(p)), NEW h,
           \A j \in 0 .. J - 1 :
              h[j] = Cardinality(HeldIn(clubs, j, FALSE)) + Cardinality(HeldIn(clubs, j, TRUE))
    PROVE  Sum(h, 0 .. J - 1) = Len(clubs) /\ \A j \in 0 .. J - 1 : h[j] \in Int
<1>1. PICK n \in Nat : n = Len(clubs) /\ DOMAIN clubs = 1 .. n
  OBVIOUS
<1> DEFINE D == 1 .. n
           under(a) == {i \in D : clubs[i].juggler < a}
           heldBy(j) == {i \in D : clubs[i].juggler = j}
           Good == {a \in 0 .. J : Sum(h, 0 .. a - 1) = Cardinality(under(a))}
<1>2. IsFiniteSet(D) /\ Cardinality(D) = n
  <2>1. PICK one \in Int, k \in Int : one = 1 /\ k = n
    OBVIOUS
  <2>2. IsFiniteSet(one .. k) /\ Cardinality(one .. k) = IF one > k THEN 0 ELSE k - one + 1
    BY FS_Interval
  <2> QED
    BY <2>1, <2>2
<1>3. \A i \in D : clubs[i].juggler \in 0 .. J - 1 /\ clubs[i].right \in BOOLEAN
  <2>1. \A i \in D : clubs[i] \in ClubType(p)
    BY <1>1
  <2> QED
    BY <2>1 DEF ClubType
<1>4. ASSUME NEW j \in 0 .. J - 1
      PROVE  IsFiniteSet(heldBy(j)) /\ Cardinality(heldBy(j)) = h[j] /\ h[j] \in Int
  <2>1. PICK l, r, c : /\ l = HeldIn(clubs, j, FALSE) /\ r = HeldIn(clubs, j, TRUE)
                       /\ c = heldBy(j)
    OBVIOUS
  <2>2. l \cup r = c /\ l \cap r = {} /\ l \subseteq D /\ r \subseteq D
    BY <1>1, <1>3, <2>1 DEF HeldIn
  <2>3. IsFiniteSet(l) /\ IsFiniteSet(r)
    BY <1>2, <2>2, FS_Subset
  <2>4. IsFiniteSet(c) /\ Cardinality(c) = Cardinality(l) + Cardinality(r) - Cardinality({})
    <3> HIDE DEF D
    <3>1. /\ IsFiniteSet(l \cup r)
          /\ Cardinality(l \cup r) = Cardinality(l) + Cardinality(r) - Cardinality(l \cap r)
      BY <2>3, FS_Union
    <3> QED
      BY <2>2, <3>1
  <2>5. Cardinality({}) = 0 /\ Cardinality(l) \in Nat /\ Cardinality(r) \in Nat
    BY <2>3, FS_EmptySet, FS_CardinalityType
  <2>6. h[j] = Cardinality(l) + Cardinality(r)
    BY <2>1
  <2>7. PICK x \in Nat, y \in Nat : x = Cardinality(l) /\ y = Cardinality(r)
    BY <2>5
  <2>8. IsFiniteSet(c) /\ Cardinality(c) = h[j] /\ h[j] \in Int
    BY <2>4, <2>5, <2>6, <2>7
  <2> QED
    BY <2>1, <2>8
<1>5. 0 \in Good
  <2>1. under(0) = {} /\ 0 .. 0 - 1 = {}
    BY <1>3
  <2> HIDE DEF under
  <2>2. Sum(h, 0 .. 0 - 1) = 0
    BY <2>1, SumEmpty
  <2>3. Cardinality(under(0)) = 0
    BY <2>1, FS_EmptySet
  <2> QED
    BY <2>2, <2>3
<1>6. \A a \in 0 .. J - 1 : a \in Good => a + 1 \in Good
  <2> SUFFICES ASSUME NEW a \in 0 .. J - 1, Sum(h, 0 .. a - 1) = Cardinality(under(a))
               PROVE  a + 1 \in Good
    OBVIOUS
  <2>1. PICK c : c = heldBy(a)
    OBVIOUS
  <2>2. IsFiniteSet(c) /\ Cardinality(c) = h[a] /\ h[a] \in Int
    <3> HIDE DEF heldBy
    <3> QED
      BY <1>4, <2>1
  <2>3. PICK u, v : u = under(a) /\ v = under(a + 1)
    OBVIOUS
  <2>4. u \cup c = v /\ u \cap c = {} /\ u \subseteq D
    BY <1>3, <2>1, <2>3
  <2>5. IsFiniteSet(u)
    BY <1>2, <2>4, FS_Subset
  <2>6. Cardinality(v) = Cardinality(u) + Cardinality(c) - Cardinality({})
    BY <2>2, <2>4, <2>5, FS_Union
  <2>7. Cardinality({}) = 0 /\ Cardinality(u) \in Nat
    BY <2>5, FS_EmptySet, FS_CardinalityType
  <2>8. PICK t \in Nat : t = a /\ 0 .. (a + 1) - 1 = (0 .. t - 1) \cup {t} /\ t \notin 0 .. t - 1
                         /\ IsFiniteSet(0 .. t - 1) /\ 0 .. t \subseteq 0 .. J - 1
    BY Before
  <2>9. Sum(h, (0 .. t - 1) \cup {t}) = h[t] + Sum(h, 0 .. t - 1)
    <3>1. ASSUME NEW j \in (0 .. t - 1) \cup {t} PROVE h[j] \in Int
      <4> HIDE DEF heldBy
      <4>1. j \in 0 .. J - 1
        BY <2>8
      <4> QED
        BY <1>4, <4>1
    <3> QED
      BY <2>8, <3>1, SumAdd
  <2> HIDE DEF under, D
  <2>10. Sum(h, 0 .. (a + 1) - 1) = Cardinality(under(a + 1))
    <3>1. Sum(h, 0 .. (a + 1) - 1) = Sum(h, (0 .. t - 1) \cup {t})
      BY <2>8
    <3>2. Sum(h, 0 .. t - 1) = Cardinality(u)
      BY <2>3, <2>8
    <3> QED
      BY <2>2, <2>3, <2>6, <2>7, <2>8, <2>9, <3>1, <3>2
  <2>11. a + 1 \in 0 .. J
    OBVIOUS
  <2> QED
    BY <2>10, <2>11
<1>7. J \in Good
  <2> HIDE DEF Good
  <2>1. 0 .. J \subseteq Good
    BY <1>5, <1>6, UpTo
  <2> QED
    BY <2>1
<1>8. under(J) = D
  BY <1>3
<1>9. Sum(h, 0 .. J - 1) = Cardinality(D)
  BY <1>7, <1>8
<1> HIDE DEF D, Good, under, heldBy
<1>10. \A j \in 0 .. J - 1 : h[j] \in Int
  BY <1>4
<1> QED
  BY <1>1, <1>2, <1>9, <1>10 DEF D

\* The jugglers start with all of the clubs.
LEMMA StartsHoldAll ==
    ASSUME NEW q, NEW f, NEW p, SearchedFor(p, q, f)
    PROVE  SumHeld(Starts(p), 0 .. p.jugglers - 1) = q.others.objects
<1>1. PICK g : g = (CHOOSE h : PositionsEq(h, p)) /\ PositionsEq(g, p)
  BY PositionsExist
<1>2. PositionsAre(g, p)
  BY <1>1, PositionsFollow
<1>3. PICK t \in Nat : t = AllThrown(g, p) /\ g[t].left = 0
  BY <1>2, WalkEnds
<1>4. PICK clubs : clubs = g[t].clubs /\ clubs = GetClubPositions(p).clubs
  BY <1>1, <1>3, PositionsDef
<1>5. clubs \in Seq(ClubType(p)) /\ Len(clubs) = q.others.objects
  <2>1. ClubsInv(p, g[t], t)
    BY <1>2, ClubsAlways
  <2>2. clubs \in Seq(ClubType(p))
    BY <1>4, <2>1 DEF ClubsInv, ClubsType
  <2>3. Len(g[t].clubs) \in Nat /\ g[t].left + Len(g[t].clubs) = q.others.objects
    BY <2>1, AsManyClubs
  <2> QED
    BY <1>3, <1>4, <2>2, <2>3
<1>6. PICK J \in Nat \ {0} : J = p.jugglers
  <2>1. PICK P \in Nat \ {0}, J \in Nat \ {0, 1} : Timed(p, q, f, P, J)
    BY TimedIs
  <2> QED
    BY <2>1 DEF Timed
<1>7. PICK h : h = [j \in 0 .. J - 1 |-> Cardinality(HeldIn(clubs, j, FALSE)) + Cardinality(HeldIn(clubs, j, TRUE))]
  OBVIOUS
<1>8. \A j \in 0 .. J - 1 : h[j] = Cardinality(HeldIn(clubs, j, FALSE)) + Cardinality(HeldIn(clubs, j, TRUE))
  BY <1>7
<1>9. Sum(h, 0 .. J - 1) = Len(clubs) /\ \A j \in 0 .. J - 1 : h[j] \in Int
  BY <1>5, <1>6, <1>8, HandsHoldAll
<1>10. \A j \in 0 .. J - 1 : h[j] = Starts(p)[j].left + Starts(p)[j].right
  <2> SUFFICES ASSUME NEW j \in 0 .. J - 1 PROVE h[j] = Starts(p)[j].left + Starts(p)[j].right
    OBVIOUS
  <2>1. j \in 0 .. p.jugglers - 1
    BY <1>6
  <2>2. /\ Starts(p)[j].left = Cardinality(HeldIn(clubs, j, FALSE))
        /\ Starts(p)[j].right = Cardinality(HeldIn(clubs, j, TRUE))
    BY <1>4, <2>1, StartsAre
  <2> QED
    BY <1>8, <2>2
<1>11. SumHeld(Starts(p), 0 .. J - 1) = Sum(h, 0 .. J - 1)
  <2>1. IsFiniteSet(0 .. J - 1)
    BY Before
  <2> QED
    BY <1>9, <1>10, <2>1, SumOfHeld
<1> QED
  BY <1>5, <1>6, <1>9, <1>11

\* Jugglers who keep step catch what they hold in time, one club after the other.
CaughtInTime(p, clubs, time) ==
    \A i, k \in DOMAIN clubs :
        /\ clubs[i].end >= time
        /\ JugglerAt(p, clubs[i].end) = clubs[i].juggler
        /\ GetToss(p, IndexAt(p, clubs[i].end)).height # 0
        /\ clubs[i].end = clubs[k].end => i = k

LEMMA StartsCatch ==
    ASSUME NEW q, NEW f, NEW p, SearchedFor(p, q, f), PatternLength(p) % p.jugglers = 1
    PROVE  CaughtInTime(p, GetClubPositions(p).clubs, GetClubPositions(p).time)
<1>1. PICK g : g = (CHOOSE h : PositionsEq(h, p)) /\ PositionsEq(g, p)
  BY PositionsExist
<1>2. PositionsAre(g, p)
  BY <1>1, PositionsFollow
<1>3. PICK t \in Nat : t = AllThrown(g, p)
  BY <1>2, WalkEnds
<1>4. PICK clubs : clubs = g[t].clubs /\ clubs = GetClubPositions(p).clubs /\ t = GetClubPositions(p).time
  BY <1>1, <1>3, PositionsDef
<1>5. PICK P \in Nat \ {0}, J \in Nat \ {0, 1} : Timed(p, q, f, P, J)
  BY TimedIs
<1>6. PICK m \in Int : InStep(p, q, f, P, J, m)
  <2>1. PICK K \in Nat \ {0}, s \in Int : K = J /\ s = P
    OBVIOUS
  <2>2. s = K * (s \div K) + (s % K) /\ s \div K \in Int /\ s % K \in 0 .. K - 1
    BY DivMod
  <2>3. PICK m \in Int : m = s \div K
    BY <2>2
  <2>4. s % K = 1
    BY <1>5, <2>1 DEF Timed
  <2>5. P = J * m + 1
    BY <2>1, <2>2, <2>3, <2>4
  <2> QED
    BY <1>5, <2>5 DEF InStep
<1>7. AllFly(p, g[t], t)
  BY <1>2, <1>6, AlwaysFly
<1>8. ASSUME NEW i \in DOMAIN clubs
      PROVE  /\ clubs[i].end >= t
             /\ JugglerAt(p, clubs[i].end) = clubs[i].juggler
             /\ GetToss(p, IndexAt(p, clubs[i].end)).height # 0
  <2>1. PICK u \in Flying(p, t) : clubs[i] = Club(p, u)
    BY <1>4, <1>7 DEF AllFly
  <2>2. u \in Nat /\ HeightAt(p, u) # 0 /\ EndAt(p, u) >= t
    BY DEF Flying
  <2>3. clubs[i].end = EndAt(p, u)
    BY <1>5, <2>1, <2>2, ClubIs
  <2>4. clubs[i].juggler = (JugglerAt(p, u) + GetToss(p, IndexAt(p, u)).pass) % p.jugglers
    BY <1>5, <2>1, <2>2, ClubIs
  <2>5. JugglerAt(p, EndAt(p, u)) = (JugglerAt(p, u) + GetToss(p, IndexAt(p, u)).pass) % p.jugglers
    BY <1>6, <2>2, LandsInStep
  <2>6. HeightAt(p, EndAt(p, u)) # 0
    BY <1>6, <2>2, LandsOnThrow
  <2> QED
    BY <2>2, <2>3, <2>4, <2>5, <2>6 DEF HeightAt
<1>9. \A i, k \in DOMAIN clubs : clubs[i].end = clubs[k].end => i = k
  BY <1>4, <1>7 DEF AllFly
<1>10. CaughtInTime(p, clubs, t)
  BY <1>8, <1>9 DEF CaughtInTime
<1> QED
  BY <1>4, <1>10

\* Whatever pattern is clicked on, the start positions on the detail screen give
\* the jugglers as many clubs as the form asked for; and if the jugglers keep step,
\* each of these clubs is thrown again, by the one who holds it, at a time of its own.
THEOREM StartsAlwaysHold == ScreensSpec => []StartsHoldClubs
<1>1. RowInv /\ SearchedInv => StartsHoldClubs
  <2> SUFFICES ASSUME RowInv, SearchedInv, detail # Null PROVE StartsHoldClubs
    BY DEF StartsHoldClubs
  <2>1. PICK p, starts, q : p = pattern /\ starts = detail.starts /\ q = Query
    OBVIOUS
  <2>2. detail.pattern = p /\ pattern # Null /\ starts = Starts(p)
    BY <2>1 DEF RowInv, DetailShowsRow, SearchedInv
  <2>3. PICK f : SearchedFor(p, q, f)
    BY <2>1, <2>2 DEF SearchedInv
  <2>4. SumHeld(starts, 0 .. p.jugglers - 1) = q.others.objects
    BY <2>2, <2>3, StartsHoldAll
  <2>5. SumHeld(detail.starts, 0 .. p.jugglers - 1) = Query.others.objects
    BY <2>1, <2>4
  <2>6. MapThenSumSet(LAMBDA j : detail.starts[j].left + detail.starts[j].right, 0 .. p.jugglers - 1)
          = Query.others.objects
    BY <2>5 DEF SumHeld
  <2>7. ASSUME PatternLength(p) % p.jugglers = 1
        PROVE  CaughtInTime(p, GetClubPositions(p).clubs, GetClubPositions(p).time)
    BY <2>3, <2>7, StartsCatch
  <2> QED
    BY <2>2, <2>6, <2>7 DEF StartsHoldClubs, CaughtInTime
<1> QED
  BY <1>1, RowInvariant, SearchedInvariant, PTL
=============================================================================
