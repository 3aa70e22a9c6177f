------------------------------ MODULE Siteswap ------------------------------
(***************************************************************************)
(* What the query siteswap/14 of prechacthis.pl computes for the arguments *)
(* that PrechacGenerator passes: no constraint but the numbers of          *)
(* jugglers, objects and beats, the greatest height and the range of the   *)
(* passes.                                                                 *)
(*                                                                         *)
(* The query chooses, for every beat, the beat at which its throw is       *)
(* landing, takes the lowest throws that land so, which need not be        *)
(* positive, and raises them by multiples of Period/Jugglers, the          *)
(* Prechator, until the pattern holds the objects asked for.  It           *)
(* backtracks over all choices, in a random order: the sets given here are *)
(* what it finds.                                                          *)
(*                                                                         *)
(* Heights are rational numbers that divide by the number of jugglers.     *)
(* They are given here as integers, in units of 1/Jugglers of a beat.      *)
(*                                                                         *)
(* A query `q' is a record of the parameters, with `others' for the        *)
(* numbers of jugglers and objects and the greatest height.                *)
(***************************************************************************)
EXTENDS Integers, Sequences, FiniteSetsExt, Functions

Jugglers(q) == q.others.jugglers
Beats(q) == 1 .. q.period

Toss(height, pass, siteswap) == [height |-> height, pass |-> pass, siteswap |-> siteswap]

AmountOfPasses(tosses) == Cardinality({i \in DOMAIN tosses : tosses[i].pass > 0})

-----------------------------------------------------------------------------
(***************************************************************************)
(* The lowest throws for given landing sites.                              *)
(***************************************************************************)

SubtractUntilNonPositive(minuend, subtrahend) ==
    IF minuend <= 0 THEN minuend
    ELSE minuend - subtrahend * ((minuend + subtrahend - 1) \div subtrahend)

LandingSites2Pattern(q, sites) ==
    [i \in Beats(q) |-> SubtractUntilNonPositive(sites[i] - i, q.period)]

\* The mean of the throws: landing sites that are a permutation make it whole.
Objects(q, base) ==
    (Jugglers(q) * MapThenSumSet(LAMBDA i : base[i], Beats(q))) \div q.period

-----------------------------------------------------------------------------
(***************************************************************************)
(* addObjects: raise the throws from beat i on by `missing' Prechators in  *)
(* all, with at most `passes' passes.                                      *)
(***************************************************************************)

\* Mutant: any raised throw may be made, however low.
RaisedBelowOne(q, lowest, n, passes) ==
    LET j == Jugglers(q)
        index == n % j
        height == lowest * j + n * q.period
        original == height + IF index = 0 THEN 0 ELSE (j - index) * q.period
    IN  IF /\ passes = 0 => index = 0
           /\ height >= 0
           /\ height <= q.others.maxHeight * j
        THEN {Toss(height, index, original \div j)} ELSE {}

\* The throw that is n Prechators above the lowest one, if it can be made.
Raised(q, lowest, n, passes) ==
    LET j == Jugglers(q)
        index == n % j
        height == lowest * j + n * q.period
        original == height + IF index = 0 THEN 0 ELSE (j - index) * q.period
    IN  IF /\ passes = 0 => index = 0
           /\ (height = 0 /\ index = 0) \/ height >= j
           /\ height <= q.others.maxHeight * j
        THEN {Toss(height, index, original \div j)} ELSE {}

AddObjects(q, base) ==
    LET missing == q.others.objects - Objects(q, base)
        add[i \in 1 .. q.period + 1] ==
            [m \in 0 .. missing |-> [passes \in 0 .. q.maxPasses |->
                IF i > q.period THEN IF m = 0 THEN {<<>>} ELSE {}
                ELSE UNION {UNION {{<<toss>> \o rest :
                                      rest \in add[i + 1][m - n]
                                                  [IF toss.pass > 0 THEN passes - 1 ELSE passes]} :
                                   toss \in Raised(q, base[i], n, passes)} :
                            n \in 0 .. m}]]
    IN  add[1][missing][q.maxPasses]

-----------------------------------------------------------------------------
(***************************************************************************)
(* rotateHighestFirst.                                                     *)
(***************************************************************************)

Rotate(tosses, d) ==
    [i \in DOMAIN tosses |-> tosses[((i - 1 + d) % Len(tosses)) + 1]]
Rotations(tosses) == {Rotate(tosses, d) : d \in 0 .. Len(tosses) - 1}

TossLess(s, t) ==
    \/ s.height < t.height
    \/ s.height = t.height /\ s.pass < t.pass
    \/ s.height = t.height /\ s.pass = t.pass /\ s.siteswap < t.siteswap

PatternLess(a, b) ==
    \E i \in DOMAIN a : /\ \A k \in 1 .. i - 1 : a[k] = b[k]
                        /\ TossLess(a[i], b[i])

RotateHighestFirst(tosses) ==
    CHOOSE r \in Rotations(tosses) : \A s \in Rotations(tosses) : ~PatternLess(r, s)

-----------------------------------------------------------------------------
ConstraintFillable(q) == q.others.objects <= q.others.maxHeight * Jugglers(q)

SiteswapOf(q) ==
    LET sites == Bijection(Beats(q), Beats(q))
        found == UNION {AddObjects(q, LandingSites2Pattern(q, s)) : s \in sites}
    IN  IF ~ConstraintFillable(q) THEN {}
        ELSE {RotateHighestFirst(tosses) :
                tosses \in {f \in found : /\ \/ AmountOfPasses(f) >= q.minPasses
                                             \/ Jugglers(q) = 1
                                          /\ AmountOfPasses(f) <= q.maxPasses}}

-----------------------------------------------------------------------------
(***************************************************************************)
(* The passing patterns themselves, without reference to the program.  All *)
(* jugglers do the same throws in the same order, each 1/Jugglers of the   *)
(* period later than the one before.  A throw is 0 or at least one beat    *)
(* high; it lands where the juggler that it goes to is at a beat of his,   *)
(* and no two throws land at the same beat of the same juggler.            *)
(***************************************************************************)

\* The beat of his at which the receiver of the toss at beat i catches it.
LandsAt(q, i, toss) ==
    (i + (toss.height - toss.pass * q.period) \div Jugglers(q)) % q.period

PossibleTosses(q) ==
    {t \in [height : {0} \cup (Jugglers(q) .. q.others.maxHeight * Jugglers(q)),
            pass : 0 .. Jugglers(q) - 1] :
        /\ t.height = 0 => t.pass = 0
        /\ (t.height - t.pass * q.period) % Jugglers(q) = 0}

PassingPatterns(q) ==
    {tosses \in [Beats(q) -> PossibleTosses(q)] :
        /\ MapThenSumSet(LAMBDA i : tosses[i].height, Beats(q)) = q.others.objects * q.period
        /\ \A i, k \in Beats(q) :
               LandsAt(q, i, tosses[i]) = LandsAt(q, k, tosses[k]) => i = k}

WithPasses(q, tosses) == AmountOfPasses(tosses) \in q.minPasses .. q.maxPasses
=============================================================================
