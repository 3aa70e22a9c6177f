--------------------------- MODULE PatternScreens ---------------------------
(***************************************************************************)
(* From the form to the details of a pattern: PrechacThisActivity,         *)
(* SearchActivity with one of the rows of its list, and DetailActivity.    *)
(*                                                                         *)
(* The search screen shows the patterns of Siteswap in the order in which  *)
(* they arrive, which PrechacGenerator is about; here the list view binds  *)
(* a row to any of them, and recycles the row for any other.               *)
(***************************************************************************)
EXTENDS SearchForm, Siteswap, PatternDetails

VARIABLES
    pattern,    \* the pattern the row is bound to, or Null
    row,        \* the views in the row
    parcel,     \* the extra of the intent for the DetailActivity, or Null
    detail      \* what a DetailActivity shows, or Null

patternVars == <<pattern, row, parcel, detail>>
vars == <<formVars, patternVars>>

ScreensInit ==
    /\ Init
    /\ pattern = Null /\ row = <<>>
    /\ parcel = Null /\ detail = Null

\* The parameters that the intent of the search screen carries.
Query == FromExtras(request)

\* What a search finds for every request of the form: a constant, for TLC.
Queries ==
    [others : Others, period : Periods,
     minPasses : 0 .. Max(Periods) + 1, maxPasses : 0 .. Max(Periods) + 1]
Found == [q \in Queries |-> SiteswapOf(q)]
Reference == [q \in [others : Others, period : Periods] |-> PassingPatterns(q)]

NewPattern(q, tosses) == [jugglers |-> Jugglers(q), tosses |-> tosses]

-----------------------------------------------------------------------------
\* The list view binds its row to a pattern of the adapter, new or recycled.
GetView(tosses) ==
    /\ request # Null /\ parcel = Null
    /\ pattern' = NewPattern(Query, tosses)
    /\ row' = Render(row, pattern', Indices(pattern'))
    /\ UNCHANGED <<formVars, parcel, detail>>

OnItemClick ==
    /\ pattern # Null /\ parcel = Null
    /\ parcel' = WriteToParcel(pattern)
    /\ UNCHANGED <<formVars, pattern, row, detail>>

DetailOnCreate ==
    /\ parcel # Null /\ detail = Null
    /\ LET p == CreateFromParcel(parcel)
           orbits == GetOrbits(p)
       IN  detail' = [pattern |-> p,
                      siteswap |-> Render(<<>>, p, Indices(p)),
                      orbits |-> orbits,
                      orbitViews |-> [k \in DOMAIN orbits |-> OrbitView(p, orbits[k])],
                      starts |-> Starts(p)]
    /\ UNCHANGED <<formVars, pattern, row, parcel>>

\* The platform destroys the activity, to create it again from its intent.
DetailOnDestroy ==
    /\ detail # Null
    /\ detail' = Null
    /\ UNCHANGED <<formVars, pattern, row, parcel>>

DetailBack ==
    /\ parcel # Null
    /\ parcel' = Null /\ detail' = Null
    /\ UNCHANGED <<formVars, pattern, row>>

\* The user leaves the search screen, and its rows.
SearchBack ==
    /\ parcel = Null
    /\ Back
    /\ pattern' = Null /\ row' = <<>>
    /\ UNCHANGED <<parcel, detail>>

ScreensNext ==
    \/ FormStep /\ UNCHANGED patternVars
    \/ request # Null /\ \E tosses \in Found[Query] : GetView(tosses)
    \/ OnItemClick \/ DetailOnCreate \/ DetailOnDestroy
    \/ DetailBack \/ SearchBack

ScreensSpec == ScreensInit /\ [][ScreensNext]_vars

-----------------------------------------------------------------------------
\* Every pattern that a search finds is a sequence of tosses.
AnyToss == [height : Int, pass : Int, siteswap : Int]
FoundAreTosses == \A q \in Queries : Found[q] \subseteq Seq(AnyToss)

(***************************************************************************)
(* Properties.                                                             *)
(***************************************************************************)

HeightsAndPasses(tosses) ==
    [i \in DOMAIN tosses |-> [height |-> tosses[i].height, pass |-> tosses[i].pass]]

\* Whatever the form asks for, the search finds the passing patterns with as many
\* jugglers, objects, beats and passes, no other and each in one rotation only:
\* choosing landing sites and raising the lowest throws misses no pattern, and
\* the siteswap that the program reports for a throw is the beat it lands at.
SearchFindsPatterns ==
    request # Null /\ pattern = Null /\ form = Null =>
        LET found == {HeightsAndPasses(tosses) : tosses \in Found[Query]}
            valid == Reference[[others |-> Query.others, period |-> Query.period]]
        IN  /\ UNION {Rotations(f) : f \in found} = {v \in valid : WithPasses(Query, v)}
            /\ \A f, g \in found : g \in Rotations(f) => f = g
            /\ \A tosses \in Found[Query] : \A i \in DOMAIN tosses :
                   (i + tosses[i].siteswap) % Query.period = LandsAt(Query, i, tosses[i])

\* A row shows the pattern that a click on it opens, and nothing of the pattern it
\* was bound to before.
RowShowsPattern ==
    pattern # Null =>
        row = [i \in DOMAIN pattern.tosses |-> Cell(pattern, pattern.tosses[i])]

\* The orbits on the detail screen share out the tosses of the pattern that was
\* clicked on, each at its beat, and the numbers of objects that they show are
\* those the form asked for.
OrbitsShareClubs ==
    detail # Null =>
        LET p == detail.pattern
            orbits == detail.orbits
            shown(k, i) == detail.orbitViews[k].row[i + 1]
        IN  /\ p = pattern
            /\ MapThenSumSet(LAMBDA k : detail.orbitViews[k].objects, DOMAIN orbits)
                 = Query.others.objects
            /\ \A i \in Indices(p) : \E k \in DOMAIN orbits :
                   /\ shown(k, i) = Cell(p, GetToss(p, i))
                   /\ \A l \in DOMAIN orbits \ {k} : shown(l, i) = Blank

\* The start positions hold all clubs.  If the jugglers keep step, that is if a
\* period has one beat more than a multiple of their number, each club that is
\* counted is still to land, at a beat at which the juggler it is counted for
\* has a throw to make, and no other club lands there.
StartsHoldClubs ==
    detail # Null =>
        LET p == detail.pattern
            positions == GetClubPositions(p)
            clubs == positions.clubs
        IN  /\ MapThenSumSet(LAMBDA j : detail.starts[j].left + detail.starts[j].right,
                             0 .. p.jugglers - 1) = Query.others.objects
            /\ PatternLength(p) % p.jugglers = 1 =>
                 \A i, k \in DOMAIN clubs :
                     /\ clubs[i].end >= positions.time
                     /\ JugglerAt(p, clubs[i].end) = clubs[i].juggler
                     /\ GetToss(p, IndexAt(p, clubs[i].end)).height # 0
                     /\ clubs[i].end = clubs[k].end => i = k

\* ClubPosition's comment on when a juggler begins the pattern: "they do it at
\* minuend * n", where the minuend is the length of the pattern divided by the
\* number of jugglers.
BeginsAtMinuend ==
    detail # Null =>
        LET p == detail.pattern IN
        \A time \in 0 .. p.jugglers * PatternLength(p) - 1 :
            IndexAt(p, time) = 0 => time = PatternLength(p) * JugglerAt(p, time)
=============================================================================
