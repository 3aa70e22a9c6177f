--------------------------- MODULE PatternDetails ---------------------------
(***************************************************************************)
(* What the screens compute from one pattern: Pattern.java, Orbit.java,    *)
(* ClubPosition.java, StartPosition.java and PatternRenderer.java.         *)
(*                                                                         *)
(* A pattern is a record of the number of jugglers and the tosses.         *)
(* Heights and times are in units of 1/jugglers of a beat.  Indices of     *)
(* tosses count from 0, as in the code.                                    *)
(***************************************************************************)
EXTENDS Integers, SequencesExt

PatternLength(p) == Len(p.tosses)
Indices(p) == 0 .. PatternLength(p) - 1
GetToss(p, i) == p.tosses[i + 1]

NumberOfClubs(p) ==
    MapThenSumSet(LAMBDA i : GetToss(p, i).height, Indices(p)) \div PatternLength(p)

RotatePattern(p, d) ==
    [p EXCEPT !.tosses = [i \in DOMAIN @ |-> GetToss(p, (i - 1 + d) % PatternLength(p))]]

-----------------------------------------------------------------------------
(***************************************************************************)
(* writeToParcel and createFromParcel.                                     *)
(***************************************************************************)

WriteToParcel(p) ==
    <<p.jugglers, PatternLength(p)>> \o
    [k \in 1 .. 3 * PatternLength(p) |->
        LET toss == GetToss(p, (k - 1) \div 3) IN
        CASE k % 3 = 1 -> toss.height [] k % 3 = 2 -> toss.pass [] OTHER -> toss.siteswap]

CreateFromParcel(ints) ==
    [jugglers |-> ints[1],
     tosses |-> [i \in 1 .. ints[2] |-> [height |-> ints[3 * i], pass |-> ints[3 * i + 1],
                                         siteswap |-> ints[3 * i + 2]]]]

-----------------------------------------------------------------------------
(***************************************************************************)
(* PatternRenderer.  A row is a sequence of views.  A cell shows a height, *)
(* in the colour of the pass, with the index of the pass below when there  *)
(* are more than two jugglers; what else a view shows is its `text'.       *)
(***************************************************************************)

Colors == 6
Blank == [text |-> "blank"]
Cell(p, toss) ==
    [text |-> "toss", height |-> toss.height, p |-> toss.pass # 0,
     sub |-> IF p.jugglers > 2 THEN toss.pass ELSE 0,
     color |-> IF toss.pass \in 1 .. Colors THEN toss.pass ELSE 0]

\* removeViewAt(0) and addView, until there are as many views as tosses.
Resized(row, n) ==
    [i \in 1 .. n |-> LET k == i + IF Len(row) > n THEN Len(row) - n ELSE 0 IN
                      IF k <= Len(row) THEN row[k] ELSE Blank]

\* Mutant: the colour of a throw that is no pass is not set.
RenderKeepsColor(row, p, walk) ==
    [i \in 1 .. PatternLength(p) |->
        LET old == Resized(row, PatternLength(p))[i]
            new == Cell(p, GetToss(p, i - 1))
        IN  IF i - 1 \notin walk THEN old
            ELSE IF new.color = 0 /\ "color" \in DOMAIN old THEN [new EXCEPT !.color = old.color]
            ELSE new]

Render(row, p, walk) ==
    [i \in 1 .. PatternLength(p) |->
        IF i - 1 \in walk THEN Cell(p, GetToss(p, i - 1))
        ELSE Resized(row, PatternLength(p))[i]]

-----------------------------------------------------------------------------
(***************************************************************************)
(* Orbits.  An orbit is the set of the indices of its tosses.              *)
(***************************************************************************)

\* The tosses of the clubs that start at startIdx, until they are back there.
OrbitFrom(p, startIdx) ==
    LET idx[n \in Nat] ==
            IF n = 0 THEN startIdx
            ELSE (idx[n - 1] + GetToss(p, idx[n - 1]).siteswap) % PatternLength(p)
        back == Min({n \in 1 .. PatternLength(p) : idx[n] = startIdx})
    IN  {idx[n] : n \in 0 .. back - 1}

NumberOfObjects(p, orbit) ==
    MapThenSumSet(LAMBDA i : GetToss(p, i).height, orbit) \div PatternLength(p)

\* Mutant: only the beat that an orbit starts from is taken.
GetOrbitsAgain(p) ==
    LET from[taken \in SUBSET Indices(p)] ==
            IF taken = Indices(p) THEN <<>>
            ELSE LET startIdx == Min(Indices(p) \ taken) IN
                 <<OrbitFrom(p, startIdx)>> \o from[taken \cup {startIdx}]
    IN  from[{}]

GetOrbits(p) ==
    LET from[taken \in SUBSET Indices(p)] ==
            IF taken = Indices(p) THEN <<>>
            ELSE LET orbit == OrbitFrom(p, Min(Indices(p) \ taken)) IN
                 <<orbit>> \o from[taken \cup orbit]
    IN  from[{}]

\* DetailActivity.renderOrbits: how many objects do the orbit, and a new row.
OrbitView(p, orbit) ==
    [objects |-> NumberOfObjects(p, orbit), row |-> Render(<<>>, p, orbit)]

-----------------------------------------------------------------------------
(***************************************************************************)
(* getClubPositions.  The jugglers take turns, one 1/jugglers of a beat    *)
(* after the other, until as many clubs have been thrown as there are.     *)
(***************************************************************************)

TossIndex(p, juggler, place) ==
    (place - (PatternLength(p) * juggler) \div p.jugglers) % PatternLength(p)

JugglerAt(p, time) == time % p.jugglers
PlaceAt(p, time) == (time \div p.jugglers) % PatternLength(p)
IndexAt(p, time) == TossIndex(p, JugglerAt(p, time), PlaceAt(p, time))

Club(p, time) ==
    LET toss == GetToss(p, IndexAt(p, time)) IN
    [juggler |-> (JugglerAt(p, time) + toss.pass) % p.jugglers,
     right |-> (IndexAt(p, time) + toss.siteswap) % 2 = 0,
     end |-> time + toss.height]

\* The clubs that are alive, and how many have not been thrown yet, at a time.
\* Of the clubs that land at a time at most one is marked as dead.
NoClubs(p) == [left |-> NumberOfClubs(p), clubs |-> <<>>]

\* Mutant: no club that lands is ever marked as dead.
ThrowNewClub(p, s, time) ==
    IF GetToss(p, IndexAt(p, time)).height = 0 THEN s
    ELSE [left |-> s.left - 1, clubs |-> Append(s.clubs, Club(p, time))]

Throw(p, s, time) ==
    LET landing == {i \in DOMAIN s.clubs : s.clubs[i].end = time} IN
    IF GetToss(p, IndexAt(p, time)).height = 0 THEN s
    ELSE [left |-> IF landing = {} THEN s.left - 1 ELSE s.left,
          clubs |-> Append(IF landing = {} THEN s.clubs ELSE RemoveAt(s.clubs, Min(landing)),
                           Club(p, time))]

\* More time than any pattern needs that fits its clubs.
LongestWalk(p) ==
    p.jugglers * PatternLength(p) + Max({toss.height : toss \in Range(p.tosses)})

GetClubPositions(p) ==
    LET at[time \in Nat] == IF time = 0 THEN NoClubs(p) ELSE Throw(p, at[time - 1], time - 1)
        end == Min({time \in 0 .. LongestWalk(p) : at[time].left = 0})
    IN  [time |-> end, clubs |-> at[end].clubs]

\* StartPosition, and the rotation of the pattern for every juggler.
Starts(p) ==
    LET positions == GetClubPositions(p)
        held(j, right) == Cardinality({i \in DOMAIN positions.clubs :
                                         /\ positions.clubs[i].juggler = j
                                         /\ positions.clubs[i].right = right})
    IN  [j \in 0 .. p.jugglers - 1 |->
            [left |-> held(j, FALSE), right |-> held(j, TRUE),
             tosses |-> RotatePattern(p, TossIndex(p, j, PlaceAt(p, positions.time))).tosses]]
=============================================================================
