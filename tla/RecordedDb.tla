----------------------------- MODULE RecordedDb -----------------------------
(***************************************************************************)
(* The recorded database of the Prolog system (pl-rec.c, pl-dbref.c) as    *)
(* the searches of prechacthis.pl use it.  A search first forgets what     *)
(* earlier searches have recorded under constraint_fillable,               *)
(*                                                                         *)
(*     forall(recorded(constraint_fillable, _, R), erase(R)), !            *)
(*                                                                         *)
(* and then records whether it can be solved.  Searches are the generator  *)
(* threads of the service, each on an engine of its own; the database is   *)
(* one for the process, and L_RECORD is held only inside of each step of   *)
(* recorded/3, erase/1 and recorda/2.                                      *)
(*                                                                         *)
(* Records are numbered as they are made.  All are made by recorda/2, in   *)
(* front of the list, so that the list is the set of their numbers in      *)
(* descending order.  A record that was freed is in the list no more; the  *)
(* references to it stay, with a null record.  What is recorded, true or   *)
(* false, is left out.                                                     *)
(***************************************************************************)
EXTENDS Integers, FiniteSets, FiniteSetsExt

CONSTANT Searches

ASSUME SearchesAssumption == IsFiniteSet(Searches)

VARIABLES
    records,     \* the records in the list
    erased,      \* those of them that are marked R_ERASED
    references,  \* rl->references, the choice points of recorded/3
    dirty,       \* RL_DIRTY of the list
    made,        \* the number of records ever made
    pc,          \* where each search is
    found,       \* R, the reference that recorded/3 gave to the search
    choice,      \* the record at the choice point of recorded/3, or NoRecord
    crashed,     \* the process has died
    since,       \* history: `made' when the search began
    met          \* history: the searches that have met another one's check

dbVars == <<records, erased, references, dirty, made>>
vars == <<dbVars, pc, found, choice, crashed, since, met>>

NoRecord == 0
Live == records \ erased

Checks == {"recorded", "erase", "erasing", "cut", "redo"}
Checking == {s \in Searches : pc[s] \in Checks}

TypeOK ==
    /\ records \subseteq 1 .. made
    /\ erased \subseteq records
    /\ references \in Int /\ dirty \in BOOLEAN /\ made \in Nat
    /\ pc \in [Searches -> Checks \cup {"begin", "record", "done", "failed"}]
    /\ found \in [Searches -> Nat] /\ choice \in [Searches -> Nat]
    /\ crashed \in BOOLEAN
    /\ since \in [Searches -> Nat] /\ met \subseteq Searches

Init ==
    /\ records = {} /\ erased = {} /\ references = 0 /\ dirty = FALSE /\ made = 0
    /\ pc = [s \in Searches |-> "begin"]
    /\ found = [s \in Searches |-> NoRecord] /\ choice = [s \in Searches |-> NoRecord]
    /\ crashed = FALSE
    /\ since = [s \in Searches |-> 0] /\ met = {}

Goto(s, place) == pc' = [pc EXCEPT ![s] = place]

-----------------------------------------------------------------------------
\* siteswap/14 calls initConstraintCheck.
BeginCheck(s) ==
    /\ pc[s] = "begin"
    /\ Goto(s, "recorded")
    /\ since' = [since EXCEPT ![s] = made]
    /\ met' = IF Checking = {} THEN met ELSE met \cup Checking \cup {s}
    /\ UNCHANGED <<dbVars, found, choice, crashed>>

\* Mutant: references are tested before they are decremented.
DropLate(held) ==
    /\ references' = held - 1
    /\ records' = IF held = 0 /\ dirty THEN Live ELSE records
    /\ erased' = IF held = 0 /\ dirty THEN {} ELSE erased

\* Mutant: cleaning the list frees all of it.
DropAll(held) ==
    /\ references' = held - 1
    /\ records' = IF held = 1 /\ dirty THEN {} ELSE records
    /\ erased' = IF held = 1 /\ dirty THEN {} ELSE erased

\* A choice point less, of `held': the last one cleans the list.
Drop(held) ==
    /\ references' = held - 1
    /\ records' = IF held = 1 /\ dirty THEN Live ELSE records
    /\ erased' = IF held = 1 /\ dirty THEN {} ELSE erased

\* Mutant: the scan ends at a record that is erased.
ScanStops(s, from, held) ==
    LET ahead == {r \in records : r <= from}
        r == Max(ahead)
        next == {n \in records : n < r}
    IN  IF ahead = {} \/ r \in erased
        THEN /\ Drop(held)
             /\ choice' = [choice EXCEPT ![s] = NoRecord]
             /\ Goto(s, "record")
             /\ UNCHANGED found
        ELSE /\ found' = [found EXCEPT ![s] = r]
             /\ Goto(s, "erase")
             /\ IF next = {}
                THEN Drop(held) /\ choice' = [choice EXCEPT ![s] = NoRecord]
                ELSE /\ choice' = [choice EXCEPT ![s] = Max(next)]
                     /\ references' = held
                     /\ UNCHANGED <<records, erased>>

\* recorded/3 from a record on, with `held' references: the next record that is
\* not erased is found, and the one after it, erased or not, is the choice point.
Scan(s, from, held) ==
    LET ahead == {r \in Live : r <= from}
        r == Max(ahead)
        next == {n \in records : n < r}
    IN  IF ahead = {}
        THEN /\ Drop(held)
             /\ choice' = [choice EXCEPT ![s] = NoRecord]
             /\ Goto(s, "record")
             /\ UNCHANGED found
        ELSE /\ found' = [found EXCEPT ![s] = r]
             /\ Goto(s, "erase")
             /\ IF next = {}
                THEN Drop(held) /\ choice' = [choice EXCEPT ![s] = NoRecord]
                ELSE /\ choice' = [choice EXCEPT ![s] = Max(next)]
                     /\ references' = held
                     /\ UNCHANGED <<records, erased>>

Recorded(s) ==
    /\ pc[s] = "recorded"
    /\ Scan(s, made, references + 1)
    /\ UNCHANGED <<dirty, made, crashed, since, met>>

RecordedRedo(s) ==
    /\ pc[s] = "redo"
    /\ Scan(s, choice[s], references)
    /\ UNCHANGED <<dirty, made, crashed, since, met>>

\* erase/1 looks at the record without the lock; if it is gone already, erase
\* fails, forall fails, and the choice point is cut.  Its two reads, of the record
\* and of its flags, are one step: a record freed between them is one that
\* EraseNothing comes upon.
GetDbRef(s) ==
    /\ pc[s] = "erase"
    /\ Goto(s, IF found[s] \in Live THEN "erasing"
               ELSE IF choice[s] # NoRecord THEN "cut" ELSE "failed")
    /\ UNCHANGED <<dbVars, found, choice, crashed, since, met>>

RecordedCut(s) ==
    /\ pc[s] = "cut"
    /\ Drop(references)
    /\ choice' = [choice EXCEPT ![s] = NoRecord]
    /\ Goto(s, "failed")
    /\ UNCHANGED <<dirty, made, found, crashed, since, met>>

\* forall/2 after an erase that succeeded.
NextSolution(s) == Goto(s, IF choice[s] # NoRecord THEN "redo" ELSE "record")

EraseMarks(s) ==
    /\ references > 0 /\ found[s] \in records
    /\ erased' = erased \cup {found[s]}
    /\ dirty' = TRUE
    /\ NextSolution(s)
    /\ UNCHANGED <<records, references, crashed>>

EraseFrees(s) ==
    /\ references = 0 /\ found[s] \in records
    /\ records' = records \ {found[s]}
    /\ erased' = erased \ {found[s]}
    /\ NextSolution(s)
    /\ UNCHANGED <<references, dirty, crashed>>

\* Another search has freed the record since GetDbRef.  A null pointer is
\* followed, or assert(0) is reached, which a build may leave out.
EraseNothing(s) ==
    /\ found[s] \notin records
    /\ \/ crashed' = TRUE /\ UNCHANGED pc
       \/ /\ references = 0 /\ records # {}
          /\ NextSolution(s)
          /\ UNCHANGED crashed
    /\ UNCHANGED <<records, erased, references, dirty>>

\* Mutant: an erase frees its record although there are choice points.
EraseAtOnce(s) ==
    /\ pc[s] = "erasing"
    /\ IF found[s] \in records
       THEN /\ records' = records \ {found[s]}
            /\ erased' = erased \ {found[s]}
            /\ NextSolution(s)
            /\ UNCHANGED <<references, dirty, crashed>>
       ELSE EraseNothing(s)
    /\ UNCHANGED <<made, found, choice, since, met>>

Erase(s) ==
    /\ pc[s] = "erasing"
    /\ EraseMarks(s) \/ EraseFrees(s) \/ EraseNothing(s)
    /\ UNCHANGED <<made, found, choice, since, met>>

\* constraint_fillable.
Recorda(s) ==
    /\ pc[s] = "record"
    /\ made' = made + 1
    /\ records' = records \cup {made'}
    /\ Goto(s, "done")
    /\ UNCHANGED <<erased, references, dirty, found, choice, crashed, since, met>>

Next ==
    /\ ~crashed
    /\ \E s \in Searches :
           \/ BeginCheck(s) \/ Recorded(s) \/ RecordedRedo(s) \/ RecordedCut(s)
           \/ GetDbRef(s) \/ Erase(s) \/ Recorda(s)

Spec == Init /\ [][Next]_vars

-----------------------------------------------------------------------------
(***************************************************************************)
(* Properties.                                                             *)
(***************************************************************************)

WithChoice == {s \in Searches : choice[s] # NoRecord}

\* The list counts the choice points on it exactly, and a record that a choice
\* point is at stays in the list, whoever erases it: recorded/3 never goes on from
\* freed memory, and its assertion that there are references holds.
ChoicePointsHold ==
    /\ references = Cardinality(WithChoice)
    /\ \A s \in WithChoice : choice[s] \in records

\* Records that are erased under a choice point are freed with the last one.
ErasedReclaimed == references = 0 => erased = {}

\* A search whose check is over has forgotten all that was recorded before it
\* began, also where other searches erase the same records meanwhile.
CheckForgetsAll ==
    \A s \in Searches : pc[s] \in {"record", "done"} => \A r \in Live : r > since[s]

\* A search fails in its check, and so finds nothing, or kills the process, only
\* if two searches were in their checks at once.
FailureNeedsRival ==
    /\ \A s \in Searches : pc[s] \in {"cut", "failed"} => s \in met
    /\ crashed => \E s \in met : pc[s] = "erasing"
=============================================================================
