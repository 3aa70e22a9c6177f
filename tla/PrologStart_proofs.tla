------------------------ MODULE PrologStart_proofs ------------------------
(***************************************************************************)
(* Proofs about PrologStart, for any number of generator threads and any   *)
(* files that earlier processes left behind.                               *)
(***************************************************************************)
EXTENDS PrologStart, TLAPS

LEMMA PrologTypeInit == PrologInit => PrologTypeOK
BY StartAssumption DEF PrologInit, PrologTypeOK, Steps

LEMMA StepsTyped ==
    ASSUME PrologTypeOK, NEW t \in Starters, NEW from, NEW to \in Steps, Goto(t, from, to)
    PROVE  pc' \in [Starters -> Steps]
BY DEF PrologTypeOK, Goto

LEMMA PrologTypeStep == PrologTypeOK /\ [PrologNext]_vars => PrologTypeOK'
<1> SUFFICES ASSUME PrologTypeOK, [PrologNext]_vars PROVE PrologTypeOK'
  OBVIOUS
<1>1. {"idle", "boot", "writeBoot", "args", "testArgs", "readArgs", "setArgs", "clearArgs",
       "storeArgs", "initialise", "doInit", "inside", "post", "pl", "writePl", "load", "loading", "yes",
       "no"} \subseteq Steps
  BY DEF Steps
<1>2. ASSUME NEW t \in Starters, InitStarts(t) \/ StoreResult(t) \/ FileFails(t)
      PROVE  PrologTypeOK'
  <2>1. pc' \in [Starters -> Steps]
    BY <1>1, <1>2, StepsTyped DEF InitStarts, StoreResult, FileFails
  <2>2. overlapped' \in BOOLEAN /\ result' \in {"unset", "yes", "no"}
    BY <1>2, Zenon DEF PrologTypeOK, InitStarts, StoreResult, FileFails
  <2>3. UNCHANGED <<jpl_status, pvm_dia, initialised, main, defaultEngine, whole, opener,
                    spoiled, program, killed>>
    BY <1>2 DEF InitStarts, StoreResult, FileFails
  <2> QED
    BY <2>1, <2>2, <2>3 DEF PrologTypeOK
<1>3. ASSUME NEW t \in Starters, NEW f, NEW from, NEW to \in Steps, OpenFile(t, f, from, to)
      PROVE  PrologTypeOK'
  <2>1. pc' \in [Starters -> Steps]
    BY <1>3, StepsTyped DEF OpenFile
  <2> QED
    BY <1>3, <2>1 DEF PrologTypeOK, OpenFile
<1>4. ASSUME NEW t \in Starters, NEW f, NEW from, NEW to \in Steps, WriteFile(t, f, from, to)
      PROVE  PrologTypeOK'
  <2>1. pc' \in [Starters -> Steps]
    BY <1>4, StepsTyped DEF WriteFile
  <2>2. PICK w \in BOOLEAN : whole' = [whole EXCEPT ![f] = w]
    BY <1>4 DEF WriteFile
  <2>3. whole' \in [Files -> BOOLEAN]
    BY <2>2 DEF PrologTypeOK
  <2> QED
    BY <1>4, <2>1, <2>3 DEF PrologTypeOK, WriteFile
<1>5. ASSUME NEW t \in Starters, EnsureJplInit(t) \/ TestArgs(t) \/ ReadArgs(t)
      PROVE  PrologTypeOK'
  <2>1. pc' \in [Starters -> Steps]
    BY <1>1, <1>5, StepsTyped DEF PrologTypeOK, EnsureJplInit, TestArgs, ReadArgs, Die
  <2> QED
    BY <1>5, <2>1 DEF PrologTypeOK, EnsureJplInit, TestArgs, ReadArgs, Die, TestsTrue,
       TestsFalse, MustPost, PostPvmInit
<1>6. ASSUME NEW t \in Starters, SetArgs(t) \/ ClearArgs(t) \/ StoreArgs(t) \/ Initialise(t)
      PROVE  PrologTypeOK'
  <2>1. pc' \in [Starters -> Steps]
    BY <1>1, <1>6, StepsTyped DEF SetArgs, ClearArgs, StoreArgs, Initialise
  <2> QED
    BY <1>6, <2>1 DEF PrologTypeOK, SetArgs, ClearArgs, StoreArgs, Initialise, TestsTrue, TestsFalse,
       PostPvmInit
<1>7. ASSUME NEW t \in Starters, DoPvmInit(t) \/ PlSucceeds(t) \/ PlFails(t) \/ Post(t)
      PROVE  PrologTypeOK'
  <2>1. pc' \in [Starters -> Steps]
    BY <1>1, <1>7, StepsTyped DEF PrologTypeOK, DoPvmInit, PlSucceeds, PlFails, Post, Die
  <2> QED
    BY <1>7, <2>1 DEF PrologTypeOK, DoPvmInit, PlSucceeds, PlFails, Post, Die, BeginReading,
       PostPvmInit
<1>8. ASSUME NEW t \in Starters, BeginLoad(t) \/ EndLoad(t) PROVE PrologTypeOK'
  <2>1. pc' \in [Starters -> Steps]
    BY <1>1, <1>8, StepsTyped DEF BeginLoad, EndLoad
  <2> QED
    BY <1>8, <2>1 DEF PrologTypeOK, BeginLoad, EndLoad, BeginReading
<1>9. ASSUME NEW t \in Starters, LibraryMissing(t) \/ PostPvmFails(t) \/ LoadFails(t)
      PROVE  PrologTypeOK'
  BY <1>9 DEF PrologTypeOK, LibraryMissing, PostPvmFails, LoadFails, Die
<1>10. CASE Restart
  BY <1>1, <1>10 DEF PrologTypeOK, Restart
<1>11. CASE UNCHANGED vars
  BY <1>11 DEF PrologTypeOK, vars
<1> QED
  BY <1>1, <1>2, <1>3, <1>4, <1>5, <1>6, <1>7, <1>8, <1>9, <1>10, <1>11 DEF PrologNext, Step

(***************************************************************************)
(* All variables of the start-up keep their types.                         *)
(***************************************************************************)
THEOREM PrologTypeCorrect == PrologSpec => []PrologTypeOK
<1>1. PrologInit => PrologTypeOK
  BY PrologTypeInit
<1>2. PrologTypeOK /\ [PrologNext]_vars => PrologTypeOK'
  BY PrologTypeStep
<1> QED
  BY <1>1, <1>2, PTL DEF PrologSpec

-----------------------------------------------------------------------------
(***************************************************************************)
(* Where a thread is tells what there is of the Prolog system.             *)
(***************************************************************************)

AfterStart == {"pl", "writePl", "load", "loading", "yes"}

\* However the threads overlap.
StartInv ==
    killed = "no" =>
        /\ jpl_status \in {"RAW", "PVM_MAYBE", "OK"}
        /\ jpl_status = "OK" => initialised
        /\ result = "yes" => jpl_status = "OK"
        /\ \A t \in Starters : pc[t] \in AfterStart => jpl_status = "OK"
        /\ \A t \in Starters : pc[t] = "post" => initialised /\ jpl_status # "RAW"
        /\ \A t \in Starters :
              pc[t] \in {"testArgs", "readArgs", "setArgs", "clearArgs", "storeArgs",
                         "initialise", "doInit", "inside"} => jpl_status # "RAW"

LEMMA StartInvStep ==
    PrologTypeOK /\ StartInv /\ [PrologNext]_vars => StartInv'
<1> SUFFICES ASSUME PrologTypeOK, StartInv, [PrologNext]_vars, killed' = "no" PROVE StartInv'
  BY DEF StartInv
<1> USE DEF PrologTypeOK, StartInv, AfterStart, Goto
<1>1. ASSUME NEW t \in Starters, InitStarts(t) \/ StoreResult(t) \/ FileFails(t)
      PROVE  StartInv'
  BY <1>1 DEF InitStarts, StoreResult, FileFails
<1>2. ASSUME NEW t \in Starters,
             \/ OpenFile(t, "boot", "boot", "writeBoot") \/ OpenFile(t, "pl", "pl", "writePl")
             \/ WriteFile(t, "boot", "writeBoot", "args") \/ WriteFile(t, "pl", "writePl", "load")
      PROVE  StartInv'
  BY <1>2 DEF OpenFile, WriteFile
<1>3. ASSUME NEW t \in Starters, EnsureJplInit(t) \/ ReadArgs(t) PROVE StartInv'
  BY <1>3 DEF EnsureJplInit, ReadArgs, Die
<1>4. ASSUME NEW t \in Starters, TestArgs(t) \/ SetArgs(t) \/ Initialise(t) PROVE StartInv'
  BY <1>4 DEF TestArgs, SetArgs, Initialise, TestsTrue, TestsFalse, MustPost, PostPvmInit, Die
<1>5. ASSUME NEW t \in Starters, ClearArgs(t) \/ StoreArgs(t) \/ DoPvmInit(t) PROVE StartInv'
  BY <1>5 DEF ClearArgs, StoreArgs, DoPvmInit, Die
<1>6. ASSUME NEW t \in Starters, PlSucceeds(t) \/ PlFails(t) \/ Post(t) PROVE StartInv'
  BY <1>6 DEF PlSucceeds, PlFails, Post, PostPvmInit, Die
<1>7. ASSUME NEW t \in Starters, BeginLoad(t) \/ EndLoad(t) PROVE StartInv'
  BY <1>7 DEF BeginLoad, EndLoad
<1>8. ASSUME NEW t \in Starters, LibraryMissing(t) \/ PostPvmFails(t) \/ LoadFails(t) PROVE FALSE
  BY <1>8 DEF LibraryMissing, PostPvmFails, LoadFails, Die
<1>9. CASE Restart
  BY <1>9 DEF Restart
<1>10. CASE UNCHANGED vars
  BY <1>10 DEF vars
<1> QED
  BY <1>1, <1>2, <1>3, <1>4, <1>5, <1>6, <1>7, <1>8, <1>9, <1>10 DEF PrologNext, Step

(***************************************************************************)
(* init() gives true only when the Prolog system is there, however many    *)
(* threads are inside it.                                                  *)
(***************************************************************************)
THEOREM YesAlwaysMeansProlog == PrologSpec => []YesMeansProlog
<1>1. PrologInit => StartInv
  BY DEF PrologInit, StartInv, AfterStart
<1>2. PrologTypeOK /\ StartInv /\ [PrologNext]_vars => StartInv'
  BY StartInvStep
<1>3. StartInv => YesMeansProlog
  BY DEF StartInv, YesMeansProlog
<1> QED
  BY <1>1, <1>2, <1>3, PrologTypeCorrect, PTL DEF PrologSpec
-----------------------------------------------------------------------------
(***************************************************************************)
(* A thread that is alone finds everything as the one before it, if any,   *)
(* has left it.                                                            *)
(***************************************************************************)

Untouched == jpl_status = "RAW" /\ ~initialised /\ main = {}

StageOK(t) ==
    /\ pc[t] \in {"boot", "writeBoot", "args"} => Untouched
    /\ pc[t] \in {"testArgs", "readArgs", "setArgs", "clearArgs", "storeArgs", "initialise",
                  "doInit", "inside"} =>
          jpl_status = "PVM_MAYBE" /\ ~initialised /\ main = {}
    /\ pc[t] \in {"testArgs", "readArgs", "initialise", "doInit"} => pvm_dia # "null"
    /\ pc[t] = "post" => jpl_status = "PVM_MAYBE" /\ initialised /\ main = {t}
    /\ pc[t] \in AfterStart =>
          jpl_status = "OK" /\ initialised /\ main = {t} /\ defaultEngine = t
    /\ pc[t] = "writePl" => opener["pl"] = t
    /\ pc[t] = "load" => whole["pl"]
    /\ pc[t] = "loading" => t \notin spoiled
    /\ pc[t] = "yes" => program = "whole"

Settled ==
    /\ result = "unset" => Untouched
    /\ result = "yes" => /\ jpl_status = "OK" /\ initialised
                         /\ program = "whole" /\ main = {defaultEngine}

SoloStart ==
    ~overlapped =>
        /\ killed # "no" => result = "unset" /\ killed # "nullArgs" /\ OwnFailure
        /\ killed = "no" =>
              /\ \A t, u \in Starters : Busy(t) /\ Busy(u) => t = u
              /\ \A t \in Starters : Busy(t) => result = "unset" /\ StageOK(t)
              /\ (\A t \in Starters : ~Busy(t)) => Settled

LEMMA SoloStartStep ==
    PrologTypeOK /\ SoloStart /\ [PrologNext]_vars => SoloStart'
<1> SUFFICES ASSUME PrologTypeOK, SoloStart, [PrologNext]_vars, ~overlapped'
             PROVE  SoloStart'
  BY DEF SoloStart
<1> DEFINE Others(t) == \A u \in Starters \ {t} : pc[u] = "idle" /\ pc'[u] = "idle"
           Goal(t) ==
             /\ killed' # "no" => result' = "unset" /\ killed' # "nullArgs" /\ OwnFailure'
             /\ killed' = "no" =>
                   /\ pc'[t] # "idle" => result' = "unset" /\ StageOK(t)'
                   /\ pc'[t] = "idle" => Settled'
<1>1. ASSUME NEW t \in Starters, Others(t), Goal(t) PROVE SoloStart'
  BY <1>1 DEF SoloStart, Busy
<1>2. ASSUME NEW t \in Starters, InitStarts(t), killed = "no" PROVE SoloStart'
  <2>1. ~overlapped /\ \A u \in Starters : ~Busy(u)
    BY <1>2 DEF InitStarts, Goto, Busy
  <2>2. Untouched /\ result = "unset"
    BY <1>2, <2>1 DEF SoloStart, Settled, InitStarts
  <2>3. Others(t)
    BY <1>2, <2>1 DEF PrologTypeOK, InitStarts, Goto, Busy
  <2>4. pc'[t] = "boot"
    BY <1>2 DEF PrologTypeOK, InitStarts, Goto
  <2>5. Goal(t)
    BY <1>2, <2>2, <2>4 DEF InitStarts, StageOK, Untouched, AfterStart
  <2> QED
    BY <1>1, <2>3, <2>5
<1>3. ASSUME NEW t \in Starters, Step(t), ~InitStarts(t), killed = "no" PROVE SoloStart'
  <2>1. ~overlapped /\ pc[t] # "idle" /\ \A u \in Starters \ {t} : pc'[u] = pc[u]
    <3>1. CASE StoreResult(t) \/ FileFails(t)
      BY <3>1 DEF PrologTypeOK, StoreResult, FileFails, Goto
    <3>2. CASE \/ OpenFile(t, "boot", "boot", "writeBoot") \/ OpenFile(t, "pl", "pl", "writePl")
               \/ WriteFile(t, "boot", "writeBoot", "args") \/ WriteFile(t, "pl", "writePl", "load")
      BY <3>2 DEF PrologTypeOK, OpenFile, WriteFile, Goto
    <3>3. CASE EnsureJplInit(t) \/ TestArgs(t) \/ ReadArgs(t) \/ SetArgs(t) \/ ClearArgs(t)
               \/ StoreArgs(t) \/ Initialise(t)
      BY <3>3 DEF PrologTypeOK, EnsureJplInit, TestArgs, ReadArgs, SetArgs, ClearArgs, StoreArgs,
         Initialise, Goto, Die
    <3>4. CASE DoPvmInit(t) \/ PlSucceeds(t) \/ PlFails(t) \/ Post(t) \/ BeginLoad(t) \/ EndLoad(t)
      BY <3>4 DEF PrologTypeOK, DoPvmInit, PlSucceeds, PlFails, Post, BeginLoad, EndLoad, Goto, Die
    <3>5. CASE LibraryMissing(t) \/ PostPvmFails(t) \/ LoadFails(t)
      BY <3>5 DEF PrologTypeOK, LibraryMissing, PostPvmFails, LoadFails, Die
    <3> QED
      BY <1>3, <3>1, <3>2, <3>3, <3>4, <3>5 DEF Step
  <2>2. Others(t) /\ result = "unset" /\ StageOK(t)
    BY <1>3, <2>1 DEF SoloStart, Busy
  <2>3. PrologTypeOK /\ killed = "no"
    BY <1>3
  <2> HIDE DEF Others
  <2>4. CASE StoreResult(t) \/ FileFails(t)
    <3>1. Goal(t)
      BY <2>2, <2>3, <2>4 DEF PrologTypeOK, StoreResult, FileFails, Goto, StageOK, Settled, AfterStart
    <3> QED
      BY <1>1, <2>2, <3>1
  <2>5. CASE OpenFile(t, "boot", "boot", "writeBoot") \/ OpenFile(t, "pl", "pl", "writePl")
    <3>1. Goal(t)
      BY <2>2, <2>3, <2>5 DEF PrologTypeOK, OpenFile, Goto, StageOK, Untouched, AfterStart, Files
    <3> QED
      BY <1>1, <2>2, <3>1
  <2>6. CASE \/ WriteFile(t, "boot", "writeBoot", "args") \/ WriteFile(t, "pl", "writePl", "load")
    <3>1. Goal(t)
      BY <2>2, <2>3, <2>6 DEF PrologTypeOK, WriteFile, Goto, StageOK, Untouched, AfterStart, Files
    <3> QED
      BY <1>1, <2>2, <3>1
  <2>7. CASE EnsureJplInit(t) \/ ReadArgs(t) \/ ClearArgs(t) \/ StoreArgs(t)
    <3>1. Goal(t)
      BY <2>2, <2>3, <2>7 DEF PrologTypeOK, EnsureJplInit, ReadArgs, ClearArgs, StoreArgs, Goto, Die, StageOK,
         Untouched, AfterStart, OwnFailure
    <3> QED
      BY <1>1, <2>2, <3>1
  <2>8. CASE TestArgs(t) \/ SetArgs(t) \/ Initialise(t)
    <3>1. Goal(t)
      BY <2>2, <2>3, <2>8 DEF PrologTypeOK, TestArgs, SetArgs, Initialise, TestsTrue, TestsFalse,
         MustPost, Goto, Die, StageOK, AfterStart
    <3> QED
      BY <1>1, <2>2, <3>1
  <2>9. CASE DoPvmInit(t) \/ PlSucceeds(t) \/ PlFails(t) \/ Post(t)
    <3>1. Goal(t)
      BY <2>2, <2>3, <2>9 DEF PrologTypeOK, DoPvmInit, PlSucceeds, PlFails, Post, PostPvmInit,
         Goto, Die, StageOK, AfterStart, OwnFailure
    <3> QED
      BY <1>1, <2>2, <3>1
  <2>10. CASE BeginLoad(t) \/ EndLoad(t)
    <3>1. Goal(t)
      BY <2>2, <2>3, <2>10 DEF PrologTypeOK, BeginLoad, EndLoad, BeginReading, Goto, StageOK,
         AfterStart
    <3> QED
      BY <1>1, <2>2, <3>1
  <2>11. CASE LibraryMissing(t) \/ PostPvmFails(t) \/ LoadFails(t)
    <3>1. Goal(t)
      BY <2>2, <2>3, <2>11 DEF LibraryMissing, PostPvmFails, LoadFails, MustPost, Die, StageOK,
         AfterStart, OwnFailure
    <3> QED
      BY <1>1, <2>2, <3>1
  <2> QED
    BY <1>3, <2>4, <2>5, <2>6, <2>7, <2>8, <2>9, <2>10, <2>11 DEF Step
<1>4. CASE Restart
  BY <1>4 DEF Restart, SoloStart, Settled, Untouched, Busy
<1>5. CASE UNCHANGED vars
  BY <1>5 DEF vars, SoloStart, StageOK, Settled, Untouched, OwnFailure, Busy
<1> QED
  BY <1>2, <1>3, <1>4, <1>5 DEF PrologNext

LEMMA SoloStartAlways == PrologSpec => []SoloStart
<1>1. PrologInit => SoloStart
  BY DEF PrologInit, SoloStart, Settled, Untouched, Busy
<1>2. PrologTypeOK /\ SoloStart /\ [PrologNext]_vars => SoloStart'
  BY SoloStartStep
<1> QED
  BY <1>1, <1>2, PrologTypeCorrect, PTL DEF PrologSpec

(***************************************************************************)
(* As long as no two threads were inside init() at the same time, true     *)
(* means that the program can be searched, whatever half-written files     *)
(* were found.                                                             *)
(***************************************************************************)
THEOREM ReadyIsReady == PrologSpec => []ReadyToSearch
<1>1. PrologTypeOK /\ SoloStart => ReadyToSearch
  BY DEF SoloStart, ReadyToSearch, Settled
<1> QED
  BY <1>1, SoloStartAlways, PrologTypeCorrect, PTL

(***************************************************************************)
(* As long as no two threads were inside it, init() kills the process only *)
(* in its first call, and only where a step fails by itself.               *)
(***************************************************************************)
THEOREM DeathAlwaysNeedsOverlap == PrologSpec => []DeathNeedsOverlap
<1>1. SoloStart => DeathNeedsOverlap
  BY DEF SoloStart, DeathNeedsOverlap
<1> QED
  BY <1>1, SoloStartAlways, PTL

(***************************************************************************)
(* As long as no two threads were inside it, init() never takes back what  *)
(* it has reported.                                                        *)
(***************************************************************************)
THEOREM ResultStaysSettled == PrologSpec => ResultSettled
<1>1. PrologTypeOK /\ SoloStart /\ [PrologNext]_vars =>
         (~overlapped /\ result # "unset" => result' = result \/ result' = "unset")
  <2> SUFFICES ASSUME SoloStart, [PrologNext]_vars, ~overlapped, result # "unset"
               PROVE  result' = result \/ result' = "unset"
    OBVIOUS
  <2>1. CASE Restart \/ UNCHANGED vars
    BY <2>1 DEF Restart, vars
  <2>2. ASSUME NEW t \in Starters, killed = "no", StoreResult(t) PROVE FALSE
    BY <2>2 DEF SoloStart, Busy, StoreResult, Goto
  <2>3. ASSUME NEW t \in Starters, Step(t), ~StoreResult(t) PROVE result' = result
    BY <2>3 DEF Step, InitStarts, FileFails, OpenFile, WriteFile, EnsureJplInit, TestArgs, ReadArgs,
       SetArgs, ClearArgs, StoreArgs, Initialise, DoPvmInit, PlSucceeds, PlFails, Post, BeginLoad, EndLoad,
       LibraryMissing, PostPvmFails, LoadFails
  <2> QED
    BY <2>1, <2>2, <2>3 DEF PrologNext
<1> QED
  BY <1>1, SoloStartAlways, PrologTypeCorrect, PTL DEF PrologSpec, ResultSettled
=============================================================================
