---------------------------- MODULE ResourcePool ----------------------------
(***************************************************************************)
(* What the pool of Prolog engines promises: a thread holds one engine or  *)
(* none, an engine that is taken was free, and only its holder gives it    *)
(* back.                                                                   *)
(***************************************************************************)
CONSTANTS Threads, Engines, NoThread

VARIABLE holder     \* the thread that holds each engine, or NoThread

Init == \E t \in Threads, e \in Engines :
            holder = [x \in Engines |-> IF x = e THEN t ELSE NoThread]

Take(t, e) ==
    /\ holder[e] = NoThread
    /\ \A x \in Engines : holder[x] # t
    /\ holder' = [holder EXCEPT ![e] = t]

GiveBack(t, e) ==
    /\ holder[e] = t
    /\ holder' = [holder EXCEPT ![e] = NoThread]

Next == \E t \in Threads, e \in Engines : Take(t, e) \/ GiveBack(t, e)

Spec == Init /\ [][Next]_holder
=============================================================================
