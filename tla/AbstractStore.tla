---------------------------- MODULE AbstractStore ----------------------------
(***************************************************************************)
(* What the recording store promises those who list, download and delete   *)
(* recordings (daemon/src/qmdl_store.rs).  There are no files, no manifest *)
(* and no failing calls here: a recording is listed and holds so much      *)
(* data, and only three things ever happen to that data.  It grows while   *)
(* the recording is open, it is erased when somebody deletes recordings,   *)
(* and a crash leaves it exactly as it was.  Recordings that hold nothing  *)
(* are worth nothing, and may come and go with a crash.                    *)
(***************************************************************************)
EXTENDS Naturals

CONSTANTS
    Names,  \* recording names
    None    \* no recording is open

VARIABLES
    listed,  \* the recordings a client is shown, or will be after a restart
    length,  \* how much data each holds
    open     \* the recording that is being captured

promise == <<listed, length, open>>

Init ==
    /\ listed = {}
    /\ length = [n \in Names |-> 0]
    /\ open = None

\* A capture begins under a name that holds nothing; the attempt may fail
\* after the name was listed, or before.
Begin(n) ==
    /\ open = None /\ length[n] = 0
    /\ listed' \in {listed, listed \cup {n}}
    /\ open' \in {None, n}
    /\ open' = n => n \in listed'
    /\ UNCHANGED length

Grow ==
    /\ open \in listed
    /\ length' = [length EXCEPT ![open] = @ + 1]
    /\ open' \in {None, open}
    /\ UNCHANGED listed

Finish ==
    /\ open # None /\ open' = None
    /\ UNCHANGED <<listed, length>>

\* Somebody deletes the recordings in S.  When that fails half way, a name
\* whose data is gone stays listed.
Erase(S) ==
    /\ length' = [n \in Names |-> IF n \in S THEN 0 ELSE length[n]]
    /\ listed \ S \subseteq listed' /\ listed' \subseteq listed
    /\ UNCHANGED open

\* The process ends and whatever it takes to start again is done: all that
\* holds data is listed as before, to the last byte.
Restart ==
    /\ {n \in Names : length[n] > 0} \subseteq listed'
    /\ listed' \subseteq Names
    /\ open' = None
    /\ UNCHANGED length

Next ==
    \/ \E n \in Names : Begin(n)
    \/ Grow
    \/ Finish
    \/ \E S \in SUBSET listed : Erase(S)
    \/ Restart

Spec == Init /\ [][Next]_promise
=============================================================================
