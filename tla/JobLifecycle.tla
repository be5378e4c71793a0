---------------------------- MODULE JobLifecycle ----------------------------
(***************************************************************************)
(* What the queue promises about one job, with the worker, the handlers,   *)
(* the database and the crashes left out: plan.md 19 and 19.2 as a state   *)
(* machine.  A job is executed again without being asked only if its       *)
(* output never reached the library, and only so many times; it is done    *)
(* only if its output did.                                                 *)
(***************************************************************************)
EXTENDS Integers

CONSTANTS
    Job,
    Cap     \* executions a job gets before someone has to ask again

VARIABLES
    phase,   \* "absent", "waiting", "executing", "done" or "dropped"
    landed,  \* the latest execution replaced the library file
    tries    \* executions since the job was last asked for

vars == <<phase, landed, tries>>

Init ==
    /\ phase = [j \in Job |-> "absent"]
    /\ landed = [j \in Job |-> FALSE]
    /\ tries = [j \in Job |-> 0]

Move(j, from, to) == phase[j] \in from /\ phase' = [phase EXCEPT ![j] = to]

Ask(j) ==
    /\ Move(j, {"absent", "dropped"}, "waiting")
    /\ tries' = [tries EXCEPT ![j] = 0]
    /\ UNCHANGED landed

\* A second request can reach a job that is still executing: it only forgives
\* the executions so far.
AskAgain(j) ==
    /\ phase[j] = "executing"
    /\ tries' = [tries EXCEPT ![j] = 0]
    /\ UNCHANGED <<phase, landed>>

Begin(j) ==
    /\ Move(j, {"waiting"}, "executing")
    /\ tries[j] < Cap
    /\ tries' = [tries EXCEPT ![j] = @ + 1]
    /\ landed' = [landed EXCEPT ![j] = FALSE]

Land(j) ==
    /\ phase[j] = "executing" /\ ~landed[j]
    /\ landed' = [landed EXCEPT ![j] = TRUE]
    /\ UNCHANGED <<phase, tries>>

Finish(j) ==
    /\ landed[j]
    /\ Move(j, {"executing"}, "done")
    /\ UNCHANGED <<landed, tries>>

\* Interrupted: back to waiting, unless the output landed and nobody asked.
Retry(j) ==
    /\ ~landed[j] \/ tries[j] = 0
    /\ Move(j, {"executing"}, "waiting")
    /\ UNCHANGED <<landed, tries>>

\* Failed or cancelled.
Drop(j) ==
    /\ Move(j, {"waiting", "executing"}, "dropped")
    /\ UNCHANGED <<landed, tries>>

Next == \E j \in Job :
    \/ Ask(j) \/ AskAgain(j) \/ Begin(j) \/ Land(j)
    \/ Finish(j) \/ Retry(j) \/ Drop(j)

Spec == Init /\ [][Next]_vars
=============================================================================
