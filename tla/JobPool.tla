--------------------------------- MODULE JobPool ---------------------------------
(***************************************************************************)
(* What the job farm promises about each job, with no processes, sockets   *)
(* or signals: jobs go out in order, each once; one that is out ends with  *)
(* its result printed, once, or is lost, and what is settled stays so.     *)
(***************************************************************************)
EXTENDS Integers

CONSTANT NumJobs

VARIABLES
    next,   \* the job to go out next
    fate    \* of every job

vars == <<next, fate>>

Jobs == 0..(NumJobs - 1)

Init ==
    /\ next = 0
    /\ fate = [j \in Jobs |-> "todo"]

\* A job goes to whoever asks; who asked may be gone already.
HandOut ==
    /\ next < NumJobs
    /\ \E outcome \in {"out", "lost"} : fate' = [fate EXCEPT ![next] = outcome]
    /\ next' = next + 1

Settle(j) ==
    /\ fate[j] = "out"
    /\ \E outcome \in {"printed", "lost"} : fate' = [fate EXCEPT ![j] = outcome]
    /\ UNCHANGED next

Next == HandOut \/ \E j \in Jobs : Settle(j)

Spec == Init /\ [][Next]_vars
================================================================================
