------------------------------ MODULE JobTable ------------------------------
(***************************************************************************)
(* What the job table of petrush promises the user, told without processes *)
(* or waitpid: N numbered places for background jobs.  A job takes the     *)
(* lowest free number and ends some time later, possibly before it is even *)
(* registered; only then may the shell notice it, and only what it has     *)
(* noticed is reported as Done, once, which frees the number.              *)
(***************************************************************************)
EXTENDS Integers

CONSTANT N              \* PETRUSH_JOB_MAX

VARIABLE job            \* what each number stands for

Init == job = [i \in 1..N |-> "free"]

Start ==
    \E i \in 1..N :
      /\ job[i] = "free" /\ \A j \in 1..(i - 1) : job[j] # "free"
      /\ \E s \in {"running", "ended"} : job' = [job EXCEPT ![i] = s]

End ==
    \E i \in 1..N : job[i] = "running" /\ job' = [job EXCEPT ![i] = "ended"]

Notice ==
    \E i \in 1..N : job[i] = "ended" /\ job' = [job EXCEPT ![i] = "done"]

\* Everything noticed so far is reported together.
Report == job' = [i \in 1..N |-> IF job[i] = "done" THEN "free" ELSE job[i]]

Next == Start \/ End \/ Notice \/ Report

Spec == Init /\ [][Next]_job

-----------------------------------------------------------------------------

\* Every job that ends is reported in the end, which frees its number.
EndedReported == \A i \in 1..N : job[i] = "ended" ~> job[i] = "free"
=============================================================================
