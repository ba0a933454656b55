---------------------------- MODULE TestVerdicts ----------------------------
(***************************************************************************)
(* What test.py promises, whatever its threads do: every job is reported   *)
(* at most once, a report is final, and the program succeeds only when     *)
(* every job was reported as passed or as skipped.                         *)
(***************************************************************************)
EXTENDS Naturals

CONSTANT Jobs

VARIABLES status,   \* what was said of each job
          exitCode  \* what the program returned

reportVars == <<status, exitCode>>

Verdicts == {"PASS", "FAIL", "VALGR", "CRASH", "SKIP", "CUT"}
Unknown  == "unknown"
Running  == 9

Good(s) == \A j \in Jobs : s[j] \in {"PASS", "SKIP"}

-----------------------------------------------------------------------------
Init == status = [j \in Jobs |-> Unknown] /\ exitCode = Running

Report(j) == /\ exitCode = Running
             /\ status[j] = Unknown
             /\ \E v \in Verdicts : status' = [status EXCEPT ![j] = v]

\* The last thing the program does, or a report it could not write.
End == /\ exitCode = Running
       /\ \/ exitCode' = 0 /\ Good(status')
          \/ exitCode' = 1

Next == \/ (\E j \in Jobs : Report(j)) /\ (UNCHANGED exitCode \/ exitCode' = 1)
        \/ End /\ UNCHANGED status

Spec == Init /\ [][Next]_reportVars
=============================================================================
