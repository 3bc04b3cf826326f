-------------------------------- MODULE MCOS -------------------------------
(***************************************************************************)
(* TLC instances of OS: up to 2 CPUs and 4 processes over 2 priorities.    *)
(***************************************************************************)
EXTENDS OS

(* Every mix of priorities; programs that end before, with and after their *)
(* quantum, an empty one among them; later processes loaded at once or     *)
(* after the CPUs have run dry.  The loader takes the processes in order,  *)
(* so an earlier start after a later one would change nothing.             *)
MCConfigs ==
  [prio  : [1..NumProc -> {0, 1}],
   size  : {s \in [1..NumProc -> {0, 1, 2, 3}] :
              /\ s[1] \in (IF NumProc > 2 THEN {2} ELSE {2, 3})
              /\ NumProc > 1 => s[2] \in {1, 3}
              /\ NumProc > 2 => s[3] \in {0, 3}
              /\ NumProc > 3 => s[4] = 3},
   start : {s \in [1..NumProc -> {0, 2}] :
              /\ s[1] = 0
              /\ \A p \in 2..NumProc : s[p - 1] <= s[p]
              /\ NumProc > 3 => s[3] = s[4]}]
=============================================================================
