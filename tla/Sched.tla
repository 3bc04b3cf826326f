------------------------------- MODULE Sched -------------------------------
(***************************************************************************)
(* sched.c with MLQ_SCHED: one queue of ready processes per priority, 0    *)
(* the most urgent, and the running_list.  Each operation is one critical  *)
(* section under queue_lock, so each is one action, conjoined by OS.tla    *)
(* with the step of the thread that calls it.                              *)
(*                                                                         *)
(* ready_queue and run_queue serve the scheduler without MLQ_SCHED and     *)
(* stay empty; slot[], set by init_scheduler, is read by nobody.           *)
(***************************************************************************)
EXTENDS Queue

CONSTANTS
  MAX_PRIO,
  NoProc       (* NULL *)

VARIABLES
  mlq_ready_queue,
  running_list

schedVars == << mlq_ready_queue, running_list >>

Prios == 0..(MAX_PRIO - 1)

init_scheduler ==
  /\ mlq_ready_queue = [prio \in Prios |-> << >>]
  /\ running_list = << >>

(* The processes waiting for a CPU.                                        *)
Ready == UNION {{mlq_ready_queue[prio][n] : n \in DOMAIN mlq_ready_queue[prio]} :
                  prio \in Prios}

Waiting == {prio \in Prios : ~Empty(mlq_ready_queue[prio])}

(* Mutant of Best: the scan starts at the wrong end.                       *)
BestFromBelow(S) == CHOOSE prio \in S : \A other \in S : other <= prio

(* The scan of get_mlq_proc from priority 0 upwards.                       *)
Best(S) == CHOOSE prio \in S : \A other \in S : prio <= other

(* get_mlq_proc that finds process p.  Every process it hands out is put   *)
(* on running_list, where it stays.                                        *)
get_mlq_proc(p) ==
  /\ Waiting # {}
  /\ LET prio == Best(Waiting)
     IN  /\ p = Dequeued(mlq_ready_queue[prio])
         /\ mlq_ready_queue' = [mlq_ready_queue EXCEPT ![prio] = DequeueRest(@)]
  /\ running_list' = Enqueue(running_list, p)

(* get_mlq_proc that returns NULL.                                         *)
get_mlq_none ==
  /\ Waiting = {}
  /\ UNCHANGED schedVars

(* put_mlq_proc and add_mlq_proc: the same critical section.               *)
put_mlq_proc(p, prio) ==
  /\ mlq_ready_queue' = [mlq_ready_queue EXCEPT ![prio] = Enqueue(@, p)]
  /\ UNCHANGED running_list
=============================================================================
