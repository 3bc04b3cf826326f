-------------------------------- MODULE OS ---------------------------------
(***************************************************************************)
(* os.c: the CPU threads and the loader thread, over the scheduler         *)
(* (Sched) and the timer.  The timer is SlotBarrier, which timer.c         *)
(* implements (Timer.tla, theorem RefinesBarrier).                         *)
(*                                                                         *)
(* A program is abstracted to its length: run(proc) advances pc by one     *)
(* instruction.  What the instructions do to memory is in Regions and      *)
(* Paging.                                                                 *)
(*                                                                         *)
(* A thread's step is one critical section of the scheduler, or one access *)
(* of the unprotected flag done, together with the local work around it.   *)
(* next_slot is joined to the step before it: until it has been called the *)
(* slot cannot end, and no other thread reads the caller's state.          *)
(***************************************************************************)
EXTENDS Sched, Integers, FiniteSets

CONSTANTS
  CPUs,
  Loader,
  NumProc,     (* num_processes; process p is the p-th line of the config  *)
  TimeSlot,    (* time_slot: the quantum                                   *)
  Horizon,     (* bound: no start_time lies beyond this slot               *)
  Configs      (* the configurations read_config and load can deliver      *)

Procs == 1..NumProc

ASSUME OSAssumption ==
  /\ Horizon \in Nat /\ NumProc \in Nat /\ TimeSlot \in Nat \ {0}
  /\ IsFiniteSet(CPUs) /\ Loader \notin CPUs /\ NoProc \notin Procs
  /\ \A c \in Configs :
       /\ c.prio \in [Procs -> Prios]
       /\ c.size \in [Procs -> Nat]
       /\ c.start \in [Procs -> 0..Horizon]

VARIABLES
  time, status,   (* the timer, as in SlotBarrier                          *)
  config,         (* ld_processes and each process's code->size            *)
  proc,           (* cpu_routine: the local proc of each CPU               *)
  time_left,      (* cpu_routine: the local time_left                      *)
  cpc,            (* where a CPU is: "top" of its loop, before get_proc in *)
                  (* mid-loop ("get"), at the "recheck", or "stopped"      *)
  i,              (* ld_routine: the next process to load                  *)
  done,           (* all processes have been loaded                        *)
  pc,             (* pcb_t.pc of each process                              *)
  freed,          (* the processes whose pcb has been freed                *)
  waited          (* history: slots begun since a process became ready     *)

Timer == INSTANCE SlotBarrier WITH Devices <- CPUs \cup {Loader}

timerVars == << time, status >>
cpuVars == << proc, time_left, cpc >>
loadVars == << i, done >>
procVars == << pc, freed >>
vars == << timerVars, schedVars, cpuVars, loadVars, procVars, config, waited >>

Loaded == 1..(i - 1)

TypeOK ==
  /\ Timer!BarrierTypeOK
  /\ mlq_ready_queue \in [Prios -> Seq(Procs)]
  /\ running_list \in Seq(Procs)
  /\ config \in Configs
  /\ proc \in [CPUs -> Procs \cup {NoProc}]
  /\ time_left \in [CPUs -> 0..TimeSlot]
  /\ cpc \in [CPUs -> {"top", "get", "recheck", "stopped"}]
  /\ i \in 1..(NumProc + 1)
  /\ done \in BOOLEAN
  /\ pc \in [Procs -> Nat]
  /\ \A p \in Procs : pc[p] <= config.size[p]
  /\ freed \subseteq Procs
  /\ waited \in [Procs -> 0..(TimeSlot + 1)]

Init ==
  /\ Timer!BarrierInit
  /\ init_scheduler
  /\ config \in Configs
  /\ proc = [c \in CPUs |-> NoProc]
  /\ time_left = [c \in CPUs |-> 0]
  /\ cpc = [c \in CPUs |-> "top"]
  /\ i = 1
  /\ done = FALSE
  /\ pc = [p \in Procs |-> 0]
  /\ freed = {}
  /\ waited = [p \in Procs |-> 0]

-----------------------------------------------------------------------------
(* cpu_routine                                                             *)

At(c, where) == Timer!Working(c) /\ cpc[c] = where
Goto(c, where) == cpc' = [cpc EXCEPT ![c] = where]

Finished(p) == pc[p] = config.size[p]

(* get_proc, by CPU c.                                                     *)
GetProc(c) ==
  \/ \E p \in Procs : get_mlq_proc(p) /\ proc' = [proc EXCEPT ![c] = p]
  \/ get_mlq_none /\ proc' = [proc EXCEPT ![c] = NoProc]

(* No process at the top of the loop: try to load one.  A CPU that gets    *)
(* none spends the slot without looking at done.                           *)
FirstLoad(c) ==
  /\ At(c, "top")
  /\ proc[c] = NoProc
  /\ GetProc(c)
  /\ IF proc'[c] = NoProc THEN Timer!Arrive(c) /\ UNCHANGED cpc
                          ELSE Goto(c, "recheck") /\ UNCHANGED timerVars
  /\ UNCHANGED << time_left, loadVars, procVars, config, waited >>

(* The process has finished its job; get_proc follows.                     *)
Finish(c) ==
  /\ At(c, "top")
  /\ proc[c] # NoProc
  /\ Finished(proc[c])
  /\ freed' = freed \cup {proc[c]}
  /\ proc' = [proc EXCEPT ![c] = NoProc]
  /\ time_left' = [time_left EXCEPT ![c] = 0]
  /\ Goto(c, "get")
  /\ UNCHANGED << timerVars, schedVars, loadVars, pc, config, waited >>

(* Mutant of Yield: the CPU ends the slot before it looks for another.     *)
YieldAndIdle(c) ==
  /\ At(c, "top")
  /\ proc[c] # NoProc
  /\ ~Finished(proc[c])
  /\ time_left[c] = 0
  /\ put_mlq_proc(proc[c], config.prio[proc[c]])
  /\ waited' = [waited EXCEPT ![proc[c]] = 0]
  /\ proc' = [proc EXCEPT ![c] = NoProc]
  /\ Timer!Arrive(c)
  /\ UNCHANGED << cpc, time_left, loadVars, procVars, config >>

(* The process has used up its quantum; get_proc follows.                  *)
Yield(c) ==
  /\ At(c, "top")
  /\ proc[c] # NoProc
  /\ ~Finished(proc[c])
  /\ time_left[c] = 0
  /\ put_mlq_proc(proc[c], config.prio[proc[c]])
  /\ waited' = [waited EXCEPT ![proc[c]] = 0]
  /\ proc' = [proc EXCEPT ![c] = NoProc]
  /\ Goto(c, "get")
  /\ UNCHANGED << timerVars, time_left, loadVars, procVars, config >>

GetNext(c) ==
  /\ At(c, "get")
  /\ GetProc(c)
  /\ Goto(c, "recheck")
  /\ UNCHANGED << timerVars, time_left, loadVars, procVars, config, waited >>

(* Mutant of Stop: done is not tested.                                     *)
StopEarly(c) ==
  /\ At(c, "recheck")
  /\ proc[c] = NoProc
  /\ Goto(c, "stopped")
  /\ Timer!Leave(c)
  /\ UNCHANGED << schedVars, proc, time_left, loadVars, procVars, config, waited >>

(* Still no process, and no more will come.                                *)
Stop(c) ==
  /\ At(c, "recheck")
  /\ proc[c] = NoProc
  /\ done
  /\ Goto(c, "stopped")
  /\ Timer!Leave(c)
  /\ UNCHANGED << schedVars, proc, time_left, loadVars, procVars, config, waited >>

SkipSlot(c) ==
  /\ At(c, "recheck")
  /\ proc[c] = NoProc
  /\ ~done
  /\ Goto(c, "top")
  /\ Timer!Arrive(c)
  /\ UNCHANGED << schedVars, proc, time_left, loadVars, procVars, config, waited >>

(* Mutant of Run: the dispatch does not renew time_left.                   *)
RunUnrenewed(c) ==
  /\ \/ At(c, "recheck")
     \/ At(c, "top") /\ proc[c] # NoProc /\ ~Finished(proc[c]) /\ time_left[c] # 0
  /\ proc[c] # NoProc
  /\ pc' = [pc EXCEPT ![proc[c]] = IF Finished(proc[c]) THEN @ ELSE @ + 1]
  /\ time_left' = [time_left EXCEPT ![c] = @ - 1]
  /\ Goto(c, "top")
  /\ Timer!Arrive(c)
  /\ UNCHANGED << schedVars, proc, loadVars, freed, config, waited >>

(* Dispatch if a quantum begins, run one instruction, end the slot.        *)
Run(c) ==
  /\ \/ At(c, "recheck")
     \/ At(c, "top") /\ proc[c] # NoProc /\ ~Finished(proc[c]) /\ time_left[c] # 0
  /\ proc[c] # NoProc
  /\ pc' = [pc EXCEPT ![proc[c]] = IF Finished(proc[c]) THEN @ ELSE @ + 1]
  /\ time_left' = [time_left EXCEPT ![c] = (IF @ = 0 THEN TimeSlot ELSE @) - 1]
  /\ Goto(c, "top")
  /\ Timer!Arrive(c)
  /\ UNCHANGED << schedVars, proc, loadVars, freed, config, waited >>

-----------------------------------------------------------------------------
(* ld_routine                                                              *)

AwaitStart ==
  /\ Timer!Working(Loader)
  /\ i <= NumProc
  /\ time < config.start[i]
  /\ Timer!Arrive(Loader)
  /\ UNCHANGED << schedVars, cpuVars, loadVars, procVars, config, waited >>

(* Mutant of Load: no next_slot after the last add_proc.                   *)
LoadWithoutSlot ==
  /\ Timer!Working(Loader)
  /\ i <= NumProc
  /\ time >= config.start[i]
  /\ put_mlq_proc(i, config.prio[i])
  /\ i' = i + 1
  /\ UNCHANGED << timerVars, cpuVars, done, procVars, config, waited >>

Load ==
  /\ Timer!Working(Loader)
  /\ i <= NumProc
  /\ time >= config.start[i]
  /\ put_mlq_proc(i, config.prio[i])
  /\ i' = i + 1
  /\ Timer!Arrive(Loader)
  /\ UNCHANGED << cpuVars, done, procVars, config, waited >>

AllLoaded ==
  /\ Timer!Working(Loader)
  /\ i = NumProc + 1
  /\ ~done
  /\ done' = TRUE
  /\ UNCHANGED << timerVars, schedVars, cpuVars, i, procVars, config, waited >>

LoaderExit ==
  /\ done
  /\ Timer!Leave(Loader)
  /\ UNCHANGED << schedVars, cpuVars, loadVars, procVars, config, waited >>

-----------------------------------------------------------------------------
NextSlot ==
  /\ Timer!Advance
  /\ waited' = [p \in Procs |-> IF p \in Ready /\ waited[p] <= TimeSlot
                                THEN waited[p] + 1 ELSE waited[p]]
  /\ UNCHANGED << schedVars, cpuVars, loadVars, procVars, config >>

CPUStep(c) ==
  FirstLoad(c) \/ Finish(c) \/ Yield(c) \/ GetNext(c) \/ Stop(c) \/ SkipSlot(c) \/ Run(c)

LoaderStep == AwaitStart \/ Load \/ AllLoaded \/ LoaderExit

(* main has joined every thread.                                           *)
Ended == (\A d \in CPUs \cup {Loader} : status[d] = "left") /\ UNCHANGED vars

Next ==
  \/ \E c \in CPUs : CPUStep(c)
  \/ LoaderStep
  \/ NextSlot
  \/ Ended

Spec == Init /\ [][Next]_vars

(* Threads that can run do run; the timer's progress is SlotBarrier's.     *)
Fairness ==
  /\ \A c \in CPUs : WF_vars(CPUStep(c))
  /\ WF_vars(LoaderStep)
  /\ WF_vars(NextSlot)

FairSpec == Spec /\ Fairness

-----------------------------------------------------------------------------
(* Properties                                                              *)

Occurrences(p) == {x \in Prios \X (1..MAX_QUEUE_SIZE) :
                     /\ x[2] \in DOMAIN mlq_ready_queue[x[1]]
                     /\ mlq_ready_queue[x[1]][x[2]] = p}

Holders(p) == {c \in CPUs : proc[c] = p}

(* A loaded process that has not been freed is in exactly one place: once  *)
(* in the queue of its own priority or in the hands of one CPU; a process  *)
(* not yet loaded or already freed is nowhere.  Holds across the unlocked  *)
(* gap between put_proc and get_proc.  (At most MAX_QUEUE_SIZE processes.) *)
ExclusiveOwnership ==
  \A p \in Procs :
    /\ Cardinality(Occurrences(p)) + Cardinality(Holders(p))
         = IF p \in Loaded \ freed THEN 1 ELSE 0
    /\ \A x \in Occurrences(p) : x[1] = config.prio[p]

(* The slots for which CPU c may still run its process without a new       *)
(* choice.                                                                 *)
Remaining(c) ==
  IF cpc[c] = "recheck" /\ time_left[c] = 0 THEN TimeSlot ELSE time_left[c]

(* Priorities, over all CPUs: from the moment a process becomes ready, a   *)
(* CPU goes on with one of a lower priority for at most the rest of one    *)
(* quantum.                                                                *)
BoundedInversion ==
  \A c \in CPUs, q \in Ready :
    proc[c] # NoProc /\ config.prio[proc[c]] > config.prio[q]
      => waited[q] + Remaining(c) <= TimeSlot

(* Round robin: among the processes of one priority none is in front of    *)
(* one that has waited longer, whichever CPUs put them back and when.      *)
LongestWaitFirst ==
  \A prio \in Prios : \A m, n \in DOMAIN mlq_ready_queue[prio] :
    m < n => waited[mlq_ready_queue[prio][m]] >= waited[mlq_ready_queue[prio][n]]

(* No slot is wasted: when a slot ends and a process that was ready before *)
(* it began is still waiting, every CPU, those already stopped included,   *)
(* has spent the slot on a process.                                        *)
WorkConserving ==
  (\A c \in CPUs : ~Timer!Working(c)) =>
    \A p \in Ready : waited[p] > 0 => \A c \in CPUs : proc[c] # NoProc

(* CPUs stop on "no process and done" although the two are read apart and  *)
(* without a common lock; still no process is left behind.                 *)
StopLeavesNothing ==
  (\A c \in CPUs : cpc[c] = "stopped") => freed = Procs

(* Every process of the configuration finishes.                            *)
AllProcessesFinish == <>(freed = Procs)

(* "He thong ket thuc" (phantich.md:151): all threads end.                 *)
SystemEnds == <>(\A d \in CPUs \cup {Loader} : status[d] = "left")

(* "A running process is pushed out when one of higher priority arrives"   *)
(* (phantich.md:956): none goes on for a slot with a better one waiting.   *)
PreemptedOnArrival ==
  [][\A c \in CPUs : Run(c) => \A q \in Ready :
       waited[q] > 0 => config.prio[proc[c]] <= config.prio[q]]_vars
=============================================================================
