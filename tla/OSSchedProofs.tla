--------------------------- MODULE OSSchedProofs ---------------------------
(***************************************************************************)
(* What the scheduler promises about time, proved for any number of CPUs,  *)
(* priorities and processes and any quantum: round robin within a          *)
(* priority, bounded inversion between priorities, and no wasted slot.     *)
(*                                                                         *)
(* All three speak of waited, which grows only when a slot ends.  What is  *)
(* inductive ties it, between two such moments, to where every CPU is: a   *)
(* CPU that has spent its slot has already paid for it (Overtaking), one   *)
(* that found nothing to run found every queue empty (FoundNothing), and   *)
(* once one has left, those still looking are as many as those waiting     *)
(* (EnoughSeekers).                                                        *)
(***************************************************************************)
EXTENDS OSProofs

(* A process has not waited before it is loaded.                           *)
UnloadedFresh == \A p \in Procs \ Loaded : waited[p] = 0

(* time_left is nobody's while the CPU has no process or looks for one.    *)
QuantumOver ==
  \A c \in CPUs : proc[c] = NoProc \/ cpc[c] \in {"get", "recheck"} => time_left[c] = 0

(* A process that has run in this slot has used up a part of its quantum.  *)
QuantumBegun ==
  \A c \in CPUs : status[c] = "arrived" /\ proc[c] # NoProc => time_left[c] < TimeSlot

Spent(c) == IF status[c] = "arrived" THEN 1 ELSE 0

(* BoundedInversion, with the slot a CPU has already spent counted.        *)
Overtaking ==
  \A c \in CPUs, q \in Ready :
    proc[c] # NoProc /\ config.prio[proc[c]] > config.prio[q]
      => waited[q] + Remaining(c) + Spent(c) <= TimeSlot

(* Whatever is ready now became ready after this CPU had looked.           *)
FoundNothing ==
  \A c \in CPUs :
    proc[c] = NoProc /\ (status[c] = "arrived" \/ cpc[c] = "recheck")
      => \A p \in Ready : waited[p] = 0

(* The CPUs between put_proc and get_proc.                                 *)
Seeking == {c \in CPUs : cpc[c] = "get"}

(* CPUs that have left, and those that are about to: done is set, or the   *)
(* loader has still to decide in this slot.                                *)
Leaving(c) ==
  \/ cpc[c] = "stopped"
  \/ cpc[c] = "recheck" /\ proc[c] = NoProc /\ (done \/ status[Loader] = "working")

EnoughSeekers ==
  (\E c \in CPUs : Leaving(c)) => Cardinality(Ready) <= Cardinality(Seeking)

WaitInv == UnloadedFresh /\ LongestWaitFirst

InversionInv == UnloadedFresh /\ QuantumOver /\ QuantumBegun /\ Overtaking

WorkInv == UnloadedFresh /\ FoundNothing /\ EnoughSeekers

-----------------------------------------------------------------------------
(* What each step does, as the proofs below use it                         *)

LEMMA SchedTypes ==
  ASSUME TypeOK
  PROVE  /\ proc \in [CPUs -> Procs \cup {NoProc}] /\ NoProc \notin Procs
         /\ time_left \in [CPUs -> 0..TimeSlot] /\ TimeSlot \in Nat \ {0}
         /\ cpc \in [CPUs -> {"top", "get", "recheck", "stopped"}]
         /\ status \in [CPUs \cup {Loader} -> {"working", "arrived", "left"}]
         /\ waited \in [Procs -> 0..(TimeSlot + 1)]
         /\ config \in Configs /\ config.prio \in [Procs -> Prios] /\ Prios \subseteq Nat
         /\ Loader \notin CPUs /\ IsFiniteSet(CPUs)
         /\ i \in 1..(NumProc + 1) /\ NumProc \in Nat
  BY OSAssumption, ConfigTypes DEF TypeOK, Timer!BarrierTypeOK, Prios

(* get_mlq_proc hands out the head of the most urgent queue in use.        *)
LEMMA GetTakesHead ==
  ASSUME QInv, NEW p \in Procs, get_mlq_proc(p)
  PROVE  \E prio \in Prios :
           /\ mlq_ready_queue[prio] # << >>
           /\ mlq_ready_queue' = [mlq_ready_queue EXCEPT ![prio] = Tail(@)]
           /\ config.prio[p] = prio
           /\ \A q \in Ready : prio <= config.prio[q]
<1> DEFINE prio == Best(Waiting)
<1>1. Waiting # {} /\ Waiting \in SUBSET Nat
  BY DEF get_mlq_proc, Waiting, Prios
<1>2. prio \in Waiting /\ \A other \in Waiting : prio <= other
  BY <1>1, BestIs
<1>3. /\ p = Head(mlq_ready_queue[prio])
      /\ mlq_ready_queue' = [mlq_ready_queue EXCEPT ![prio] = Tail(@)]
  BY DEF get_mlq_proc, Dequeued, DequeueRest
<1> HIDE DEF prio
<1>4. prio \in Prios /\ mlq_ready_queue[prio] # << >> /\ mlq_ready_queue[prio] \in Seq(Procs)
  BY <1>2 DEF Waiting, Empty, QInv, QueuesTyped
<1>5. 1 \in DOMAIN mlq_ready_queue[prio] /\ mlq_ready_queue[prio][1] = p
  BY <1>3, <1>4
<1>6. config.prio[p] = prio
  BY <1>4, <1>5 DEF QInv, QueuesOwn
<1>7. ASSUME NEW q \in Ready PROVE prio <= config.prio[q]
  <2>0. PICK x \in Prios : \E n \in DOMAIN mlq_ready_queue[x] : mlq_ready_queue[x][n] = q
    BY ReadyIs
  <2>1. PICK n \in DOMAIN mlq_ready_queue[x] : mlq_ready_queue[x][n] = q
    BY <2>0
  <2>2. config.prio[q] = x
    BY <2>1 DEF QInv, QueuesOwn
  <2>3. mlq_ready_queue[x] # << >>
    BY <2>1
  <2>4. x \in Waiting
    BY <2>3 DEF Waiting, Empty
  <2> QED
    BY <1>2, <2>2, <2>4
<1> QED
  BY <1>3, <1>4, <1>6, <1>7

Asks(c) == FirstLoad(c) \/ GetNext(c)

(* get_proc by CPU c: nothing was ready, or it has the most urgent of all. *)
LEMMA AsksIs ==
  ASSUME OInv, NEW c \in CPUs, Asks(c)
  PROVE  /\ proc[c] = NoProc /\ cpc[c] \in {"top", "get"}
         /\ UNCHANGED << i, done, config, waited, time_left >>
         /\ \A d \in CPUs \ {c} :
              proc'[d] = proc[d] /\ cpc'[d] = cpc[d] /\ status'[d] = status[d]
         /\ status'[Loader] = status[Loader]
         /\ cpc'[c] = "recheck" \/ (cpc[c] = "top" /\ cpc'[c] = "top")
         /\ \/ proc'[c] = NoProc /\ Ready' = {}
            \/ /\ proc'[c] \in Ready /\ Ready' = Ready \ {proc'[c]}
               /\ \A q \in Ready : config.prio[proc'[c]] <= config.prio[q]
               /\ cpc'[c] = "recheck" /\ status'[c] = "working"
<1>1. /\ TypeOK /\ QInv /\ status[c] = "working" /\ cpc[c] \in {"top", "get"}
      /\ proc[c] = NoProc /\ GetProc(c)
      /\ UNCHANGED << i, done, freed, config, waited, time_left >>
  BY DEF OInv, Owned, Asks, FirstLoad, GetNext, IdleWithoutProc, At, Timer!Working, loadVars,
     procVars
<1>2. /\ cpc \in [CPUs -> {"top", "get", "recheck", "stopped"}]
      /\ status \in [CPUs \cup {Loader} -> {"working", "arrived", "left"}]
      /\ proc \in [CPUs -> Procs \cup {NoProc}] /\ NoProc \notin Procs /\ Loader \notin CPUs
  BY <1>1, SchedTypes
<1>3. /\ \A d \in CPUs \ {c} : proc'[d] = proc[d]
      /\ proc'[c] = NoProc => Ready' = {}
  BY <1>1, GetKeeps
<1>4. /\ \A d \in CPUs \ {c} : cpc'[d] = cpc[d] /\ status'[d] = status[d]
      /\ status'[Loader] = status[Loader]
      /\ \/ cpc'[c] = "recheck" /\ status'[c] = "working"
         \/ cpc[c] = "top" /\ cpc'[c] = "top" /\ proc'[c] = NoProc
  BY <1>1, <1>2 DEF Asks, FirstLoad, GetNext, Goto, At, Timer!Arrive, timerVars
<1>5. ASSUME proc'[c] # NoProc
      PROVE  /\ proc'[c] \in Ready /\ Ready' = Ready \ {proc'[c]}
             /\ \A q \in Ready : config.prio[proc'[c]] <= config.prio[q]
  <2>1. PICK p \in Procs : get_mlq_proc(p) /\ proc' = [proc EXCEPT ![c] = p]
    BY <1>1, <1>2, <1>5 DEF GetProc
  <2>2. proc'[c] = p /\ config' = config
    BY <1>1, <1>2, <2>1
  <2>3. p \in Ready /\ Ready' = Ready \ {p}
    BY <1>1, <2>1, <2>2, GetIs
  <2>4. \A q \in Ready : config.prio[p] <= config.prio[q]
    BY <1>1, <2>1, GetTakesHead
  <2> QED
    BY <2>2, <2>3, <2>4
<1> QED
  BY <1>1, <1>3, <1>4, <1>5

(* put_proc at the end of a quantum.                                       *)
LEMMA YieldIs ==
  ASSUME NumProc <= MAX_QUEUE_SIZE, OInv, NEW c \in CPUs, Yield(c)
  PROVE  /\ proc[c] \in Procs \ Ready /\ Ready' = Ready \cup {proc[c]}
         /\ time_left[c] = 0 /\ cpc[c] = "top" /\ cpc'[c] = "get" /\ proc'[c] = NoProc
         /\ \A d \in CPUs \ {c} : proc'[d] = proc[d] /\ cpc'[d] = cpc[d]
         /\ waited' = [waited EXCEPT ![proc[c]] = 0]
         /\ UNCHANGED << time, status, time_left, i, done, config >>
<1>1. /\ TypeOK /\ QInv /\ proc[c] \in Procs \ Ready /\ put_mlq_proc(proc[c], config.prio[proc[c]])
      /\ UNCHANGED << time, status, time_left, i, done, config >>
  BY SchedTypes DEF OInv, Owned, TypeOK, HeldNotReady, Yield, timerVars, loadVars
<1>2. Ready' = Ready \cup {proc[c]}
  BY <1>1, PutIs
<1> QED
  BY <1>1, <1>2, SchedTypes DEF Yield, Goto, At

(* add_proc by the loader.                                                 *)
LEMMA LoadIs ==
  ASSUME NumProc <= MAX_QUEUE_SIZE, OInv, Load
  PROVE  /\ i \in Procs \ Ready /\ i \notin Loaded /\ i <= NumProc
         /\ Ready' = Ready \cup {i} /\ Loaded' = Loaded \cup {i}
         /\ status'[Loader] = "arrived" /\ \A c \in CPUs : status'[c] = status[c]
         /\ UNCHANGED << proc, cpc, time_left, done, config, waited >>
<1>1. /\ TypeOK /\ QInv /\ Accounted /\ i \in 1..(NumProc + 1) /\ i <= NumProc /\ NumProc \in Nat
      /\ put_mlq_proc(i, config.prio[i]) /\ i' = i + 1
      /\ UNCHANGED << proc, cpc, time_left, done, config, waited >>
  BY SchedTypes DEF OInv, Owned, Load, cpuVars
<1>2. i \in Procs /\ i \notin Loaded /\ Loaded' = Loaded \cup {i}
  BY <1>1 DEF Procs, Loaded
<1>3. i \notin Ready
  BY <1>1, <1>2 DEF Accounted
<1>4. Ready' = Ready \cup {i}
  BY <1>1, <1>2, <1>3, PutIs
<1>5. status'[Loader] = "arrived" /\ \A c \in CPUs : status'[c] = status[c]
  BY <1>1, SchedTypes DEF Load, Timer!Arrive
<1> QED
  BY <1>1, <1>2, <1>3, <1>4, <1>5

(* The end of a slot.                                                      *)
LEMMA NextSlotIs ==
  ASSUME OInv, NextSlot
  PROVE  /\ Ready' = Ready /\ Loaded' = Loaded
         /\ \A p \in Procs : waited'[p] = IF p \in Ready /\ waited[p] <= TimeSlot
                                          THEN waited[p] + 1 ELSE waited[p]
         /\ \A d \in CPUs \cup {Loader} :
              status[d] # "working"
              /\ status'[d] = IF status[d] = "arrived" THEN "working" ELSE status[d]
         /\ UNCHANGED << mlq_ready_queue, proc, cpc, time_left, i, done, config >>
  BY DEF NextSlot, Timer!Advance, Timer!Working, schedVars, cpuVars, loadVars, Ready, Loaded

(* The other steps leave alone what is ready and how long it has waited.   *)
Other ==
  \/ \E c \in CPUs : Finish(c) \/ Stop(c) \/ SkipSlot(c) \/ Run(c)
  \/ AwaitStart \/ AllLoaded \/ LoaderExit
  \/ UNCHANGED vars

LEMMA OtherIs ==
  ASSUME Other
  PROVE  /\ Ready' = Ready /\ Loaded' = Loaded
         /\ UNCHANGED << mlq_ready_queue, i, config, waited >>
<1>1. UNCHANGED << mlq_ready_queue, i, config, waited >>
  BY DEF Other, Finish, Stop, SkipSlot, Run, AwaitStart, AllLoaded, LoaderExit, vars, schedVars,
     loadVars
<1> QED
  BY <1>1 DEF Ready, Loaded

LEMMA StepCases ==
  ASSUME [Next]_vars
  PROVE  \/ \E c \in CPUs : Asks(c) \/ Yield(c)
         \/ Load
         \/ NextSlot
         \/ Other
  BY DEF Next, Ended, CPUStep, LoaderStep, Asks, Other

-----------------------------------------------------------------------------
(* Round robin                                                             *)

LEMMA FreshKept ==
  ASSUME NumProc <= MAX_QUEUE_SIZE, OInv, UnloadedFresh, [Next]_vars
  PROVE  UnloadedFresh'
<1>1. waited \in [Procs -> 0..(TimeSlot + 1)]
  BY SchedTypes DEF OInv
<1>2. CASE \E c \in CPUs : Asks(c)
  BY <1>2, AsksIs DEF UnloadedFresh, Loaded
<1>3. CASE \E c \in CPUs : Yield(c)
  <2>1. PICK c \in CPUs : Yield(c)
    BY <1>3
  <2>2. waited' = [waited EXCEPT ![proc[c]] = 0] /\ i' = i
    BY <2>1, YieldIs
  <2> QED
    BY <1>1, <2>2 DEF UnloadedFresh, Loaded
<1>4. CASE Load
  BY <1>4, LoadIs DEF UnloadedFresh
<1>5. CASE NextSlot
  <2>1. \A p \in Procs \ Loaded : p \notin Ready
    BY DEF OInv, Owned, Accounted
  <2> QED
    BY <1>5, <2>1, NextSlotIs DEF UnloadedFresh
<1>6. CASE Other
  BY <1>6, OtherIs DEF UnloadedFresh
<1> QED
  BY <1>2, <1>3, <1>4, <1>5, <1>6, StepCases

(* A queue changes at its ends only.                                       *)
LEMMA QueueStep ==
  ASSUME NumProc <= MAX_QUEUE_SIZE, OInv, [Next]_vars, NEW prio \in Prios
  PROVE  LET q == mlq_ready_queue[prio]
         IN  \/ mlq_ready_queue'[prio] = q
             \/ q # << >> /\ mlq_ready_queue'[prio] = Tail(q) /\ UNCHANGED waited
             \/ \E p \in Procs \ Ready :
                  /\ mlq_ready_queue'[prio] = Append(q, p)
                  /\ \/ waited' = [waited EXCEPT ![p] = 0]
                     \/ p \notin Loaded /\ UNCHANGED waited
<1>1. /\ TypeOK /\ QInv /\ mlq_ready_queue \in [Prios -> Seq(Procs)]
      /\ config.prio \in [Procs -> Prios]
  BY SchedTypes DEF OInv, Owned, QInv, QueuesTyped
<1>2. CASE \E c \in CPUs : Asks(c)
  <2>1. PICK c \in CPUs : Asks(c)
    BY <1>2
  <2>2. GetProc(c) /\ UNCHANGED waited
    BY <2>1 DEF Asks, FirstLoad, GetNext
  <2>3. CASE \E p \in Procs : get_mlq_proc(p)
    <3>1. PICK p \in Procs : get_mlq_proc(p)
      BY <2>3
    <3>2. PICK x \in Prios : /\ mlq_ready_queue[x] # << >>
                             /\ mlq_ready_queue' = [mlq_ready_queue EXCEPT ![x] = Tail(@)]
      BY <1>1, <3>1, GetTakesHead
    <3> QED
      BY <1>1, <2>2, <3>2
  <2>4. CASE get_mlq_none
    BY <2>4 DEF get_mlq_none, schedVars
  <2> QED
    BY <2>2, <2>3, <2>4 DEF GetProc
<1>3. ASSUME NEW p \in Procs \ Ready, put_mlq_proc(p, config.prio[p]),
             waited' = [waited EXCEPT ![p] = 0] \/ (p \notin Loaded /\ UNCHANGED waited)
      PROVE  \/ mlq_ready_queue'[prio] = mlq_ready_queue[prio]
             \/ \E r \in Procs \ Ready :
                  /\ mlq_ready_queue'[prio] = Append(mlq_ready_queue[prio], r)
                  /\ \/ waited' = [waited EXCEPT ![r] = 0]
                     \/ r \notin Loaded /\ UNCHANGED waited
  <2>1. Len(mlq_ready_queue[config.prio[p]]) < MAX_QUEUE_SIZE
    BY <1>1, QueueRoom
  <2>2. mlq_ready_queue' = [mlq_ready_queue EXCEPT ![config.prio[p]] = Append(@, p)]
    BY <1>1, <1>3, <2>1 DEF put_mlq_proc, Enqueue
  <2>3. CASE prio = config.prio[p]
    BY <1>1, <1>3, <2>2, <2>3
  <2>4. CASE prio # config.prio[p]
    BY <1>1, <2>2, <2>4
  <2> QED
    BY <2>3, <2>4
<1>4. CASE \E c \in CPUs : Yield(c)
  <2>1. PICK c \in CPUs : Yield(c)
    BY <1>4
  <2>2. /\ proc[c] \in Procs \ Ready /\ waited' = [waited EXCEPT ![proc[c]] = 0]
        /\ put_mlq_proc(proc[c], config.prio[proc[c]])
    BY <2>1, YieldIs DEF Yield
  <2> QED
    BY <1>3, <2>2
<1>5. CASE Load
  <2>1. i \in Procs \ Ready /\ i \notin Loaded /\ UNCHANGED waited
        /\ put_mlq_proc(i, config.prio[i])
    BY <1>5, LoadIs DEF Load
  <2> QED
    BY <1>3, <2>1
<1>6. CASE NextSlot \/ Other
  BY <1>6, NextSlotIs, OtherIs
<1> QED
  BY <1>2, <1>4, <1>5, <1>6, StepCases

(* A step never lets a ready process catch up with another one.            *)
LEMMA WaitsKeepOrder ==
  ASSUME NumProc <= MAX_QUEUE_SIZE, OInv, [Next]_vars, NEW p \in Ready, NEW r \in Ready,
         waited[p] >= waited[r]
  PROVE  waited'[p] >= waited'[r]
<1>1. /\ waited \in [Procs -> 0..(TimeSlot + 1)] /\ TimeSlot \in Nat
      /\ p \in Procs /\ r \in Procs
  BY SchedTypes, ReadyTyped DEF OInv, Owned, QInv
<1>2. CASE NextSlot
  <2>1. /\ waited'[p] = IF waited[p] <= TimeSlot THEN waited[p] + 1 ELSE waited[p]
        /\ waited'[r] = IF waited[r] <= TimeSlot THEN waited[r] + 1 ELSE waited[r]
    BY <1>1, <1>2, NextSlotIs
  <2>2. waited[p] \in 0..(TimeSlot + 1) /\ waited[r] \in 0..(TimeSlot + 1)
    BY <1>1
  <2> QED
    BY <1>1, <2>1, <2>2
<1>3. CASE \E c \in CPUs : Yield(c)
  <2>1. PICK c \in CPUs : Yield(c)
    BY <1>3
  <2>2. proc[c] \notin Ready /\ waited' = [waited EXCEPT ![proc[c]] = 0]
    BY <2>1, YieldIs
  <2> QED
    BY <1>1, <2>2
<1>4. CASE (\E c \in CPUs : Asks(c)) \/ Load \/ Other
  <2>1. waited' = waited
    BY <1>4, AsksIs, LoadIs, OtherIs
  <2> QED
    BY <2>1
<1> QED
  BY <1>2, <1>3, <1>4, StepCases

LEMMA WaitStep ==
  ASSUME NumProc <= MAX_QUEUE_SIZE, OInv, WaitInv, [Next]_vars
  PROVE  WaitInv'
<1>1. UnloadedFresh /\ UnloadedFresh' /\ LongestWaitFirst /\ OInv'
  BY FreshKept, OwnershipStep DEF WaitInv
<1>2. /\ waited \in [Procs -> 0..(TimeSlot + 1)] /\ waited' \in [Procs -> 0..(TimeSlot + 1)]
      /\ mlq_ready_queue \in [Prios -> Seq(Procs)]
  <2>1. TypeOK /\ TypeOK'
    BY <1>1 DEF OInv
  <2> QED
    BY <2>1 DEF TypeOK
<1> SUFFICES ASSUME NEW prio \in Prios,
                    NEW m \in DOMAIN mlq_ready_queue'[prio],
                    NEW n \in DOMAIN mlq_ready_queue'[prio], m < n
             PROVE  waited'[mlq_ready_queue'[prio][m]] >= waited'[mlq_ready_queue'[prio][n]]
  BY <1>1 DEF WaitInv, LongestWaitFirst
<1> DEFINE q == mlq_ready_queue[prio]
<1>3. q \in Seq(Procs) /\ Len(q) \in Nat /\ DOMAIN q = 1..Len(q)
  BY <1>2
<1>4. \A k, l \in DOMAIN q : k < l => /\ q[k] \in Ready /\ q[l] \in Ready
                                      /\ waited[q[k]] >= waited[q[l]]
  BY <1>1, ReadyIs DEF LongestWaitFirst
<1>5. \A k, l \in DOMAIN q : k < l => waited'[q[k]] >= waited'[q[l]]
  BY <1>4, WaitsKeepOrder
<1>6. \/ mlq_ready_queue'[prio] = q
      \/ q # << >> /\ mlq_ready_queue'[prio] = Tail(q) /\ UNCHANGED waited
      \/ \E p \in Procs \ Ready :
           /\ mlq_ready_queue'[prio] = Append(q, p)
           /\ \/ waited' = [waited EXCEPT ![p] = 0]
              \/ p \notin Loaded /\ UNCHANGED waited
  BY QueueStep
<1> HIDE DEF q
<1>7. CASE mlq_ready_queue'[prio] = q
  BY <1>5, <1>7
<1>8. CASE q # << >> /\ mlq_ready_queue'[prio] = Tail(q)
  <2>1. DOMAIN Tail(q) = 1..(Len(q) - 1) /\ \A k \in 1..(Len(q) - 1) : Tail(q)[k] = q[k + 1]
    BY <1>3, <1>8
  <2>2. m \in 1..(Len(q) - 1) /\ n \in 1..(Len(q) - 1) /\ m + 1 < n + 1
    BY <1>3, <1>8, <2>1
  <2>3. m + 1 \in DOMAIN q /\ n + 1 \in DOMAIN q
    BY <1>3, <2>2
  <2>4. waited'[q[m + 1]] >= waited'[q[n + 1]]
    BY <1>5, <2>2, <2>3
  <2> QED
    BY <1>8, <2>1, <2>2, <2>4
<1>9. CASE \E p \in Procs \ Ready :
             /\ mlq_ready_queue'[prio] = Append(q, p)
             /\ \/ waited' = [waited EXCEPT ![p] = 0]
                \/ p \notin Loaded /\ UNCHANGED waited
  <2>1. PICK p \in Procs \ Ready :
          /\ mlq_ready_queue'[prio] = Append(q, p)
          /\ \/ waited' = [waited EXCEPT ![p] = 0]
             \/ p \notin Loaded /\ UNCHANGED waited
    BY <1>9
  <2>2. waited'[p] = 0
    BY <1>1, <1>2, <2>1 DEF UnloadedFresh
  <2>3. /\ DOMAIN Append(q, p) = 1..(Len(q) + 1)
        /\ \A k \in 1..Len(q) : Append(q, p)[k] = q[k]
        /\ Append(q, p)[Len(q) + 1] = p
    BY <1>3
  <2>4. m \in 1..Len(q) /\ (n \in 1..Len(q) \/ n = Len(q) + 1)
    BY <1>3, <2>1, <2>3
  <2>5. CASE n \in 1..Len(q)
    BY <1>3, <1>5, <2>1, <2>3, <2>4, <2>5
  <2>6. CASE n = Len(q) + 1
    <3>1. mlq_ready_queue'[prio][n] = p /\ mlq_ready_queue'[prio][m] = q[m] /\ q[m] \in Procs
      BY <1>3, <2>1, <2>3, <2>4, <2>6
    <3>2. waited'[q[m]] >= 0
      BY <1>2, <3>1
    <3> QED
      BY <2>2, <3>1, <3>2
  <2> QED
    BY <2>4, <2>5, <2>6
<1> QED
  BY <1>6, <1>7, <1>8, <1>9

-----------------------------------------------------------------------------
(* Bounded inversion                                                       *)

(* A step of a CPU is about that CPU only.                                 *)
LEMMA OneCPU ==
  ASSUME TypeOK, NEW c \in CPUs, Finish(c) \/ Stop(c) \/ SkipSlot(c) \/ Run(c)
  PROVE  /\ \A d \in CPUs \ {c} :
              /\ proc'[d] = proc[d] /\ cpc'[d] = cpc[d]
              /\ status'[d] = status[d] /\ time_left'[d] = time_left[d]
         /\ status'[Loader] = status[Loader] /\ status[c] = "working"
         /\ UNCHANGED << i, done >>
<1>1. /\ proc \in [CPUs -> Procs \cup {NoProc}]
      /\ time_left \in [CPUs -> 0..TimeSlot]
      /\ cpc \in [CPUs -> {"top", "get", "recheck", "stopped"}]
      /\ status \in [CPUs \cup {Loader} -> {"working", "arrived", "left"}]
      /\ Loader \notin CPUs
  BY SchedTypes
<1>2. CASE Finish(c)
  BY <1>1, <1>2 DEF Finish, Goto, At, Timer!Working, timerVars, loadVars
<1>3. CASE Stop(c) \/ SkipSlot(c)
  BY <1>1, <1>3 DEF Stop, SkipSlot, Goto, At, Timer!Working, Timer!Arrive, Timer!Leave, loadVars
<1>4. CASE Run(c)
  BY <1>1, <1>4 DEF Run, Goto, At, Timer!Working, Timer!Arrive, loadVars
<1> QED
  BY <1>2, <1>3, <1>4

(* The CPU that has run, or has no process any more.                       *)
LEMMA TurnIs ==
  ASSUME TypeOK, NEW c \in CPUs
  PROVE  /\ Finish(c) => proc'[c] = NoProc /\ time_left'[c] = 0 /\ cpc'[c] = "get"
         /\ Stop(c) => /\ proc'[c] = NoProc /\ time_left'[c] = time_left[c]
                       /\ cpc[c] = "recheck" /\ cpc'[c] = "stopped" /\ done
                       /\ proc[c] = NoProc /\ status'[c] = "left"
         /\ SkipSlot(c) => /\ proc'[c] = NoProc /\ time_left'[c] = time_left[c]
                           /\ cpc[c] = "recheck" /\ cpc'[c] = "top" /\ ~done
                           /\ proc[c] = NoProc /\ status'[c] = "arrived"
         /\ Run(c) => /\ proc'[c] = proc[c] /\ proc[c] \in Procs
                      /\ cpc'[c] = "top" /\ status'[c] = "arrived"
                      /\ cpc[c] = "recheck" \/ (cpc[c] = "top" /\ time_left[c] # 0)
                      /\ time_left'[c] = (IF time_left[c] = 0 THEN TimeSlot ELSE time_left[c]) - 1
<1>1. /\ proc \in [CPUs -> Procs \cup {NoProc}]
      /\ time_left \in [CPUs -> 0..TimeSlot]
      /\ cpc \in [CPUs -> {"top", "get", "recheck", "stopped"}]
      /\ status \in [CPUs \cup {Loader} -> {"working", "arrived", "left"}]
  BY SchedTypes
<1>2. ASSUME Finish(c)
      PROVE  proc'[c] = NoProc /\ time_left'[c] = 0 /\ cpc'[c] = "get"
  BY <1>1, <1>2 DEF Finish, Goto
<1>3. ASSUME Stop(c)
      PROVE  /\ proc'[c] = NoProc /\ time_left'[c] = time_left[c]
             /\ cpc[c] = "recheck" /\ cpc'[c] = "stopped" /\ done
             /\ proc[c] = NoProc /\ status'[c] = "left"
  BY <1>1, <1>3 DEF Stop, Goto, At, Timer!Leave
<1>4. ASSUME SkipSlot(c)
      PROVE  /\ proc'[c] = NoProc /\ time_left'[c] = time_left[c]
             /\ cpc[c] = "recheck" /\ cpc'[c] = "top" /\ ~done
             /\ proc[c] = NoProc /\ status'[c] = "arrived"
  BY <1>1, <1>4 DEF SkipSlot, Goto, At, Timer!Arrive
<1>5. ASSUME Run(c)
      PROVE  /\ proc'[c] = proc[c] /\ proc[c] \in Procs
             /\ cpc'[c] = "top" /\ status'[c] = "arrived"
             /\ cpc[c] = "recheck" \/ (cpc[c] = "top" /\ time_left[c] # 0)
             /\ time_left'[c] = (IF time_left[c] = 0 THEN TimeSlot ELSE time_left[c]) - 1
  BY <1>1, <1>5 DEF Run, Goto, At, Timer!Arrive
<1> QED
  BY <1>2, <1>3, <1>4, <1>5

(* The loader's other steps and stuttering: no CPU notices.                *)
LEMMA LoaderWaits ==
  ASSUME TypeOK, AwaitStart \/ AllLoaded \/ LoaderExit \/ UNCHANGED vars
  PROVE  /\ UNCHANGED << proc, cpc, time_left >>
         /\ \A c \in CPUs : status'[c] = status[c]
<1>1. Loader \notin CPUs /\ status \in [CPUs \cup {Loader} -> {"working", "arrived", "left"}]
  BY SchedTypes
<1> QED
  BY <1>1 DEF AwaitStart, AllLoaded, LoaderExit, vars, cpuVars, timerVars, Timer!Arrive,
     Timer!Leave

LEMMA QuantumStep ==
  ASSUME NumProc <= MAX_QUEUE_SIZE, OInv, Synced, QuantumOver, QuantumBegun, [Next]_vars
  PROVE  QuantumOver' /\ QuantumBegun'
<1>1. /\ TypeOK /\ time_left \in [CPUs -> 0..TimeSlot] /\ TimeSlot \in Nat \ {0}
      /\ NoProc \notin Procs
  BY SchedTypes DEF OInv
<1>2. CASE \E c \in CPUs : Asks(c)
  BY <1>2, AsksIs DEF QuantumOver, QuantumBegun, Synced
<1>3. CASE \E c \in CPUs : Yield(c)
  BY <1>3, YieldIs DEF QuantumOver, QuantumBegun
<1>4. CASE Load
  BY <1>4, LoadIs DEF QuantumOver, QuantumBegun
<1>5. CASE NextSlot
  BY <1>5, NextSlotIs DEF QuantumOver, QuantumBegun
<1>6. CASE \E c \in CPUs : Finish(c) \/ Stop(c) \/ SkipSlot(c)
  BY <1>1, <1>6, OneCPU, TurnIs DEF QuantumOver, QuantumBegun
<1>7. CASE \E c \in CPUs : Run(c)
  <2>1. PICK c \in CPUs : Run(c)
    BY <1>7
  <2>2. /\ proc'[c] \in Procs /\ cpc'[c] = "top" /\ time_left'[c] < TimeSlot
        /\ \A d \in CPUs \ {c} :
             /\ proc'[d] = proc[d] /\ cpc'[d] = cpc[d]
             /\ status'[d] = status[d] /\ time_left'[d] = time_left[d]
    <3>1. time_left[c] \in 0..TimeSlot
      BY <1>1
    <3> QED
      BY <1>1, <2>1, <3>1, OneCPU, TurnIs
  <2> QED
    BY <1>1, <2>2 DEF QuantumOver, QuantumBegun
<1>8. CASE AwaitStart \/ AllLoaded \/ LoaderExit \/ UNCHANGED vars
  BY <1>1, <1>8, LoaderWaits DEF QuantumOver, QuantumBegun
<1> QED
  BY <1>2, <1>3, <1>4, <1>5, <1>6, <1>7, <1>8, StepCases DEF Other

(* After a step a CPU with a process has at most a quantum left, the slot  *)
(* it has spent included.                                                  *)
LEMMA CreditLeft ==
  ASSUME TypeOK', Synced', QuantumBegun', NEW c \in CPUs, proc'[c] # NoProc
  PROVE  /\ Remaining(c)' \in 0..TimeSlot /\ Spent(c)' \in 0..1
         /\ Remaining(c)' + Spent(c)' <= TimeSlot
<1>1. TimeSlot \in Nat \ {0} /\ time_left'[c] \in 0..TimeSlot
  BY OSAssumption DEF TypeOK
<1>2. status'[c] = "arrived" => cpc'[c] = "top" /\ time_left'[c] < TimeSlot
  BY DEF Synced, QuantumBegun
<1> QED
  BY <1>1, <1>2 DEF Remaining, Spent

LEMMA InversionStep ==
  ASSUME NumProc <= MAX_QUEUE_SIZE, OInv, Synced, OInv', Synced', InversionInv, [Next]_vars
  PROVE  InversionInv'
<1>1. /\ UnloadedFresh /\ QuantumOver /\ QuantumBegun /\ Overtaking
      /\ UnloadedFresh' /\ QuantumOver' /\ QuantumBegun'
      /\ TypeOK /\ TypeOK' /\ QInv
  BY FreshKept, QuantumStep DEF InversionInv, OInv, Owned
<1>2. /\ TimeSlot \in Nat \ {0} /\ NoProc \notin Procs
      /\ waited \in [Procs -> 0..(TimeSlot + 1)] /\ waited' \in [Procs -> 0..(TimeSlot + 1)]
      /\ time_left \in [CPUs -> 0..TimeSlot] /\ Ready \subseteq Procs
      /\ config.prio \in [Procs -> Nat]
  <2>1. config.prio \in [Procs -> Nat]
    BY <1>1, SchedTypes
  <2> QED
    BY <1>1, <2>1, SchedTypes, ReadyTyped DEF TypeOK, QInv
<1> SUFFICES ASSUME NEW c \in CPUs, NEW q \in Ready', proc'[c] # NoProc,
                    config'.prio[proc'[c]] > config'.prio[q]
             PROVE  waited'[q] + Remaining(c)' + Spent(c)' <= TimeSlot
  BY <1>1 DEF InversionInv, Overtaking
<1>3. Remaining(c)' \in 0..TimeSlot /\ Spent(c)' \in 0..1 /\ Remaining(c)' + Spent(c)' <= TimeSlot
  BY <1>1, CreditLeft
<1>4. ASSUME waited'[q] = 0
      PROVE  waited'[q] + Remaining(c)' + Spent(c)' <= TimeSlot
  BY <1>2, <1>3, <1>4
(* Nothing about c or q has changed.                                       *)
<1>5. ASSUME q \in Ready, waited'[q] = waited[q], config' = config,
             proc'[c] = proc[c], cpc'[c] = cpc[c], time_left'[c] = time_left[c],
             status'[c] = status[c]
      PROVE  waited'[q] + Remaining(c)' + Spent(c)' <= TimeSlot
  <2>1. Remaining(c)' = Remaining(c) /\ Spent(c)' = Spent(c)
    BY <1>5 DEF Remaining, Spent
  <2>2. waited[q] + Remaining(c) + Spent(c) <= TimeSlot
    BY <1>1, <1>5 DEF Overtaking
  <2> QED
    BY <1>5, <2>1, <2>2
<1>6. CASE \E d \in CPUs : Asks(d)
  <2>1. PICK d \in CPUs : Asks(d)
    BY <1>6
  <2>2. CASE c = d
    BY <1>2, <2>1, <2>2, AsksIs
  <2>3. CASE c # d
    BY <1>5, <2>1, <2>3, AsksIs
  <2> QED
    BY <2>2, <2>3
<1>7. CASE \E d \in CPUs : Yield(d)
  <2>1. PICK d \in CPUs : Yield(d)
    BY <1>7
  <2>2. /\ c # d /\ proc[d] \in Procs \ Ready /\ Ready' = Ready \cup {proc[d]}
        /\ waited' = [waited EXCEPT ![proc[d]] = 0]
    BY <2>1, YieldIs
  <2>3. CASE q = proc[d]
    BY <1>2, <1>4, <2>2, <2>3
  <2>4. CASE q \in Ready
    <3>1. waited'[q] = waited[q]
      BY <1>2, <2>2, <2>4
    <3> QED
      BY <1>5, <2>1, <2>2, <2>4, <3>1, YieldIs
  <2> QED
    BY <2>2, <2>3, <2>4
<1>8. CASE Load
  <2>1. /\ Ready' = Ready \cup {i} /\ i \in Procs /\ i \notin Loaded /\ waited' = waited
    BY <1>8, LoadIs
  <2>2. CASE q = i
    BY <1>1, <1>4, <2>1, <2>2 DEF UnloadedFresh
  <2>3. CASE q \in Ready
    BY <1>5, <1>8, <2>1, <2>3, LoadIs
  <2> QED
    BY <2>1, <2>2, <2>3
<1>9. CASE NextSlot
  <2>1. /\ q \in Ready /\ config' = config /\ UNCHANGED << proc, cpc, time_left >>
        /\ status[c] # "working"
        /\ status'[c] = IF status[c] = "arrived" THEN "working" ELSE status[c]
        /\ waited'[q] = IF waited[q] <= TimeSlot THEN waited[q] + 1 ELSE waited[q]
    BY <1>2, <1>9, NextSlotIs
  <2>2. status[c] = "arrived"
    <3>1. status[c] \in {"working", "arrived", "left"}
      BY <1>1, SchedTypes
    <3>2. status[c] # "left"
      BY <1>1, <2>1 DEF Synced, OInv, IdleWithoutProc
    <3> QED
      BY <2>1, <3>1, <3>2
  <2>3. waited[q] + Remaining(c) + 1 <= TimeSlot
    BY <1>1, <2>1, <2>2 DEF Overtaking, Spent
  <2>4. Remaining(c)' = Remaining(c) /\ Spent(c)' = 0
    BY <2>1, <2>2 DEF Remaining, Spent
  <2>5. waited[q] \in Nat /\ waited'[q] \in Nat
    BY <1>2, <2>1
  <2>6. waited'[q] <= waited[q] + 1
    BY <1>2, <2>1, <2>5
  <2> QED
    BY <1>2, <1>3, <2>3, <2>4, <2>5, <2>6
<1>10. CASE \E d \in CPUs : Finish(d) \/ Stop(d) \/ SkipSlot(d) \/ Run(d)
  <2>1. PICK d \in CPUs : Finish(d) \/ Stop(d) \/ SkipSlot(d) \/ Run(d)
    BY <1>10
  <2>2. q \in Ready /\ waited' = waited /\ config' = config
    BY <1>10, OtherIs DEF Other
  <2>3. CASE c # d
    BY <1>1, <1>5, <2>1, <2>2, <2>3, OneCPU
  <2>4. CASE c = d
    <3>1. Run(c)
      BY <1>1, <2>1, <2>4, TurnIs
    <3>2. /\ proc'[c] = proc[c] /\ status[c] = "working" /\ status'[c] = "arrived"
          /\ cpc'[c] = "top" /\ (cpc[c] = "recheck" \/ (cpc[c] = "top" /\ time_left[c] # 0))
          /\ time_left'[c] = (IF time_left[c] = 0 THEN TimeSlot ELSE time_left[c]) - 1
      BY <1>1, <3>1, TurnIs, OneCPU
    <3>3. Spent(c) = 0 /\ Spent(c)' = 1
      BY <3>2 DEF Spent
    <3>4. time_left[c] \in 0..TimeSlot /\ (cpc[c] = "recheck" => time_left[c] = 0)
      BY <1>1, <1>2 DEF QuantumOver
    <3>5. Remaining(c)' = Remaining(c) - 1 /\ Remaining(c) \in Nat
      BY <1>2, <3>2, <3>4 DEF Remaining
    <3>6. waited[q] + Remaining(c) + Spent(c) <= TimeSlot
      BY <1>1, <2>2, <3>2 DEF Overtaking
    <3>7. waited[q] \in Nat
      BY <1>2, <2>2
    <3> QED
      BY <1>2, <2>2, <3>3, <3>5, <3>6, <3>7
  <2> QED
    BY <2>3, <2>4
<1>11. CASE AwaitStart \/ AllLoaded \/ LoaderExit \/ UNCHANGED vars
  <2>1. q \in Ready /\ waited' = waited /\ config' = config
    BY <1>11, OtherIs DEF Other
  <2> QED
    BY <1>1, <1>5, <1>11, <2>1, LoaderWaits
<1> QED
  BY <1>6, <1>7, <1>8, <1>9, <1>10, <1>11, StepCases DEF Other

-----------------------------------------------------------------------------
(* No wasted slot                                                          *)

LEMMA FoundNothingStep ==
  ASSUME NumProc <= MAX_QUEUE_SIZE, OInv, Synced, UnloadedFresh, FoundNothing, [Next]_vars
  PROVE  FoundNothing'
<1>1. /\ TypeOK /\ Ready \subseteq Procs /\ NoProc \notin Procs
      /\ waited \in [Procs -> 0..(TimeSlot + 1)]
  BY SchedTypes, ReadyTyped DEF OInv, Owned, QInv
<1> SUFFICES ASSUME NEW c \in CPUs, proc'[c] = NoProc,
                    status'[c] = "arrived" \/ cpc'[c] = "recheck", NEW p \in Ready'
             PROVE  waited'[p] = 0
  BY DEF FoundNothing
(* c had found nothing before this step, and p has not waited since.       *)
<1>2. ASSUME proc[c] = NoProc, status[c] = "arrived" \/ cpc[c] = "recheck",
             p \in Ready => waited'[p] = waited[p], p \notin Ready => waited'[p] = 0
      PROVE  waited'[p] = 0
  BY <1>2 DEF FoundNothing
<1>3. CASE \E d \in CPUs : Asks(d)
  <2>1. PICK d \in CPUs : Asks(d)
    BY <1>3
  <2>2. CASE c = d
    BY <1>1, <2>1, <2>2, AsksIs
  <2>3. CASE c # d
    <3>1. Ready' \subseteq Ready /\ waited' = waited
      BY <2>1, AsksIs
    <3> QED
      BY <1>2, <2>1, <2>3, <3>1, AsksIs
  <2> QED
    BY <2>2, <2>3
<1>4. CASE \E d \in CPUs : Yield(d)
  <2>1. PICK d \in CPUs : Yield(d)
    BY <1>4
  <2>2. /\ proc[d] \in Procs \ Ready /\ Ready' = Ready \cup {proc[d]} /\ cpc'[d] = "get"
        /\ waited' = [waited EXCEPT ![proc[d]] = 0] /\ status' = status
        /\ \A e \in CPUs \ {d} : proc'[e] = proc[e] /\ cpc'[e] = cpc[e]
    BY <2>1, YieldIs
  <2>3. status[d] = "working"
    BY <2>1 DEF Yield, At, Timer!Working
  <2>4. c # d
    BY <2>2, <2>3
  <2>5. /\ p \in Ready => waited'[p] = waited[p]
        /\ p \notin Ready => waited'[p] = 0
    BY <1>1, <2>2
  <2> QED
    BY <1>2, <2>2, <2>4, <2>5
<1>5. CASE Load
  <2>1. waited' = waited /\ (p \notin Ready => waited'[p] = 0)
    BY <1>5, LoadIs DEF UnloadedFresh
  <2> QED
    BY <1>2, <1>5, <2>1, LoadIs
<1>6. CASE NextSlot
  <2>1. status'[c] # "arrived" /\ cpc'[c] = cpc[c] /\ status[c] # "working"
    BY <1>6, NextSlotIs
  <2>2. status[c] \in {"arrived", "left"}
    BY <1>1, <2>1, SchedTypes
  <2> QED
    BY <2>1, <2>2 DEF Synced
<1>7. CASE \E d \in CPUs : Finish(d) \/ Stop(d) \/ SkipSlot(d) \/ Run(d)
  <2>1. PICK d \in CPUs : Finish(d) \/ Stop(d) \/ SkipSlot(d) \/ Run(d)
    BY <1>7
  <2>2. p \in Ready /\ waited' = waited
    BY <1>7, OtherIs DEF Other
  <2>3. CASE c # d
    BY <1>1, <1>2, <2>1, <2>2, <2>3, OneCPU
  <2>4. CASE c = d
    <3>1. CASE Finish(c)
      <4>1. cpc'[c] = "get" /\ status' = status /\ status[c] = "working"
        BY <1>1, <3>1, TurnIs DEF Finish, timerVars, At, Timer!Working
      <4> QED
        BY <4>1
    <3>2. CASE Stop(c) \/ SkipSlot(c)
      <4>1. proc[c] = NoProc /\ cpc[c] = "recheck"
        BY <1>1, <3>2, TurnIs
      <4> QED
        BY <1>2, <2>2, <4>1
    <3>3. CASE Run(c)
      BY <1>1, <3>3, TurnIs
    <3> QED
      BY <2>1, <2>4, <3>1, <3>2, <3>3
  <2> QED
    BY <2>3, <2>4
<1>8. CASE AwaitStart \/ AllLoaded \/ LoaderExit \/ UNCHANGED vars
  <2>1. p \in Ready /\ waited' = waited
    BY <1>8, OtherIs DEF Other
  <2> QED
    BY <1>1, <1>2, <1>8, <2>1, LoaderWaits
<1> QED
  BY <1>3, <1>4, <1>5, <1>6, <1>7, <1>8, StepCases DEF Other

(* Comings and goings among the waiting and the looking, counted.          *)
LEMMA OneMore ==
  ASSUME NEW S, IsFiniteSet(S), NEW x, x \notin S
  PROVE  IsFiniteSet(S \cup {x}) /\ Cardinality(S \cup {x}) = Cardinality(S) + 1
  BY FS_AddElement

LEMMA OneLess ==
  ASSUME NEW S, IsFiniteSet(S), NEW x \in S
  PROVE  IsFiniteSet(S \ {x}) /\ Cardinality(S \ {x}) = Cardinality(S) - 1
  BY FS_RemoveElement

LEMMA CountsFinite ==
  ASSUME OInv
  PROVE  /\ IsFiniteSet(Ready) /\ Cardinality(Ready) \in Nat
         /\ IsFiniteSet(Seeking) /\ Cardinality(Seeking) \in Nat
<1>1. IsFiniteSet(Procs)
  BY OSAssumption, FS_Interval DEF Procs
<1>2. Ready \subseteq Procs /\ Seeking \subseteq CPUs /\ IsFiniteSet(CPUs)
  BY OSAssumption, ReadyTyped DEF OInv, Owned, QInv, Seeking
<1>3. IsFiniteSet(Ready) /\ IsFiniteSet(Seeking)
  BY <1>1, <1>2, FS_Subset
<1> QED
  BY <1>3, FS_CardinalityType

LEMMA EnoughStep ==
  ASSUME NumProc <= MAX_QUEUE_SIZE, OInv, Synced, DoneLast, EnoughSeekers, [Next]_vars
  PROVE  EnoughSeekers'
<1>1. /\ TypeOK /\ cpc \in [CPUs -> {"top", "get", "recheck", "stopped"}]
      /\ status \in [CPUs \cup {Loader} -> {"working", "arrived", "left"}]
      /\ Ready \subseteq Procs /\ NoProc \notin Procs /\ NumProc \in Nat
  BY SchedTypes, ReadyTyped DEF OInv, Owned, QInv
<1>2. /\ IsFiniteSet(Ready) /\ Cardinality(Ready) \in Nat
      /\ IsFiniteSet(Seeking) /\ Cardinality(Seeking) \in Nat
  BY CountsFinite
<1> SUFFICES ASSUME NEW l \in CPUs, Leaving(l)'
             PROVE  Cardinality(Ready') <= Cardinality(Seeking')
  BY DEF EnoughSeekers
<1>3. ASSUME NEW c \in CPUs, Leaving(c) PROVE Cardinality(Ready) <= Cardinality(Seeking)
  BY <1>3 DEF EnoughSeekers
<1>4. CASE \E c \in CPUs : Asks(c)
  <2>1. PICK c \in CPUs : Asks(c)
    BY <1>4
  <2>2. CASE Ready' = {}
    <3>1. OInv'
      BY OwnershipStep
    <3>2. Cardinality(Seeking') \in Nat
      <4>1. IsFiniteSet(CPUs) /\ Seeking' \subseteq CPUs
        BY OSAssumption DEF Seeking
      <4> QED
        BY <4>1, FS_Subset, FS_CardinalityType
    <3> QED
      BY <2>2, <3>2, FS_EmptySet
  <2>3. CASE Ready' # {}
    <3>1. /\ proc'[c] \in Ready /\ Ready' = Ready \ {proc'[c]} /\ cpc'[c] = "recheck"
          /\ proc'[c] # NoProc
      BY <1>1, <2>1, <2>3, AsksIs
    <3>2. l # c
      BY <3>1 DEF Leaving
    <3>3. Leaving(l)
      BY <2>1, <3>2, AsksIs DEF Leaving
    <3>4. Cardinality(Ready) <= Cardinality(Seeking)
      BY <1>3, <3>3
    <3>5. Cardinality(Ready') = Cardinality(Ready) - 1
      BY <1>2, <3>1, OneLess
    <3>6. Seeking' = Seeking \ {c}
      BY <1>1, <2>1, <3>1, AsksIs DEF Seeking
    <3>7. CASE c \in Seeking
      <4>1. Cardinality(Seeking') = Cardinality(Seeking) - 1
        BY <1>2, <3>6, <3>7, OneLess
      <4> QED
        BY <1>2, <3>4, <3>5, <4>1
    <3>8. CASE c \notin Seeking
      <4>1. Seeking' = Seeking
        BY <3>6, <3>8
      <4> QED
        BY <1>2, <3>4, <3>5, <4>1
    <3> QED
      BY <3>7, <3>8
  <2> QED
    BY <2>2, <2>3
<1>5. CASE \E c \in CPUs : Yield(c)
  <2>1. PICK c \in CPUs : Yield(c)
    BY <1>5
  <2>2. /\ proc[c] \in Procs \ Ready /\ Ready' = Ready \cup {proc[c]}
        /\ cpc[c] = "top" /\ cpc'[c] = "get"
        /\ \A d \in CPUs \ {c} : proc'[d] = proc[d] /\ cpc'[d] = cpc[d]
        /\ UNCHANGED << status, done >>
    BY <2>1, YieldIs
  <2>3. Leaving(l)
    BY <2>2 DEF Leaving
  <2>4. Cardinality(Ready) <= Cardinality(Seeking)
    BY <1>3, <2>3
  <2>5. Seeking' = Seeking \cup {c} /\ c \notin Seeking
    BY <1>1, <2>2 DEF Seeking
  <2>6. Cardinality(Ready') = Cardinality(Ready) + 1
        /\ Cardinality(Seeking') = Cardinality(Seeking) + 1
    BY <1>2, <2>2, <2>5, OneMore
  <2> QED
    BY <1>2, <2>4, <2>6
<1>6. CASE Load
  <2>1. /\ i <= NumProc /\ status'[Loader] = "arrived" /\ i \in Procs
        /\ UNCHANGED << proc, cpc, done >>
    BY <1>6, LoadIs
  <2>2. ~done
    BY <1>1, <2>1 DEF DoneLast, Procs
  <2>3. ~Leaving(l)'
    BY <2>1, <2>2 DEF Leaving, DoneLast
  <2> QED
    BY <2>3
<1>7. CASE NextSlot
  <2>1. /\ Ready' = Ready /\ UNCHANGED << proc, cpc, done >>
        /\ status[l] # "working"
    BY <1>7, NextSlotIs
  <2>2. cpc[l] # "recheck"
    <3>1. status[l] \in {"arrived", "left"}
      BY <1>1, <2>1
    <3> QED
      BY <3>1 DEF Synced
  <2>3. Leaving(l) /\ Seeking' = Seeking
    BY <2>1, <2>2 DEF Leaving, Seeking
  <2> QED
    BY <1>3, <2>1, <2>3
<1>8. CASE \E c \in CPUs : Finish(c) \/ Stop(c) \/ SkipSlot(c) \/ Run(c)
  <2>1. PICK c \in CPUs : Finish(c) \/ Stop(c) \/ SkipSlot(c) \/ Run(c)
    BY <1>8
  <2>2. Ready' = Ready
    BY <1>8, OtherIs DEF Other
  <2>3. /\ \A d \in CPUs \ {c} : proc'[d] = proc[d] /\ cpc'[d] = cpc[d]
        /\ status'[Loader] = status[Loader] /\ done' = done
    BY <1>1, <2>1, OneCPU
  <2>4. Leaving(l)
    <3>1. CASE l # c
      BY <2>3, <3>1 DEF Leaving
    <3>2. CASE l = c
      <4>1. Stop(c) /\ cpc[c] = "recheck" /\ proc[c] = NoProc /\ done
        BY <1>1, <2>1, <3>2, TurnIs DEF Leaving
      <4> QED
        BY <3>2, <4>1 DEF Leaving
    <3> QED
      BY <3>1, <3>2
  <2>5. cpc[c] # "get"
    BY <2>1 DEF Finish, Stop, SkipSlot, Run, At
  <2>6. CASE Finish(c)
    <3>1. Seeking' = Seeking \cup {c} /\ c \notin Seeking
      BY <1>1, <2>3, <2>5, <2>6, TurnIs DEF Seeking
    <3>2. Cardinality(Seeking') = Cardinality(Seeking) + 1
      BY <1>2, <3>1, OneMore
    <3> QED
      BY <1>2, <1>3, <2>2, <2>4, <3>2
  <2>7. CASE Stop(c) \/ SkipSlot(c) \/ Run(c)
    <3>1. Seeking' = Seeking
      BY <1>1, <2>3, <2>5, <2>7, TurnIs DEF Seeking
    <3> QED
      BY <1>3, <2>2, <2>4, <3>1
  <2> QED
    BY <2>1, <2>6, <2>7
<1>9. CASE AwaitStart \/ AllLoaded \/ LoaderExit \/ UNCHANGED vars
  <2>1. Ready' = Ready
    BY <1>9, OtherIs DEF Other
  <2>2. UNCHANGED << proc, cpc >>
    BY <1>1, <1>9, LoaderWaits
  <2>3. (done' \/ status'[Loader] = "working") => done \/ status[Loader] = "working"
    BY <1>1, <1>9 DEF AwaitStart, AllLoaded, LoaderExit, vars, timerVars, loadVars,
       Timer!Arrive, Timer!Leave, Timer!Working
  <2>4. Leaving(l) /\ Seeking' = Seeking
    BY <2>2, <2>3 DEF Leaving, Seeking
  <2> QED
    BY <1>3, <2>1, <2>4
<1> QED
  BY <1>4, <1>5, <1>6, <1>7, <1>8, <1>9, StepCases DEF Other

(* When a slot ends nobody is looking: an idle CPU has left, and nothing   *)
(* is ready, or it waits for the next slot, and nothing ready has waited.  *)
LEMMA SlotWellSpent ==
  ASSUME OInv, Synced, FoundNothing, EnoughSeekers
  PROVE  WorkConserving
<1> SUFFICES ASSUME \A c \in CPUs : ~Timer!Working(c), NEW p \in Ready, waited[p] > 0,
                    NEW c \in CPUs, proc[c] = NoProc
             PROVE  FALSE
  BY DEF WorkConserving
<1>1. \A d \in CPUs : status[d] \in {"arrived", "left"}
  BY SchedTypes DEF OInv, Timer!Working
<1>2. status[c] # "arrived"
  BY DEF FoundNothing
<1>3. cpc[c] = "stopped"
  BY <1>1, <1>2 DEF Synced
<1>4. Seeking = {}
  BY <1>1 DEF Synced, Seeking
<1>5. Cardinality(Ready) <= 0
  BY <1>3, <1>4, FS_EmptySet DEF EnoughSeekers, Leaving
<1>6. Ready = {}
  BY <1>5, CountsFinite, FS_EmptySet
<1> QED
  BY <1>6

-----------------------------------------------------------------------------
(* What the runs check, for every value of the constants                   *)

LEMMA InitSched ==
  ASSUME Init
  PROVE  WaitInv /\ InversionInv /\ WorkInv
<1>1. /\ Ready = {} /\ \A prio \in Prios : DOMAIN mlq_ready_queue[prio] = {}
  BY DEF Init, init_scheduler, Ready
<1>2. UnloadedFresh /\ LongestWaitFirst
  BY <1>1 DEF Init, UnloadedFresh, LongestWaitFirst
<1>3. QuantumOver /\ QuantumBegun /\ Overtaking /\ FoundNothing
  BY <1>1 DEF Init, QuantumOver, QuantumBegun, Overtaking, FoundNothing
<1>4. EnoughSeekers
  BY DEF Init, EnoughSeekers, Leaving
<1> QED
  BY <1>2, <1>3, <1>4 DEF WaitInv, InversionInv, WorkInv

(* Within a priority, the process that has waited longest is served first, *)
(* however the CPUs' puts and gets interleave.                             *)
THEOREM RoundRobinCorrect == NumProc <= MAX_QUEUE_SIZE => (Spec => []LongestWaitFirst)
<1> SUFFICES ASSUME NumProc <= MAX_QUEUE_SIZE PROVE Spec => []LongestWaitFirst
  OBVIOUS
<1>1. Init => OInv /\ WaitInv
  BY InitOwnership, InitSched
<1>2. OInv /\ WaitInv /\ [Next]_vars => (OInv /\ WaitInv)'
  BY OwnershipStep, WaitStep
<1>3. WaitInv => LongestWaitFirst
  BY DEF WaitInv
<1> QED
  BY <1>1, <1>2, <1>3, PTL DEF Spec

(* A process of higher priority is kept from a CPU for at most the rest of *)
(* one quantum.                                                            *)
THEOREM InversionBounded ==
  NumProc <= MAX_QUEUE_SIZE /\ CPUs # {} => (Spec => []BoundedInversion)
<1> SUFFICES ASSUME NumProc <= MAX_QUEUE_SIZE, CPUs # {} PROVE Spec => []BoundedInversion
  OBVIOUS
<1>1. Init => EndInv /\ InversionInv
  BY InitEnd, InitSched
<1>2. EndInv /\ InversionInv /\ [Next]_vars => (EndInv /\ InversionInv)'
  BY EndStep, InversionStep DEF EndInv
<1>3. EndInv /\ InversionInv => BoundedInversion
  <2> SUFFICES ASSUME EndInv, InversionInv, NEW c \in CPUs, NEW q \in Ready, proc[c] # NoProc,
                      config.prio[proc[c]] > config.prio[q]
               PROVE  waited[q] + Remaining(c) <= TimeSlot
    BY DEF BoundedInversion
  <2>1. waited[q] + Remaining(c) + Spent(c) <= TimeSlot
    BY DEF InversionInv, Overtaking
  <2>2. waited[q] \in Nat /\ Remaining(c) \in Nat /\ TimeSlot \in Nat
    BY SchedTypes, ReadyTyped DEF EndInv, OInv, Owned, QInv, Remaining
  <2> QED
    BY <2>1, <2>2 DEF Spent
<1> QED
  BY <1>1, <1>2, <1>3, PTL DEF Spec

(* No CPU ends a slot without a process while one has waited since before  *)
(* the slot, not even a CPU that has already left.                         *)
THEOREM NoSlotWasted ==
  NumProc <= MAX_QUEUE_SIZE /\ CPUs # {} => (Spec => []WorkConserving)
<1> SUFFICES ASSUME NumProc <= MAX_QUEUE_SIZE, CPUs # {} PROVE Spec => []WorkConserving
  OBVIOUS
<1>1. Init => EndInv /\ WorkInv
  BY InitEnd, InitSched
<1>2. EndInv /\ WorkInv /\ [Next]_vars => (EndInv /\ WorkInv)'
  BY EndStep, FreshKept, FoundNothingStep, EnoughStep DEF EndInv, WorkInv
<1>3. EndInv /\ WorkInv => WorkConserving
  BY SlotWellSpent DEF EndInv, WorkInv
<1> QED
  BY <1>1, <1>2, <1>3, PTL DEF Spec
=============================================================================
