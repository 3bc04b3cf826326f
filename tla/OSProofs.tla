------------------------------ MODULE OSProofs -----------------------------
(***************************************************************************)
(* OS, proved for any number of CPUs, priorities and processes and any     *)
(* quantum: as long as a queue has room for every process, no process is   *)
(* lost or run twice, and the last CPU to stop leaves nothing behind.      *)
(*                                                                         *)
(* ExclusiveOwnership counts places.  What is inductive says where: a      *)
(* queue holds no process twice and only those of its priority, no two     *)
(* CPUs hold one process, none is both held and ready.                     *)
(***************************************************************************)
EXTENDS OS, TLAPS, FiniteSetTheorems, WellFoundedInduction

QueuesTyped == mlq_ready_queue \in [Prios -> Seq(Procs)] /\ config \in Configs

QueuesOwn ==
  \A prio \in Prios : \A n \in DOMAIN mlq_ready_queue[prio] :
    config.prio[mlq_ready_queue[prio][n]] = prio

QueuesDistinct ==
  \A prio \in Prios : \A m, n \in DOMAIN mlq_ready_queue[prio] :
    mlq_ready_queue[prio][m] = mlq_ready_queue[prio][n] => m = n

QInv == QueuesTyped /\ QueuesOwn /\ QueuesDistinct

-----------------------------------------------------------------------------
(* The queues                                                              *)

LEMMA ConfigTypes ==
  ASSUME NEW c \in Configs
  PROVE  c.prio \in [Procs -> Prios] /\ c.size \in [Procs -> Nat]
  BY OSAssumption

LEMMA ReadyIs ==
  \A p : p \in Ready <=> \E prio \in Prios : \E n \in DOMAIN mlq_ready_queue[prio] :
                           mlq_ready_queue[prio][n] = p
  BY DEF Ready

LEMMA ReadyTyped ==
  ASSUME QueuesTyped
  PROVE  Ready \subseteq Procs
<1> SUFFICES ASSUME NEW p \in Ready PROVE p \in Procs
  OBVIOUS
<1>1. PICK prio \in Prios : \E n \in DOMAIN mlq_ready_queue[prio] :
                              mlq_ready_queue[prio][n] = p
  BY ReadyIs
<1>2. mlq_ready_queue[prio] \in Seq(Procs)
  BY DEF QueuesTyped
<1> QED
  BY <1>1, <1>2

(* A list without repetitions is no longer than the set it draws from.     *)
LEMMA DistinctLength ==
  ASSUME NEW S, IsFiniteSet(S), NEW s \in Seq(S),
         \A m, n \in DOMAIN s : s[m] = s[n] => m = n
  PROVE  Len(s) <= Cardinality(S)
<1>1. Len(s) \in Nat /\ DOMAIN s = 1..Len(s)
  OBVIOUS
<1>2. s \in Injection(1..Len(s), S)
  <2>1. s \in [1..Len(s) -> S]
    BY <1>1
  <2> QED
    BY <1>1, <2>1 DEF Injection, IsInjective
<1>3. Cardinality(1..Len(s)) <= Cardinality(S)
  BY <1>2, FS_Injection
<1>4. Cardinality(1..Len(s)) = Len(s)
  <2>1. 1 \in Int /\ Len(s) \in Int
    BY <1>1
  <2>2. Cardinality(1..Len(s)) = IF 1 > Len(s) THEN 0 ELSE Len(s) - 1 + 1
    BY <2>1, FS_Interval
  <2> QED
    BY <1>1, <2>2
<1> QED
  BY <1>3, <1>4

(* The processes of a queue are distinct, so no queue overflows, and one   *)
(* without a process has room for it.                                      *)
LEMMA QueueRoom ==
  ASSUME NumProc <= MAX_QUEUE_SIZE, QInv, NEW prio \in Prios
  PROVE  /\ Len(mlq_ready_queue[prio]) <= MAX_QUEUE_SIZE
         /\ \A p \in Procs \ Ready : Len(mlq_ready_queue[prio]) < MAX_QUEUE_SIZE
<1> DEFINE q == mlq_ready_queue[prio]
<1>1. /\ q \in Seq(Procs) /\ Len(q) \in Nat /\ DOMAIN q = 1..Len(q)
      /\ \A m, n \in DOMAIN q : q[m] = q[n] => m = n
  BY DEF QInv, QueuesTyped, QueuesDistinct
<1>2. NumProc \in Nat /\ MAX_QUEUE_SIZE \in Nat
  BY OSAssumption, QueueAssumption
<1>3. IsFiniteSet(Procs) /\ Cardinality(Procs) = NumProc
  BY <1>2, FS_Interval DEF Procs
<1>4. \A n \in 1..Len(q) : q[n] \in Ready
  BY <1>1, ReadyIs
<1> HIDE DEF q
<1>5. Len(q) <= NumProc
  BY <1>1, <1>3, DistinctLength
<1>6. ASSUME NEW p \in Procs \ Ready
      PROVE  Len(q) < MAX_QUEUE_SIZE
  <2>1. IsFiniteSet(Procs \ {p}) /\ Cardinality(Procs \ {p}) = NumProc - 1
    BY <1>3, FS_RemoveElement
  <2>2. q \in Seq(Procs \ {p})
    BY <1>1, <1>4
  <2>3. Len(q) <= NumProc - 1
    BY <1>1, <2>1, <2>2, DistinctLength
  <2> QED
    BY <1>1, <1>2, <2>3
<1> QED
  BY <1>1, <1>2, <1>5, <1>6 DEF q

(* The scan of get_mlq_proc ends at a priority with a waiting process, and *)
(* none is more urgent.                                                    *)
LEMMA BestIs ==
  ASSUME NEW S \in SUBSET Nat, S # {}
  PROVE  Best(S) \in S /\ \A other \in S : Best(S) <= other
<1> DEFINE R == {ss \in Nat \X Nat : ss[1] < ss[2]}
<1>1. IsWellFoundedOn(R, Nat)
  BY NatLessThanWellFounded, Zenon DEF OpToRel
<1> HIDE DEF R
<1>2. PICK x \in S : \A y \in S : ~(<< y, x >> \in R)
  BY <1>1, WFMin
<1>3. \A y \in S : x <= y
  <2> SUFFICES ASSUME NEW y \in S, y < x PROVE FALSE
    BY Z3
  <2>1. << y, x >> \in Nat \X Nat /\ << y, x >>[1] < << y, x >>[2]
    OBVIOUS
  <2>2. << y, x >> \in R
    BY <2>1, Zenon DEF R
  <2> QED
    BY <1>2, <2>2
<1> QED
  BY <1>3 DEF Best

(* put_mlq_proc with room adds p to the ready processes, in its place.     *)
LEMMA PutIs ==
  ASSUME NumProc <= MAX_QUEUE_SIZE, QInv, NEW p \in Procs, p \notin Ready,
         put_mlq_proc(p, config.prio[p]), config' = config
  PROVE  QInv' /\ Ready' = Ready \cup {p} /\ running_list' = running_list
<1> DEFINE prio == config.prio[p]
           q == mlq_ready_queue[prio]
<1>1. prio \in Prios /\ mlq_ready_queue \in [Prios -> Seq(Procs)]
  BY ConfigTypes DEF QInv, QueuesTyped
<1>2. q \in Seq(Procs) /\ Len(q) \in Nat /\ DOMAIN q = 1..Len(q)
  BY <1>1
<1>3. mlq_ready_queue' = [mlq_ready_queue EXCEPT ![prio] = Append(q, p)]
  BY <1>1, QueueRoom DEF put_mlq_proc, Enqueue
<1>4. \A n \in 1..Len(q) : q[n] # p
  BY <1>1, <1>2, ReadyIs
<1> HIDE DEF prio
<1>5. /\ mlq_ready_queue' \in [Prios -> Seq(Procs)]
      /\ mlq_ready_queue'[prio] = Append(q, p)
      /\ \A x \in Prios \ {prio} : mlq_ready_queue'[x] = mlq_ready_queue[x]
  BY <1>1, <1>2, <1>3
<1>6. /\ DOMAIN Append(q, p) = 1..(Len(q) + 1)
      /\ \A n \in 1..Len(q) : Append(q, p)[n] = q[n]
      /\ Append(q, p)[Len(q) + 1] = p
  BY <1>2
<1>7. \A n \in DOMAIN Append(q, p) : n \in 1..Len(q) \/ n = Len(q) + 1
  BY <1>2, <1>6
<1> HIDE DEF q
<1>8. QueuesOwn'
  <2> SUFFICES ASSUME NEW x \in Prios, NEW n \in DOMAIN mlq_ready_queue'[x]
               PROVE  config.prio[mlq_ready_queue'[x][n]] = x
    BY DEF QueuesOwn
  <2>1. CASE x # prio
    BY <1>5, <2>1 DEF QInv, QueuesOwn
  <2>2. CASE x = prio
    <3>1. \A m \in DOMAIN q : config.prio[q[m]] = prio
      BY <1>1 DEF QInv, QueuesOwn, q
    <3>2. n \in DOMAIN Append(q, p) /\ mlq_ready_queue'[x][n] = Append(q, p)[n]
      BY <1>5, <2>2
    <3>3. CASE n \in 1..Len(q)
      BY <1>2, <1>6, <2>2, <3>1, <3>2, <3>3
    <3>4. CASE n = Len(q) + 1
      BY <1>6, <2>2, <3>2, <3>4 DEF prio
    <3> QED
      BY <1>7, <3>2, <3>3, <3>4
  <2> QED
    BY <2>1, <2>2
<1>9. QueuesDistinct'
  <2> SUFFICES ASSUME NEW x \in Prios, NEW m \in DOMAIN mlq_ready_queue'[x],
                      NEW n \in DOMAIN mlq_ready_queue'[x],
                      mlq_ready_queue'[x][m] = mlq_ready_queue'[x][n]
               PROVE  m = n
    BY DEF QueuesDistinct
  <2>1. CASE x # prio
    BY <1>5, <2>1 DEF QInv, QueuesDistinct
  <2>2. CASE x = prio
    <3>1. \A k, l \in DOMAIN q : q[k] = q[l] => k = l
      BY <1>1 DEF QInv, QueuesDistinct, q
    <3>2. /\ m \in DOMAIN Append(q, p) /\ n \in DOMAIN Append(q, p)
          /\ Append(q, p)[m] = Append(q, p)[n]
      BY <1>5, <2>2
    <3> QED
      BY <1>2, <1>4, <1>6, <1>7, <3>1, <3>2
  <2> QED
    BY <2>1, <2>2
<1>10. Ready' = Ready \cup {p}
  <2>1. ASSUME NEW x \in Ready' PROVE x \in Ready \cup {p}
    <3>1. PICK r \in Prios : \E n \in DOMAIN mlq_ready_queue'[r] :
                               mlq_ready_queue'[r][n] = x
      BY <2>1 DEF Ready
    <3>2. CASE r # prio
      BY <1>5, <3>1, <3>2, ReadyIs
    <3>3. CASE r = prio
      BY <1>1, <1>2, <1>5, <1>6, <1>7, <3>1, <3>3, ReadyIs DEF q
    <3> QED
      BY <3>2, <3>3
  <2>2. p \in Ready'
    <3>1. Len(q) + 1 \in DOMAIN mlq_ready_queue'[prio]
          /\ mlq_ready_queue'[prio][Len(q) + 1] = p
      BY <1>2, <1>5, <1>6
    <3> QED
      BY <1>1, <3>1 DEF Ready
  <2>3. ASSUME NEW x \in Ready PROVE x \in Ready'
    <3>0. PICK r \in Prios : \E n \in DOMAIN mlq_ready_queue[r] : mlq_ready_queue[r][n] = x
      BY ReadyIs
    <3>1. PICK n \in DOMAIN mlq_ready_queue[r] : mlq_ready_queue[r][n] = x
      BY <3>0
    <3>2. n \in DOMAIN mlq_ready_queue'[r] /\ mlq_ready_queue'[r][n] = x
      <4>1. CASE r # prio
        BY <1>5, <3>1, <4>1
      <4>2. CASE r = prio
        BY <1>2, <1>5, <1>6, <3>1, <4>2 DEF q
      <4> QED
        BY <4>1, <4>2
    <3> QED
      BY <3>2 DEF Ready
  <2> QED
    BY <2>1, <2>2, <2>3
<1>11. QueuesTyped' /\ running_list' = running_list
  BY <1>5 DEF QInv, QueuesTyped, put_mlq_proc
<1> QED
  BY <1>8, <1>9, <1>10, <1>11 DEF QInv

(* get_mlq_proc takes a ready process out of its queue.                    *)
LEMMA GetIs ==
  ASSUME QInv, NEW p \in Procs, get_mlq_proc(p), config' = config
  PROVE  QInv' /\ p \in Ready /\ Ready' = Ready \ {p}
<1> DEFINE prio == Best(Waiting)
           q == mlq_ready_queue[prio]
<1>1. Waiting # {} /\ Waiting \in SUBSET Nat
  BY DEF get_mlq_proc, Waiting, Prios
<1>2. prio \in Prios /\ q # << >>
  BY <1>1, BestIs DEF Waiting, Empty
<1>3. /\ mlq_ready_queue \in [Prios -> Seq(Procs)]
      /\ q \in Seq(Procs) /\ Len(q) \in Nat \ {0} /\ DOMAIN q = 1..Len(q)
  BY <1>2 DEF QInv, QueuesTyped
<1>4. p = q[1] /\ mlq_ready_queue' = [mlq_ready_queue EXCEPT ![prio] = Tail(q)]
  BY <1>3 DEF get_mlq_proc, Dequeued, DequeueRest
<1> HIDE DEF prio
<1>5. /\ mlq_ready_queue' \in [Prios -> Seq(Procs)]
      /\ mlq_ready_queue'[prio] = Tail(q)
      /\ \A x \in Prios \ {prio} : mlq_ready_queue'[x] = mlq_ready_queue[x]
  BY <1>2, <1>3, <1>4
<1>6. /\ DOMAIN Tail(q) = 1..(Len(q) - 1)
      /\ \A n \in 1..(Len(q) - 1) : Tail(q)[n] = q[n + 1] /\ n + 1 \in DOMAIN q
      /\ 1 \in DOMAIN q
  BY <1>2, <1>3
<1>7. config.prio[p] = prio
  BY <1>2, <1>4, <1>6 DEF QInv, QueuesOwn
<1>8. \A m, n \in DOMAIN q : q[m] = q[n] => m = n
  BY <1>2 DEF QInv, QueuesDistinct
<1>9. \A x \in Prios : \A n \in DOMAIN mlq_ready_queue[x] :
        mlq_ready_queue[x][n] = p => x = prio /\ n = 1
  BY <1>4, <1>6, <1>7, <1>8 DEF QInv, QueuesOwn
<1>10. QueuesOwn'
  <2> SUFFICES ASSUME NEW x \in Prios, NEW n \in DOMAIN mlq_ready_queue'[x]
               PROVE  config.prio[mlq_ready_queue'[x][n]] = x
    BY DEF QueuesOwn
  <2>1. CASE x # prio
    BY <1>5, <2>1 DEF QInv, QueuesOwn
  <2>2. CASE x = prio
    <3>1. \A m \in DOMAIN q : config.prio[q[m]] = prio
      BY <1>2 DEF QInv, QueuesOwn
    <3>2. n \in DOMAIN Tail(q) /\ mlq_ready_queue'[x][n] = Tail(q)[n]
      BY <1>5, <2>2
    <3>3. Tail(q)[n] = q[n + 1] /\ n + 1 \in DOMAIN q
      BY <1>6, <3>2
    <3> QED
      BY <2>2, <3>1, <3>2, <3>3
  <2> QED
    BY <2>1, <2>2
<1>11. QueuesDistinct'
  <2> SUFFICES ASSUME NEW x \in Prios, NEW m \in DOMAIN mlq_ready_queue'[x],
                      NEW n \in DOMAIN mlq_ready_queue'[x],
                      mlq_ready_queue'[x][m] = mlq_ready_queue'[x][n]
               PROVE  m = n
    BY DEF QueuesDistinct
  <2>1. CASE x # prio
    BY <1>5, <2>1 DEF QInv, QueuesDistinct
  <2>2. CASE x = prio
    <3>1. /\ m \in 1..(Len(q) - 1) /\ mlq_ready_queue'[x][m] = Tail(q)[m]
          /\ n \in 1..(Len(q) - 1) /\ mlq_ready_queue'[x][n] = Tail(q)[n]
      BY <1>5, <1>6, <2>2
    <3>2. q[m + 1] = q[n + 1] /\ m + 1 \in DOMAIN q /\ n + 1 \in DOMAIN q
      BY <1>6, <3>1
    <3>3. m + 1 = n + 1
      BY <1>8, <3>2
    <3> QED
      BY <1>3, <3>1, <3>3
  <2> QED
    BY <2>1, <2>2
<1>12. Ready' = Ready \ {p}
  <2>1. ASSUME NEW x \in Ready' PROVE x \in Ready \ {p}
    <3>0. PICK r \in Prios : \E n \in DOMAIN mlq_ready_queue'[r] : mlq_ready_queue'[r][n] = x
      BY <2>1 DEF Ready
    <3>1. PICK n \in DOMAIN mlq_ready_queue'[r] : mlq_ready_queue'[r][n] = x
      BY <3>0
    <3>2. CASE r # prio
      BY <1>5, <1>9, <3>1, <3>2, ReadyIs
    <3>3. CASE r = prio
      <4>1. n \in 1..(Len(q) - 1) /\ x = q[n + 1] /\ n + 1 \in DOMAIN q /\ n + 1 # 1
        BY <1>3, <1>5, <1>6, <3>1, <3>3
      <4> QED
        BY <1>2, <1>9, <4>1, ReadyIs
    <3> QED
      BY <3>2, <3>3
  <2>2. ASSUME NEW x \in Ready, x # p PROVE x \in Ready'
    <3>0. PICK r \in Prios : \E n \in DOMAIN mlq_ready_queue[r] : mlq_ready_queue[r][n] = x
      BY ReadyIs
    <3>1. PICK n \in DOMAIN mlq_ready_queue[r] : mlq_ready_queue[r][n] = x
      BY <3>0
    <3>2. CASE r # prio
      BY <1>5, <3>1, <3>2 DEF Ready
    <3>3. CASE r = prio
      <4>1. n \in 1..Len(q) /\ n # 1 /\ q[n] = x
        BY <1>3, <1>4, <2>2, <3>1, <3>3
      <4>2. n - 1 \in 1..(Len(q) - 1) /\ (n - 1) + 1 = n
        BY <1>3, <4>1
      <4>3. Tail(q)[n - 1] = x
        BY <1>6, <4>1, <4>2
      <4> QED
        BY <1>2, <1>5, <1>6, <4>2, <4>3 DEF Ready
    <3> QED
      BY <3>2, <3>3
  <2> QED
    BY <2>1, <2>2
<1>13. p \in Ready
  BY <1>2, <1>4, <1>6, ReadyIs
<1>14. QueuesTyped'
  BY <1>5 DEF QInv, QueuesTyped
<1> QED
  BY <1>10, <1>11, <1>12, <1>13, <1>14 DEF QInv

-----------------------------------------------------------------------------
(* Ownership                                                               *)

HoldersUnique ==
  \A c, d \in CPUs : c # d /\ proc[c] # NoProc => proc[c] # proc[d]

HeldNotReady == \A c \in CPUs : proc[c] \notin Ready

Accounted ==
  /\ freed \subseteq Loaded
  /\ \A p \in Procs : (p \in Ready \/ \E c \in CPUs : proc[c] = p) <=> p \in Loaded \ freed

IdleWithoutProc == \A c \in CPUs : cpc[c] \in {"get", "stopped"} => proc[c] = NoProc

Owned == QInv /\ HoldersUnique /\ HeldNotReady /\ Accounted

OInv == TypeOK /\ Owned /\ IdleWithoutProc

LEMMA InitOwnership == Init => OInv
<1> SUFFICES ASSUME Init PROVE OInv
  OBVIOUS
<1>1. /\ NumProc \in Nat /\ TimeSlot \in Nat /\ NoProc \notin Procs
      /\ config \in Configs /\ config.size \in [Procs -> Nat]
  BY OSAssumption, ConfigTypes DEF Init
<1>2. mlq_ready_queue \in [Prios -> Seq(Procs)] /\ running_list \in Seq(Procs)
  <2>1. << >> \in Seq(Procs)
    OBVIOUS
  <2> QED
    BY <2>1 DEF Init, init_scheduler
<1>3. \A prio \in Prios : DOMAIN mlq_ready_queue[prio] = {}
  BY DEF Init, init_scheduler
<1>4. Ready = {} /\ QInv
  BY <1>2, <1>3 DEF Ready, QInv, QueuesTyped, QueuesOwn, QueuesDistinct, Init
<1>5. Timer!BarrierTypeOK
  BY OSAssumption DEF Init, Timer!BarrierInit, Timer!BarrierTypeOK
<1>6. TypeOK
  <2>1. 0 \in 0..TimeSlot /\ 0 \in 0..(TimeSlot + 1) /\ 1 \in 1..(NumProc + 1)
    BY <1>1
  <2>2. \A p \in Procs : 0 <= config.size[p]
    BY <1>1
  <2> QED
    BY <1>1, <1>2, <1>5, <2>1, <2>2 DEF Init, TypeOK
<1>7. HoldersUnique /\ HeldNotReady
  BY <1>4 DEF Init, HoldersUnique, HeldNotReady
<1>8. Accounted
  <2>1. Loaded = {}
    BY DEF Init, Loaded
  <2> QED
    BY <1>1, <1>4, <2>1 DEF Init, Accounted
<1> QED
  BY <1>4, <1>6, <1>7, <1>8 DEF OInv, Owned, IdleWithoutProc, Init

(* The timer's part of a step.                                             *)
LEMMA TimerTyped ==
  ASSUME Timer!BarrierTypeOK,
         \/ \E d \in CPUs \cup {Loader} : Timer!Arrive(d) \/ Timer!Leave(d)
         \/ Timer!Advance
         \/ UNCHANGED timerVars
  PROVE  Timer!BarrierTypeOK'
<1>1. Horizon \in Nat
  BY OSAssumption
<1>2. time \in 0..Horizon /\ status \in [CPUs \cup {Loader} -> {"working", "arrived", "left"}]
  BY DEF Timer!BarrierTypeOK
<1>3. CASE \E d \in CPUs \cup {Loader} : Timer!Arrive(d) \/ Timer!Leave(d)
  BY <1>2, <1>3 DEF Timer!Arrive, Timer!Leave, Timer!BarrierTypeOK
<1>4. CASE Timer!Advance
  <2>1. time' \in 0..Horizon
    BY <1>1, <1>2, <1>4 DEF Timer!Advance, Timer!NextTime
  <2>2. status' \in [CPUs \cup {Loader} -> {"working", "arrived", "left"}]
    BY <1>2, <1>4 DEF Timer!Advance
  <2> QED
    BY <2>1, <2>2 DEF Timer!BarrierTypeOK
<1>5. CASE UNCHANGED timerVars
  BY <1>2, <1>5 DEF timerVars, Timer!BarrierTypeOK
<1> QED
  BY <1>3, <1>4, <1>5

(* What a thread does apart from the queues keeps the types.               *)
LEMMA RestTyped ==
  ASSUME OInv, QInv', running_list' \in Seq(Procs), config' = config,
         proc' \in [CPUs -> Procs \cup {NoProc}],
         time_left' \in [CPUs -> 0..TimeSlot],
         cpc' \in [CPUs -> {"top", "get", "recheck", "stopped"}],
         i' \in 1..(NumProc + 1), done' \in BOOLEAN,
         pc' \in [Procs -> Nat], \A p \in Procs : pc'[p] <= config.size[p],
         freed' \subseteq Procs, waited' \in [Procs -> 0..(TimeSlot + 1)],
         \/ \E d \in CPUs \cup {Loader} : Timer!Arrive(d) \/ Timer!Leave(d)
         \/ Timer!Advance
         \/ UNCHANGED timerVars
  PROVE  TypeOK'
<1>1. Timer!BarrierTypeOK
  BY DEF OInv, TypeOK
<1>2. Timer!BarrierTypeOK'
  BY <1>1, TimerTyped
<1> QED
  BY <1>2 DEF QInv, QueuesTyped, TypeOK

(* get_proc by a CPU without a process.                                    *)
LEMMA GetKeeps ==
  ASSUME OInv, NEW c \in CPUs, proc[c] = NoProc, GetProc(c),
         UNCHANGED << i, freed, config >>
  PROVE  /\ Owned' /\ running_list' \in Seq(Procs)
         /\ proc' \in [CPUs -> Procs \cup {NoProc}]
         /\ \A d \in CPUs \ {c} : proc'[d] = proc[d]
         /\ proc'[c] = NoProc => Ready' = {}
<1>1. /\ proc \in [CPUs -> Procs \cup {NoProc}] /\ running_list \in Seq(Procs)
      /\ NoProc \notin Procs
  BY OSAssumption DEF OInv, TypeOK
<1>2. Loaded' = Loaded /\ freed' = freed /\ config' = config
  BY DEF Loaded
<1>3. QInv /\ HoldersUnique /\ HeldNotReady /\ Accounted
  BY DEF OInv, Owned
<1>4. CASE \E p \in Procs : get_mlq_proc(p) /\ proc' = [proc EXCEPT ![c] = p]
  <2>1. PICK p \in Procs : get_mlq_proc(p) /\ proc' = [proc EXCEPT ![c] = p]
    BY <1>4
  <2>2. QInv' /\ p \in Ready /\ Ready' = Ready \ {p}
    BY <1>2, <1>3, <2>1, GetIs
  <2>3. /\ proc' \in [CPUs -> Procs \cup {NoProc}] /\ proc'[c] = p
        /\ \A d \in CPUs \ {c} : proc'[d] = proc[d]
    BY <1>1, <2>1
  <2>4. running_list' \in Seq(Procs)
    BY <1>1, <2>1 DEF get_mlq_proc, Enqueue
  <2>5. HoldersUnique'
    BY <1>3, <2>2, <2>3 DEF HoldersUnique, HeldNotReady
  <2>6. HeldNotReady'
    BY <1>3, <2>2, <2>3 DEF HeldNotReady
  <2>7. Accounted'
    BY <1>1, <1>2, <1>3, <2>2, <2>3 DEF Accounted
  <2> QED
    BY <1>1, <2>2, <2>3, <2>4, <2>5, <2>6, <2>7 DEF Owned
<1>5. CASE get_mlq_none /\ proc' = [proc EXCEPT ![c] = NoProc]
  <2>1. proc' = proc /\ mlq_ready_queue' = mlq_ready_queue /\ running_list' = running_list
    BY <1>1, <1>5 DEF get_mlq_none, schedVars
  <2>2. Ready' = Ready
    BY <2>1 DEF Ready
  <2>3. Ready = {}
    <3> SUFFICES ASSUME NEW p \in Ready PROVE FALSE
      OBVIOUS
    <3>1. PICK prio \in Prios : \E n \in DOMAIN mlq_ready_queue[prio] :
                                  mlq_ready_queue[prio][n] = p
      BY ReadyIs
    <3>2. prio \in Waiting
      BY <3>1 DEF Waiting, Empty
    <3> QED
      BY <1>5, <3>2 DEF get_mlq_none
  <2>4. QInv' /\ HoldersUnique' /\ HeldNotReady' /\ Accounted'
    BY <1>2, <1>3, <2>1, <2>2 DEF QInv, QueuesTyped, QueuesOwn, QueuesDistinct,
       HoldersUnique, HeldNotReady, Accounted
  <2> QED
    BY <1>1, <2>1, <2>2, <2>3, <2>4 DEF Owned
<1> QED
  BY <1>4, <1>5 DEF GetProc

(* A step that leaves queues, processes in hand, loaded and freed alone.   *)
LEMMA OthersKeep ==
  ASSUME Owned, UNCHANGED << schedVars, proc, i, freed, config >>
  PROVE  Owned'
<1>1. UNCHANGED << mlq_ready_queue, running_list, proc, i, freed, config >>
  BY DEF schedVars
<1>2. Ready' = Ready /\ Loaded' = Loaded
  BY <1>1 DEF Ready, Loaded
<1> QED
  BY <1>1, <1>2 DEF Owned, QInv, QueuesTyped, QueuesOwn, QueuesDistinct, HoldersUnique,
     HeldNotReady, Accounted

LEMMA FirstLoadKeeps ==
  ASSUME OInv, NEW c \in CPUs, FirstLoad(c)
  PROVE  OInv'
<1>1. /\ TypeOK /\ cpc \in [CPUs -> {"top", "get", "recheck", "stopped"}]
      /\ cpc[c] = "top" /\ proc[c] = NoProc /\ GetProc(c)
      /\ UNCHANGED << i, done, freed, pc, config, waited, time_left >>
  BY DEF OInv, TypeOK, FirstLoad, At, loadVars, procVars
<1>2. /\ Owned' /\ running_list' \in Seq(Procs)
      /\ proc' \in [CPUs -> Procs \cup {NoProc}]
      /\ \A d \in CPUs \ {c} : proc'[d] = proc[d]
  BY <1>1, GetKeeps
<1>3. /\ cpc' \in [CPUs -> {"top", "get", "recheck", "stopped"}]
      /\ \A d \in CPUs \ {c} : cpc'[d] = cpc[d]
      /\ cpc'[c] \in {"top", "recheck"}
      /\ Timer!Arrive(c) \/ UNCHANGED timerVars
  BY <1>1 DEF FirstLoad, Goto
<1>4. TypeOK'
  BY <1>1, <1>2, <1>3, RestTyped DEF TypeOK, Owned
<1>5. IdleWithoutProc'
  BY <1>2, <1>3 DEF OInv, IdleWithoutProc
<1> QED
  BY <1>2, <1>4, <1>5 DEF OInv

LEMMA FinishKeeps ==
  ASSUME OInv, NEW c \in CPUs, Finish(c)
  PROVE  OInv'
<1> DEFINE p == proc[c]
<1>1. /\ TypeOK /\ QInv /\ HoldersUnique /\ HeldNotReady /\ Accounted
      /\ p \in Procs /\ NoProc \notin Procs
      /\ proc' = [proc EXCEPT ![c] = NoProc] /\ freed' = freed \cup {p}
      /\ time_left' = [time_left EXCEPT ![c] = 0] /\ cpc' = [cpc EXCEPT ![c] = "get"]
      /\ UNCHANGED << timerVars, mlq_ready_queue, running_list, i, done, pc, config, waited >>
  BY OSAssumption DEF OInv, Owned, TypeOK, Finish, Goto, loadVars, schedVars
<1>2. /\ proc' \in [CPUs -> Procs \cup {NoProc}] /\ proc'[c] = NoProc
      /\ \A d \in CPUs \ {c} : proc'[d] = proc[d]
      /\ cpc' \in [CPUs -> {"top", "get", "recheck", "stopped"}]
      /\ \A d \in CPUs \ {c} : cpc'[d] = cpc[d]
      /\ time_left' \in [CPUs -> 0..TimeSlot]
  BY <1>1, OSAssumption DEF TypeOK
<1>3. Ready' = Ready /\ Loaded' = Loaded
  BY <1>1 DEF Ready, Loaded
<1>4. QInv'
  BY <1>1 DEF QInv, QueuesTyped, QueuesOwn, QueuesDistinct
<1>5. HoldersUnique'
  BY <1>1, <1>2 DEF HoldersUnique
<1>6. HeldNotReady'
  <2>1. NoProc \notin Ready
    BY <1>1, ReadyTyped DEF QInv
  <2> QED
    BY <1>1, <1>2, <1>3, <2>1 DEF HeldNotReady
<1>7. Accounted'
  <2>1. p \in Loaded \ freed /\ p \notin Ready /\ \A d \in CPUs \ {c} : proc[d] # p
    BY <1>1 DEF Accounted, HeldNotReady, HoldersUnique
  <2> HIDE DEF p
  <2>2. freed' \subseteq Loaded'
    BY <1>1, <1>3, <2>1 DEF Accounted
  <2>3. \A q \in Procs : (\E d \in CPUs : proc'[d] = q) <=>
                         (q # p /\ \E d \in CPUs : proc[d] = q)
    BY <1>1, <1>2, <2>1 DEF p
  <2> QED
    BY <1>1, <1>3, <2>1, <2>2, <2>3 DEF Accounted
<1>8. TypeOK'
  <2>1. freed' \subseteq Procs
    BY <1>1 DEF TypeOK
  <2> QED
    BY <1>1, <1>2, <1>4, <2>1, RestTyped DEF TypeOK
<1>9. IdleWithoutProc'
  BY <1>2 DEF OInv, IdleWithoutProc
<1> QED
  BY <1>4, <1>5, <1>6, <1>7, <1>8, <1>9 DEF OInv, Owned

LEMMA YieldKeeps ==
  ASSUME NumProc <= MAX_QUEUE_SIZE, OInv, NEW c \in CPUs, Yield(c)
  PROVE  OInv'
<1> DEFINE p == proc[c]
<1>1. /\ TypeOK /\ QInv /\ HoldersUnique /\ HeldNotReady /\ Accounted
      /\ p \in Procs /\ NoProc \notin Procs /\ p \notin Ready
      /\ put_mlq_proc(p, config.prio[p])
      /\ proc' = [proc EXCEPT ![c] = NoProc] /\ waited' = [waited EXCEPT ![p] = 0]
      /\ cpc' = [cpc EXCEPT ![c] = "get"]
      /\ UNCHANGED << timerVars, time_left, i, done, pc, freed, config >>
  BY OSAssumption
     DEF OInv, Owned, TypeOK, HeldNotReady, Yield, Goto, loadVars, procVars
<1>2. /\ proc' \in [CPUs -> Procs \cup {NoProc}] /\ proc'[c] = NoProc
      /\ \A d \in CPUs \ {c} : proc'[d] = proc[d]
      /\ cpc' \in [CPUs -> {"top", "get", "recheck", "stopped"}]
      /\ \A d \in CPUs \ {c} : cpc'[d] = cpc[d]
  BY <1>1 DEF TypeOK
<1>3. QInv' /\ Ready' = Ready \cup {p} /\ running_list' = running_list
  BY <1>1, PutIs
<1>4. Loaded' = Loaded
  BY <1>1 DEF Loaded
<1>5. HoldersUnique'
  BY <1>1, <1>2 DEF HoldersUnique
<1>6. HeldNotReady'
  <2>1. NoProc \notin Ready /\ \A d \in CPUs \ {c} : proc[d] # p
    BY <1>1, ReadyTyped DEF QInv, HoldersUnique
  <2> QED
    BY <1>1, <1>2, <1>3, <2>1 DEF HeldNotReady
<1>7. Accounted'
  <2>1. p \in Loaded \ freed
    BY <1>1 DEF Accounted
  <2> QED
    BY <1>1, <1>2, <1>3, <1>4, <2>1 DEF Accounted
<1>8. TypeOK'
  <2>1. waited' \in [Procs -> 0..(TimeSlot + 1)]
    BY <1>1, OSAssumption DEF TypeOK
  <2> QED
    BY <1>1, <1>2, <1>3, <2>1, RestTyped DEF TypeOK
<1>9. IdleWithoutProc'
  BY <1>2 DEF OInv, IdleWithoutProc
<1> QED
  BY <1>3, <1>5, <1>6, <1>7, <1>8, <1>9 DEF OInv, Owned

LEMMA GetNextKeeps ==
  ASSUME OInv, NEW c \in CPUs, GetNext(c)
  PROVE  OInv'
<1>1. /\ TypeOK /\ cpc \in [CPUs -> {"top", "get", "recheck", "stopped"}]
      /\ proc[c] = NoProc /\ GetProc(c) /\ cpc' = [cpc EXCEPT ![c] = "recheck"]
      /\ UNCHANGED << timerVars, i, done, freed, pc, config, waited, time_left >>
  BY DEF OInv, TypeOK, IdleWithoutProc, GetNext, At, Goto, loadVars, procVars
<1>2. /\ Owned' /\ running_list' \in Seq(Procs)
      /\ proc' \in [CPUs -> Procs \cup {NoProc}]
      /\ \A d \in CPUs \ {c} : proc'[d] = proc[d]
  BY <1>1, GetKeeps
<1>3. /\ cpc' \in [CPUs -> {"top", "get", "recheck", "stopped"}]
      /\ cpc'[c] = "recheck" /\ \A d \in CPUs \ {c} : cpc'[d] = cpc[d]
  BY <1>1
<1>4. TypeOK'
  BY <1>1, <1>2, <1>3, RestTyped DEF TypeOK, Owned
<1>5. IdleWithoutProc'
  BY <1>2, <1>3 DEF OInv, IdleWithoutProc
<1> QED
  BY <1>2, <1>4, <1>5 DEF OInv

(* Stop and SkipSlot: the CPU has no process.                              *)
LEMMA NoProcessKeeps ==
  ASSUME OInv, NEW c \in CPUs, Stop(c) \/ SkipSlot(c)
  PROVE  OInv'
<1>1. /\ TypeOK /\ Owned /\ proc[c] = NoProc
      /\ cpc' \in [CPUs -> {"top", "get", "recheck", "stopped"}]
      /\ \A d \in CPUs \ {c} : cpc'[d] = cpc[d]
      /\ Timer!Leave(c) \/ Timer!Arrive(c)
      /\ UNCHANGED << schedVars, proc, time_left, i, done, pc, freed, config, waited >>
  BY DEF OInv, TypeOK, Stop, SkipSlot, Goto, loadVars, procVars
<1>2. Owned' /\ running_list' = running_list
  BY <1>1, OthersKeep DEF schedVars
<1>3. TypeOK'
  BY <1>1, <1>2, RestTyped DEF TypeOK, Owned
<1>4. IdleWithoutProc'
  BY <1>1 DEF OInv, IdleWithoutProc
<1> QED
  BY <1>2, <1>3, <1>4 DEF OInv

LEMMA RunKeeps ==
  ASSUME OInv, NEW c \in CPUs, Run(c)
  PROVE  OInv'
<1>1. /\ TypeOK /\ Owned /\ proc[c] \in Procs /\ Timer!Arrive(c)
      /\ TimeSlot \in Nat \ {0} /\ config.size \in [Procs -> Nat]
      /\ cpc' \in [CPUs -> {"top", "get", "recheck", "stopped"}]
      /\ cpc'[c] = "top" /\ \A d \in CPUs \ {c} : cpc'[d] = cpc[d]
      /\ UNCHANGED << schedVars, proc, i, done, freed, config, waited >>
  BY OSAssumption, ConfigTypes DEF OInv, TypeOK, Run, Goto, loadVars
<1>2. Owned' /\ running_list' = running_list
  BY <1>1, OthersKeep DEF schedVars
<1>3. pc' \in [Procs -> Nat] /\ \A p \in Procs : pc'[p] <= config.size[p]
  <2>1. pc' = [pc EXCEPT ![proc[c]] = IF Finished(proc[c]) THEN @ ELSE @ + 1]
    BY DEF Run
  <2>2. /\ pc \in [Procs -> Nat]
        /\ \A p \in Procs : /\ pc[p] \in Nat /\ config.size[p] \in Nat
                            /\ pc[p] <= config.size[p]
    BY <1>1 DEF TypeOK
  <2>3. CASE Finished(proc[c])
    BY <2>1, <2>2, <2>3
  <2>4. CASE ~Finished(proc[c])
    <3>1. pc[proc[c]] + 1 <= config.size[proc[c]]
      BY <1>1, <2>2, <2>4 DEF Finished
    <3> QED
      BY <1>1, <2>1, <2>2, <2>4, <3>1
  <2> QED
    BY <2>3, <2>4
<1>4. time_left' \in [CPUs -> 0..TimeSlot]
  <2>1. /\ time_left \in [CPUs -> 0..TimeSlot]
        /\ time_left' = [time_left EXCEPT ![c] = (IF @ = 0 THEN TimeSlot ELSE @) - 1]
    BY <1>1 DEF TypeOK, Run
  <2>2. (IF time_left[c] = 0 THEN TimeSlot ELSE time_left[c]) - 1 \in 0..TimeSlot
    BY <1>1, <2>1
  <2> QED
    BY <2>1, <2>2
<1>5. TypeOK'
  BY <1>1, <1>2, <1>3, <1>4, RestTyped DEF TypeOK, Owned
<1>6. IdleWithoutProc'
  BY <1>1 DEF OInv, IdleWithoutProc
<1> QED
  BY <1>2, <1>5, <1>6 DEF OInv

LEMMA LoadKeeps ==
  ASSUME NumProc <= MAX_QUEUE_SIZE, OInv, Load
  PROVE  OInv'
<1>1. /\ TypeOK /\ QInv /\ HoldersUnique /\ HeldNotReady /\ Accounted
      /\ i \in 1..(NumProc + 1) /\ NumProc \in Nat /\ i <= NumProc /\ NoProc \notin Procs
      /\ put_mlq_proc(i, config.prio[i]) /\ i' = i + 1 /\ Timer!Arrive(Loader)
      /\ UNCHANGED << proc, time_left, cpc, done, pc, freed, config, waited >>
  BY OSAssumption DEF OInv, Owned, TypeOK, Load, cpuVars, procVars
<1>2. i \in Procs /\ i \notin Loaded /\ Loaded' = Loaded \cup {i}
      /\ i' \in 1..(NumProc + 1)
  BY <1>1 DEF Procs, Loaded
<1>3. i \notin Ready /\ i \notin freed /\ \A c \in CPUs : proc[c] # i
  BY <1>1, <1>2 DEF Accounted
<1>4. QInv' /\ Ready' = Ready \cup {i} /\ running_list' = running_list
  BY <1>1, <1>2, <1>3, PutIs
<1>5. HoldersUnique' /\ HeldNotReady'
  BY <1>1, <1>3, <1>4 DEF HoldersUnique, HeldNotReady
<1>6. Accounted'
  BY <1>1, <1>2, <1>3, <1>4 DEF Accounted
<1>7. TypeOK'
  BY <1>1, <1>2, <1>4, RestTyped DEF TypeOK
<1>8. IdleWithoutProc'
  BY <1>1 DEF OInv, IdleWithoutProc
<1> QED
  BY <1>4, <1>5, <1>6, <1>7, <1>8 DEF OInv, Owned

(* The other steps of the loader, and the timer's.                         *)
LEMMA WaitingKeeps ==
  ASSUME OInv, AwaitStart \/ AllLoaded \/ LoaderExit \/ NextSlot
  PROVE  OInv'
<1>1. /\ TypeOK /\ Owned /\ OInv
      /\ done' \in BOOLEAN
      /\ UNCHANGED << schedVars, proc, time_left, cpc, i, pc, freed, config >>
      /\ \/ \E d \in CPUs \cup {Loader} : Timer!Arrive(d) \/ Timer!Leave(d)
         \/ Timer!Advance
         \/ UNCHANGED timerVars
  BY DEF OInv, TypeOK, AwaitStart, AllLoaded, LoaderExit, NextSlot, cpuVars, loadVars,
     procVars
<1>2. waited' \in [Procs -> 0..(TimeSlot + 1)]
  <2>1. waited \in [Procs -> 0..(TimeSlot + 1)] /\ TimeSlot \in Nat
    BY <1>1, OSAssumption DEF TypeOK
  <2>2. CASE UNCHANGED waited
    BY <2>1, <2>2
  <2>3. CASE NextSlot
    BY <2>1, <2>3 DEF NextSlot
  <2> QED
    BY <2>2, <2>3 DEF AwaitStart, AllLoaded, LoaderExit
<1>3. Owned' /\ running_list' = running_list
  BY <1>1, OthersKeep DEF schedVars
<1>4. TypeOK'
  BY <1>1, <1>2, <1>3, RestTyped DEF TypeOK, Owned
<1>5. IdleWithoutProc'
  BY <1>1 DEF OInv, IdleWithoutProc
<1> QED
  BY <1>3, <1>4, <1>5 DEF OInv

LEMMA OwnershipStep ==
  ASSUME NumProc <= MAX_QUEUE_SIZE, OInv, [Next]_vars
  PROVE  OInv'
<1>1. CASE UNCHANGED vars
  <2>1. /\ TypeOK /\ Owned /\ OInv
        /\ UNCHANGED << time, status, schedVars, proc, time_left, cpc, i, done, pc, freed,
                        config, waited >>
    BY <1>1 DEF OInv, vars, timerVars, cpuVars, loadVars, procVars
  <2>2. Owned' /\ running_list' = running_list
    BY <2>1, OthersKeep DEF schedVars
  <2>3. TypeOK'
    BY <2>1, <2>2, RestTyped DEF TypeOK, Owned, timerVars
  <2> QED
    BY <2>1, <2>2, <2>3 DEF OInv, IdleWithoutProc
<1>2. CASE \E c \in CPUs : CPUStep(c)
  BY <1>2, FirstLoadKeeps, FinishKeeps, YieldKeeps, GetNextKeeps, NoProcessKeeps, RunKeeps
     DEF CPUStep
<1>3. CASE LoaderStep \/ NextSlot
  BY <1>3, LoadKeeps, WaitingKeeps DEF LoaderStep
<1> QED
  BY <1>1, <1>2, <1>3 DEF Next, Ended

(* Where a process is, in the terms of the property.                       *)
LEMMA PlacesCounted ==
  ASSUME NumProc <= MAX_QUEUE_SIZE, OInv
  PROVE  ExclusiveOwnership
<1> SUFFICES ASSUME NEW p \in Procs
             PROVE  /\ Cardinality(Occurrences(p)) + Cardinality(Holders(p))
                         = IF p \in Loaded \ freed THEN 1 ELSE 0
                    /\ \A x \in Occurrences(p) : x[1] = config.prio[p]
  BY DEF ExclusiveOwnership
<1>1. QInv /\ HoldersUnique /\ HeldNotReady /\ Accounted /\ NoProc \notin Procs
  BY OSAssumption DEF OInv, Owned
<1>2. \A x \in Occurrences(p) :
        /\ x[1] \in Prios /\ x[2] \in DOMAIN mlq_ready_queue[x[1]]
        /\ mlq_ready_queue[x[1]][x[2]] = p /\ x = << x[1], x[2] >>
  BY DEF Occurrences
<1>3. \A x \in Occurrences(p) : x[1] = config.prio[p] /\ p \in Ready
  BY <1>1, <1>2, ReadyIs DEF QInv, QueuesOwn
<1>4. \A x, y \in Occurrences(p) : x = y
  <2> SUFFICES ASSUME NEW x \in Occurrences(p), NEW y \in Occurrences(p) PROVE x = y
    OBVIOUS
  <2>1. x[1] = y[1]
    BY <1>3
  <2>2. x[2] = y[2]
    BY <1>1, <1>2, <2>1 DEF QInv, QueuesDistinct
  <2> QED
    BY <1>2, <2>1, <2>2
<1>5. ASSUME p \in Ready PROVE Occurrences(p) # {}
  <2>1. PICK prio \in Prios : \E n \in DOMAIN mlq_ready_queue[prio] :
                                mlq_ready_queue[prio][n] = p
    BY <1>5, ReadyIs
  <2>2. PICK n \in DOMAIN mlq_ready_queue[prio] : mlq_ready_queue[prio][n] = p
    BY <2>1
  <2>3. n \in 1..Len(mlq_ready_queue[prio]) /\ Len(mlq_ready_queue[prio]) \in Nat
    BY <1>1, <2>2 DEF QInv, QueuesTyped
  <2>4. Len(mlq_ready_queue[prio]) <= MAX_QUEUE_SIZE
    BY <1>1, QueueRoom
  <2>5. n \in 1..MAX_QUEUE_SIZE
    BY <2>3, <2>4, QueueAssumption
  <2>6. << prio, n >> \in Occurrences(p)
    BY <2>2, <2>5 DEF Occurrences
  <2> QED
    BY <2>6
<1>6. \A c, d \in Holders(p) : c = d
  BY <1>1 DEF Holders, HoldersUnique
<1>7. (p \in Ready => Holders(p) = {})
      /\ (p \in Ready \/ Holders(p) # {} <=> p \in Loaded \ freed)
  BY <1>1 DEF Holders, HeldNotReady, Accounted
<1>8. Occurrences(p) = {} \/ \E x : Occurrences(p) = {x}
  BY <1>4
<1>9. Holders(p) = {} \/ \E x : Holders(p) = {x}
  BY <1>6
<1>10. Cardinality({}) = 0 /\ \A x : Cardinality({x}) = 1
  BY FS_EmptySet, FS_Singleton
<1>11. CASE p \in Ready
  BY <1>3, <1>5, <1>7, <1>8, <1>10, <1>11
<1>12. CASE p \notin Ready
  <2>1. Occurrences(p) = {}
    BY <1>3, <1>12
  <2> QED
    BY <1>3, <1>7, <1>9, <1>10, <1>12, <2>1
<1> QED
  BY <1>11, <1>12

-----------------------------------------------------------------------------
(* The end                                                                 *)

(* CPUs that will ask for a process before they look at done.              *)
Seeks(c) == cpc[c] \in {"top", "get"} \/ (cpc[c] = "recheck" /\ proc[c] # NoProc)

Synced ==
  \A c \in CPUs : /\ status[c] = "left" <=> cpc[c] = "stopped"
                  /\ status[c] = "arrived" => cpc[c] = "top"

DoneLast ==
  /\ done => i = NumProc + 1
  /\ status[Loader] = "left" => done
  /\ \A c \in CPUs : cpc[c] = "stopped" => done

(* A waiting process is found: some CPU will look for one in this slot or  *)
(* the next, or the loader has just brought it and done is still to come.  *)
ReadySeen ==
  Ready # {} => \/ \E c \in CPUs : Seeks(c)
                \/ ~done /\ status[Loader] = "arrived"

EndInv == OInv /\ Synced /\ DoneLast /\ ReadySeen

LEMMA InitEnd ==
  ASSUME Init
  PROVE  EndInv
<1>1. OInv
  BY InitOwnership
<1>2. Ready = {}
  BY DEF Init, init_scheduler, Ready
<1>3. Synced /\ DoneLast
  BY DEF Init, Timer!BarrierInit, Synced, DoneLast
<1> QED
  BY <1>1, <1>2, <1>3 DEF EndInv, ReadySeen

(* A CPU's step: its effect on the timer, on the loader's side and on      *)
(* itself.                                                                 *)
LEMMA CPUEnd ==
  ASSUME EndInv, NEW c \in CPUs, CPUStep(c)
  PROVE  Synced' /\ DoneLast' /\ ReadySeen'
<1>1. /\ OInv /\ TypeOK /\ Synced /\ DoneLast /\ ReadySeen
      /\ status \in [CPUs \cup {Loader} -> {"working", "arrived", "left"}]
      /\ cpc \in [CPUs -> {"top", "get", "recheck", "stopped"}]
      /\ proc \in [CPUs -> Procs \cup {NoProc}] /\ Loader \notin CPUs
  BY OSAssumption DEF EndInv, OInv, TypeOK, Timer!BarrierTypeOK
<1>2. UNCHANGED << i, done, config >> /\ status[c] = "working"
  BY DEF CPUStep, FirstLoad, Finish, Yield, GetNext, Stop, SkipSlot, Run, At,
     Timer!Working, loadVars
<1>3. /\ \A d \in CPUs \ {c} : cpc'[d] = cpc[d] /\ proc'[d] = proc[d] /\ status'[d] = status[d]
      /\ status'[Loader] = status[Loader]
  <2>1. CASE FirstLoad(c) \/ GetNext(c)
    <3>1. proc[c] = NoProc /\ GetProc(c) /\ UNCHANGED << i, freed, config >>
      BY <1>1, <2>1 DEF FirstLoad, GetNext, OInv, IdleWithoutProc, At, loadVars, procVars
    <3>2. \A d \in CPUs \ {c} : proc'[d] = proc[d]
      BY <1>1, <3>1, GetKeeps
    <3>3. /\ cpc' = cpc \/ cpc' = [cpc EXCEPT ![c] = "recheck"]
          /\ status' = status \/ status' = [status EXCEPT ![c] = "arrived"]
      BY <2>1 DEF FirstLoad, GetNext, Goto, Timer!Arrive, timerVars
    <3> QED
      BY <1>1, <3>2, <3>3
  <2>2. CASE Finish(c) \/ Yield(c)
    BY <1>1, <2>2 DEF Finish, Yield, Goto, timerVars
  <2>3. CASE Stop(c) \/ SkipSlot(c) \/ Run(c)
    BY <1>1, <2>3 DEF Stop, SkipSlot, Run, Goto, Timer!Arrive, Timer!Leave
  <2> QED
    BY <2>1, <2>2, <2>3 DEF CPUStep
<1>4. /\ status'[c] = "left" <=> cpc'[c] = "stopped"
      /\ status'[c] = "arrived" => cpc'[c] = "top"
      /\ cpc'[c] = "stopped" => done
  BY <1>1, <1>2
     DEF CPUStep, FirstLoad, Finish, Yield, GetNext, Stop, SkipSlot, Run, At, Goto,
         Timer!Arrive, Timer!Leave, Timer!Working, timerVars
<1>5. Synced'
  BY <1>1, <1>3, <1>4 DEF Synced
<1>6. DoneLast'
  BY <1>1, <1>2, <1>3, <1>4 DEF DoneLast
<1>7. ReadySeen'
  <2>1. CASE Ready' = {}
    BY <2>1 DEF ReadySeen
  <2>2. CASE Seeks(c)'
    BY <2>2 DEF ReadySeen
  <2>3. CASE /\ Ready' = Ready /\ ~Seeks(c)
    <3>1. \A d \in CPUs : Seeks(d) => Seeks(d)'
      BY <1>3, <2>3 DEF Seeks
    <3> QED
      BY <1>1, <1>2, <1>3, <2>3, <3>1 DEF ReadySeen
  <2>4. CASE FirstLoad(c) \/ GetNext(c)
    <3>1. proc[c] = NoProc /\ GetProc(c) /\ UNCHANGED << i, freed, config >>
      BY <1>1, <2>4 DEF FirstLoad, GetNext, OInv, IdleWithoutProc, At, loadVars, procVars
    <3>2. proc'[c] = NoProc => Ready' = {}
      BY <1>1, <3>1, GetKeeps
    <3>3. proc'[c] # NoProc => cpc'[c] = "recheck"
      BY <1>1, <2>4 DEF FirstLoad, GetNext, Goto
    <3> QED
      BY <2>1, <2>2, <3>2, <3>3 DEF Seeks
  <2>5. CASE Finish(c) \/ Yield(c)
    BY <1>1, <2>2, <2>5 DEF Finish, Yield, Goto, Seeks
  <2>6. CASE SkipSlot(c) \/ Run(c)
    BY <1>1, <2>2, <2>6 DEF SkipSlot, Run, Goto, Seeks
  <2>7. CASE Stop(c)
    <3>1. Ready' = Ready
      BY <2>7 DEF Stop, schedVars, Ready
    <3>2. ~Seeks(c)
      BY <2>7 DEF Stop, At, Seeks
    <3> QED
      BY <2>3, <3>1, <3>2
  <2> QED
    BY <2>4, <2>5, <2>6, <2>7 DEF CPUStep
<1> QED
  BY <1>5, <1>6, <1>7

LEMMA LoaderEnd ==
  ASSUME EndInv, LoaderStep
  PROVE  Synced' /\ DoneLast' /\ ReadySeen'
<1>1. /\ Synced /\ DoneLast /\ ReadySeen /\ i \in 1..(NumProc + 1) /\ NumProc \in Nat
      /\ status \in [CPUs \cup {Loader} -> {"working", "arrived", "left"}]
      /\ Loader \notin CPUs
  BY OSAssumption DEF EndInv, OInv, TypeOK, Timer!BarrierTypeOK
<1>2. /\ UNCHANGED << cpc, proc >> /\ status[Loader] = "working"
  BY DEF LoaderStep, AwaitStart, Load, AllLoaded, LoaderExit, DoneLast, Timer!Working,
     Timer!Leave, cpuVars
<1>3. \A c \in CPUs : status'[c] = status[c] /\ (Seeks(c) => Seeks(c)')
  BY <1>1, <1>2 DEF LoaderStep, AwaitStart, Load, AllLoaded, LoaderExit, Timer!Arrive,
     Timer!Leave, timerVars, Seeks
<1>4. Synced'
  BY <1>1, <1>2, <1>3 DEF Synced
<1>5. CASE Load
  <2>1. ~done /\ done' = done /\ status'[Loader] = "arrived"
    BY <1>1, <1>5 DEF Load, DoneLast, Timer!Arrive
  <2> QED
    BY <1>1, <1>2, <1>4, <2>1 DEF DoneLast, ReadySeen
<1>6. CASE AwaitStart \/ AllLoaded \/ LoaderExit
  <2>1. Ready' = Ready
    BY <1>6 DEF AwaitStart, AllLoaded, LoaderExit, schedVars, Ready
  <2>2. ReadySeen'
    BY <1>1, <1>2, <1>3, <2>1 DEF ReadySeen
  <2>3. DoneLast'
    BY <1>1, <1>2, <1>6 DEF AwaitStart, AllLoaded, LoaderExit, DoneLast, Timer!Arrive,
       Timer!Leave, timerVars, loadVars
  <2> QED
    BY <1>4, <2>2, <2>3
<1> QED
  BY <1>5, <1>6 DEF LoaderStep

(* When the slot ends every CPU is at the top of its loop or has left, and *)
(* none has left before done.                                              *)
LEMMA SlotEnd ==
  ASSUME CPUs # {}, EndInv, NextSlot
  PROVE  Synced' /\ DoneLast' /\ ReadySeen'
<1>1. /\ Synced /\ DoneLast /\ ReadySeen
      /\ status \in [CPUs \cup {Loader} -> {"working", "arrived", "left"}]
  BY DEF EndInv, OInv, TypeOK, Timer!BarrierTypeOK
<1>2. /\ \A d \in CPUs \cup {Loader} : status[d] # "working"
      /\ \A d \in CPUs \cup {Loader} :
           status'[d] = IF status[d] = "arrived" THEN "working" ELSE status[d]
      /\ UNCHANGED << cpc, proc, i, done, mlq_ready_queue >>
  BY DEF NextSlot, Timer!Advance, Timer!Working, cpuVars, loadVars, schedVars
<1>3. Ready' = Ready
  BY <1>2 DEF Ready
<1>4. Synced'
  BY <1>1, <1>2 DEF Synced
<1>5. DoneLast'
  BY <1>1, <1>2 DEF DoneLast
<1>6. ReadySeen'
  <2>1. CASE done
    BY <1>1, <1>2, <1>3, <2>1 DEF ReadySeen, Seeks
  <2>2. CASE ~done
    <3>1. PICK c \in CPUs : TRUE
      OBVIOUS
    <3>2. cpc[c] = "top"
      BY <1>1, <1>2, <2>2 DEF Synced, DoneLast
    <3> QED
      BY <1>2, <3>2 DEF ReadySeen, Seeks
  <2> QED
    BY <2>1, <2>2
<1> QED
  BY <1>4, <1>5, <1>6

LEMMA EndStep ==
  ASSUME NumProc <= MAX_QUEUE_SIZE, CPUs # {}, EndInv, [Next]_vars
  PROVE  EndInv'
<1>1. OInv'
  BY OwnershipStep DEF EndInv
<1>2. CASE UNCHANGED vars
  <2>1. UNCHANGED << status, mlq_ready_queue, cpc, proc, i, done >>
    BY <1>2 DEF vars, timerVars, schedVars, cpuVars, loadVars
  <2>2. Ready' = Ready /\ \A c \in CPUs : Seeks(c)' <=> Seeks(c)
    BY <2>1 DEF Ready, Seeks
  <2> QED
    BY <1>1, <2>1, <2>2 DEF EndInv, Synced, DoneLast, ReadySeen
<1> QED
  BY <1>1, <1>2, CPUEnd, LoaderEnd, SlotEnd DEF EndInv, Next, Ended

(* All CPUs stopped: none seeks and done is set, so nothing is ready; none *)
(* holds a process; all have been loaded.                                  *)
LEMMA AllFreed ==
  ASSUME CPUs # {}, EndInv
  PROVE  StopLeavesNothing
<1> SUFFICES ASSUME \A c \in CPUs : cpc[c] = "stopped" PROVE freed = Procs
  BY DEF StopLeavesNothing
<1>1. /\ Accounted /\ IdleWithoutProc /\ DoneLast /\ ReadySeen /\ NoProc \notin Procs
      /\ freed \subseteq Procs /\ NumProc \in Nat
  BY OSAssumption DEF EndInv, OInv, Owned, TypeOK
<1>2. done /\ \A c \in CPUs : proc[c] = NoProc
  BY <1>1 DEF DoneLast, IdleWithoutProc
<1>3. Ready = {}
  BY <1>1, <1>2 DEF ReadySeen, Seeks
<1>4. Loaded = Procs
  BY <1>1, <1>2 DEF DoneLast, Loaded, Procs
<1> QED
  BY <1>1, <1>2, <1>3, <1>4 DEF Accounted

-----------------------------------------------------------------------------
(* What the runs check, for every value of the constants                   *)

(* Every queue, counter and program position stays within its range.       *)
THEOREM TypeCorrect == NumProc <= MAX_QUEUE_SIZE => (Spec => []TypeOK)
<1> SUFFICES ASSUME NumProc <= MAX_QUEUE_SIZE PROVE Spec => []TypeOK
  OBVIOUS
<1>1. Init => OInv
  BY InitOwnership
<1>2. OInv /\ [Next]_vars => OInv'
  BY OwnershipStep
<1>3. OInv => TypeOK
  BY DEF OInv
<1> QED
  BY <1>1, <1>2, <1>3, PTL DEF Spec

(* No process is lost, run on two CPUs at once, run and queued, or queued  *)
(* twice or at another priority than its own.                              *)
THEOREM OwnershipCorrect == NumProc <= MAX_QUEUE_SIZE => (Spec => []ExclusiveOwnership)
<1> SUFFICES ASSUME NumProc <= MAX_QUEUE_SIZE PROVE Spec => []ExclusiveOwnership
  OBVIOUS
<1>1. Init => OInv
  BY InitOwnership
<1>2. OInv /\ [Next]_vars => OInv'
  BY OwnershipStep
<1>3. OInv => ExclusiveOwnership
  BY PlacesCounted
<1> QED
  BY <1>1, <1>2, <1>3, PTL DEF Spec

(* When the last CPU stops, every process has run to its end.              *)
THEOREM StopCorrect ==
  NumProc <= MAX_QUEUE_SIZE /\ CPUs # {} => (Spec => []StopLeavesNothing)
<1> SUFFICES ASSUME NumProc <= MAX_QUEUE_SIZE, CPUs # {} PROVE Spec => []StopLeavesNothing
  OBVIOUS
<1>1. Init => EndInv
  BY InitEnd
<1>2. EndInv /\ [Next]_vars => EndInv'
  BY EndStep
<1>3. EndInv => StopLeavesNothing
  BY AllFreed
<1> QED
  BY <1>1, <1>2, <1>3, PTL DEF Spec
=============================================================================
