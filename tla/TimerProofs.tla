---------------------------- MODULE TimerProofs ----------------------------
(***************************************************************************)
(* Proofs, for every number of devices and every bound on the slots, of    *)
(* the safety properties of Timer and of its refinement of SlotBarrier.    *)
(*                                                                         *)
(* None of the properties is inductive: each depends on where the timer's  *)
(* two passes over dev_list stand.  IInv says it: the devices before cur   *)
(* have been seen finished and have stayed so (ScanInv), those from cur on *)
(* wait for the release (ReleaseInv), and the flags of a device agree with *)
(* the point its thread has reached (DeviceInv).                           *)
(***************************************************************************)
EXTENDS Timer, TLAPS

DeviceInv ==
  \A d \in Dev :
    /\ fsh[d] <=> dpc[d] = "off"
    /\ done[d] => Blocked(d) /\ slot[d] < MaxSlots
    /\ dpc[d] = "sleep" => done[d]
    /\ slot[d] <= time

(* Which slot a device is in, apart from those the release has yet to come *)
(* to.                                                                     *)
SlotInv ==
  \A d \in Dev :
    /\ dpc[d] = "run" => slot[d] = time
    /\ dpc[d] = "check" /\ ~done[d] => slot[d] + 1 = time
    /\ done[d] /\ ~(tpc = "release" /\ cur <= d) => slot[d] = time

Scanning == tpc \in {"scan", "evwait"}

ScanInv ==
  /\ Scanning => /\ \A d \in Dev : d < cur => done[d] \/ fsh[d]
                 /\ nfsh <= cur - 1
                 /\ nfsh = cur - 1 => \A d \in Dev : d < cur => fsh[d]
                 /\ nfsh # cur - 1 => \E d \in Dev : d < cur /\ done[d]
  /\ tpc = "evwait" => cur \in Dev /\ ~done[cur] /\ ~fsh[cur]

ReleaseInv ==
  tpc = "release" =>
    \A d \in Dev : cur <= d /\ ~fsh[d] => done[d] /\ slot[d] + 1 = time

StartInv ==
  /\ tpc = "start" => cur = 1 /\ nfsh = 0 /\ time = 0 /\ announced = -1
  /\ tpc # "start" => announced = time

StopInv ==
  /\ tpc = "exit" => \A d \in Dev : fsh[d]
  /\ main # "join" => timer_stop
  /\ timer_stop => \A d \in Dev : dpc[d] = "off"
  /\ main = "freed" => tpc = "exit"

IInv == TypeOK /\ DeviceInv /\ SlotInv /\ ScanInv /\ ReleaseInv /\ StartInv /\ StopInv

-----------------------------------------------------------------------------
(* The state main leaves to the threads satisfies the invariant.           *)
LEMMA InitInvariant == Init => IInv
<1> USE TimerAssumption DEF Dev
<1> SUFFICES ASSUME Init PROVE IInv
  OBVIOUS
<1>1. TypeOK
  <2>1. done \in [Dev -> BOOLEAN] /\ fsh \in [Dev -> BOOLEAN]
    BY DEF Init
  <2>2. time \in 0..MaxSlots /\ announced \in -1..MaxSlots
    BY DEF Init
  <2>3. slot \in [Dev -> 0..MaxSlots]
    BY DEF Init
  <2>4. cur \in 1..(N + 1) /\ nfsh \in 0..N
    BY DEF Init
  <2> QED
    BY <2>1, <2>2, <2>3, <2>4 DEF Init, TypeOK
<1>2. DeviceInv /\ SlotInv
  BY DEF Init, DeviceInv, SlotInv, Blocked
<1>3. ScanInv /\ ReleaseInv /\ StartInv /\ StopInv
  BY DEF Init, ScanInv, Scanning, ReleaseInv, StartInv, StopInv
<1> QED
  BY <1>1, <1>2, <1>3 DEF IInv

(* The calls of a device, whatever the timer does meanwhile.               *)
LEMMA DeviceStepInvariant ==
  ASSUME IInv, NEW d \in Dev, DeviceCall(d) \/ SpuriousWakeDevice(d)
  PROVE  IInv'
<1> USE TimerAssumption DEF Dev, IInv
<1>1. CASE NextSlotPost(d)
  <2> USE <1>1 DEF NextSlotPost, SignalEvent, timerVars, devVars, mainVars
  <2>1. TypeOK'
    BY DEF TypeOK
  <2>2. DeviceInv' /\ SlotInv'
    BY DEF TypeOK, DeviceInv, SlotInv, ReleaseInv, Blocked
  <2>3. ScanInv'
    BY DEF TypeOK, ScanInv, Scanning
  <2>4. ReleaseInv' /\ StartInv' /\ StopInv'
    BY DEF TypeOK, DeviceInv, SlotInv, ReleaseInv, StartInv, StopInv, Blocked
  <2> QED
    BY <2>1, <2>2, <2>3, <2>4
<1>2. CASE NextSlotSleep(d) \/ SpuriousWakeDevice(d)
  <2> USE <1>2 DEF NextSlotSleep, SpuriousWakeDevice, timerVars, devVars, mainVars
  <2>1. TypeOK'
    BY DEF TypeOK
  <2>2. DeviceInv' /\ SlotInv'
    BY DEF TypeOK, DeviceInv, SlotInv, Blocked
  <2>3. ScanInv'
    BY DEF ScanInv, Scanning
  <2>4. ReleaseInv' /\ StartInv'
    BY DEF ReleaseInv, StartInv
  <2>5. StopInv'
    BY DEF TypeOK, StopInv
  <2> QED
    BY <2>1, <2>2, <2>3, <2>4, <2>5
<1>3. CASE NextSlotReturn(d)
  <2> USE <1>3 DEF NextSlotReturn, timerVars, devVars, mainVars
  <2>1. TypeOK'
    BY DEF TypeOK, SlotInv
  <2>2. DeviceInv' /\ SlotInv'
    BY DEF TypeOK, DeviceInv, SlotInv, Blocked
  <2>3. ScanInv'
    BY DEF TypeOK, ScanInv, Scanning
  <2>4. ReleaseInv' /\ StartInv' /\ StopInv'
    BY DEF TypeOK, DeviceInv, ReleaseInv, StartInv, StopInv
  <2> QED
    BY <2>1, <2>2, <2>3, <2>4
<1>4. CASE DetachEvent(d)
  <2> USE <1>4 DEF DetachEvent, SignalEvent, timerVars, devVars, mainVars
  <2>1. TypeOK'
    BY DEF TypeOK
  <2>2. DeviceInv' /\ SlotInv'
    BY DEF TypeOK, DeviceInv, SlotInv, Blocked
  <2>3. ScanInv'
    BY DEF TypeOK, ScanInv, Scanning
  <2>4. ReleaseInv' /\ StartInv' /\ StopInv'
    BY DEF TypeOK, DeviceInv, ReleaseInv, StartInv, StopInv
  <2> QED
    BY <2>1, <2>2, <2>3, <2>4
<1> QED
  BY <1>1, <1>2, <1>3, <1>4 DEF DeviceCall

(* The steps of timer_routine.                                             *)
LEMMA TimerStepInvariant ==
  ASSUME IInv, TimerStep \/ SpuriousWakeTimer
  PROVE  IInv'
<1> USE TimerAssumption DEF Dev, IInv
<1>1. CASE AnnounceFirstSlot
  <2> USE <1>1 DEF AnnounceFirstSlot, devVars, mainVars
  <2>1. TypeOK' /\ StartInv' /\ StopInv'
    BY DEF TypeOK, StartInv, StopInv
  <2>2. DeviceInv' /\ SlotInv'
    BY DEF TypeOK, DeviceInv, SlotInv, Blocked
  <2>3. ScanInv' /\ ReleaseInv'
    BY DEF TypeOK, StartInv, ScanInv, Scanning, ReleaseInv
  <2> QED
    BY <2>1, <2>2, <2>3
<1>2. CASE ScanDevice
  <2> USE <1>2 DEF ScanDevice, devVars, mainVars
  <2>1. TypeOK' /\ StartInv' /\ StopInv' /\ ReleaseInv'
    BY DEF TypeOK, StartInv, StopInv, ScanInv, Scanning, ReleaseInv
  <2>2. DeviceInv' /\ SlotInv'
    BY DEF DeviceInv, SlotInv, Blocked
  <2>3. ScanInv'
    BY DEF TypeOK, DeviceInv, ScanInv, Scanning
  <2> QED
    BY <2>1, <2>2, <2>3
<1>3. CASE ScanWait \/ SpuriousWakeTimer
  <2> USE <1>3 DEF ScanWait, SpuriousWakeTimer, devVars, mainVars
  <2>1. TypeOK' /\ StartInv' /\ StopInv' /\ ReleaseInv'
    BY DEF TypeOK, StartInv, StopInv, ReleaseInv
  <2>2. DeviceInv' /\ SlotInv' /\ ScanInv'
    BY DEF DeviceInv, SlotInv, ScanInv, Scanning, Blocked
  <2> QED
    BY <2>1, <2>2
<1>4. CASE AllFinished
  <2> USE <1>4 DEF AllFinished, devVars, mainVars
  <2>1. \A e \in Dev : fsh[e]
    BY DEF TypeOK, ScanInv, Scanning
  <2>2. TypeOK' /\ StartInv' /\ StopInv' /\ ReleaseInv'
    BY <2>1 DEF TypeOK, StartInv, StopInv, ReleaseInv
  <2>3. DeviceInv' /\ SlotInv' /\ ScanInv'
    BY DEF DeviceInv, SlotInv, ScanInv, Scanning, Blocked
  <2> QED
    BY <2>2, <2>3
<1>5. CASE Tick
  <2> USE <1>5 DEF Tick, devVars, mainVars
  <2>1. \A e \in Dev : done[e] \/ fsh[e]
    BY DEF TypeOK, ScanInv, Scanning
  <2>2. \A e \in Dev : done[e] => slot[e] = time /\ slot[e] < MaxSlots
    BY DEF SlotInv, DeviceInv
  <2>3. time < MaxSlots
    <3>1. \E e \in Dev : done[e]
      BY DEF TypeOK, ScanInv, Scanning
    <3> QED
      BY <3>1, <2>2
  <2>4. TypeOK' /\ StartInv' /\ StopInv'
    BY <2>3 DEF TypeOK, StartInv, StopInv
  <2>5. DeviceInv' /\ SlotInv' /\ ReleaseInv' /\ ScanInv'
    BY <2>1, <2>2
    DEF TypeOK, DeviceInv, SlotInv, ReleaseInv, ScanInv, Scanning, Blocked
  <2> QED
    BY <2>4, <2>5
<1>6. CASE ReleaseDevice
  <2> USE <1>6 DEF ReleaseDevice, devVars, mainVars
  <2>1. TypeOK' /\ StartInv'
    BY DEF TypeOK, StartInv
  <2>2. StopInv'
    BY DEF TypeOK, StopInv
  <2>3. DeviceInv'
    BY DEF TypeOK, DeviceInv, Blocked
  <2>4. SlotInv'
    BY DEF TypeOK, DeviceInv, SlotInv, ReleaseInv, Blocked
  <2>5. ScanInv' /\ ReleaseInv'
    BY DEF TypeOK, ScanInv, Scanning, ReleaseInv
  <2> QED
    BY <2>1, <2>2, <2>3, <2>4, <2>5
<1>7. CASE LoopAgain
  <2> USE <1>7 DEF LoopAgain, devVars, mainVars
  <2>1. TypeOK' /\ StartInv' /\ StopInv' /\ ReleaseInv'
    BY DEF TypeOK, StartInv, StopInv, ReleaseInv
  <2>2. DeviceInv' /\ SlotInv' /\ ScanInv'
    BY DEF TypeOK, DeviceInv, SlotInv, ScanInv, Scanning, Blocked
  <2> QED
    BY <2>1, <2>2
<1>8. CASE LoopStop
  <2> USE <1>8 DEF LoopStop, devVars, mainVars
  <2>1. \A e \in Dev : fsh[e]
    BY DEF StopInv, DeviceInv
  <2>2. TypeOK' /\ StartInv' /\ StopInv' /\ ReleaseInv'
    BY <2>1 DEF TypeOK, StartInv, StopInv, ReleaseInv
  <2>3. DeviceInv' /\ SlotInv' /\ ScanInv'
    BY DEF TypeOK, DeviceInv, SlotInv, ScanInv, Scanning, Blocked
  <2> QED
    BY <2>2, <2>3
<1> QED
  BY <1>1, <1>2, <1>3, <1>4, <1>5, <1>6, <1>7, <1>8 DEF TimerStep

(* main, and the steps that change nothing.                                *)
LEMMA MainStepInvariant ==
  ASSUME IInv, MainStep \/ UNCHANGED vars
  PROVE  IInv'
<1> USE DEF IInv
<1>1. CASE MainStep
  <2> USE <1>1 DEF MainStep, StopTimer, FreeDevices, timerVars, devVars
  <2>1. TypeOK' /\ StartInv' /\ StopInv'
    BY DEF TypeOK, StartInv, StopInv
  <2>2. DeviceInv' /\ SlotInv' /\ ScanInv' /\ ReleaseInv'
    BY DEF DeviceInv, SlotInv, ScanInv, Scanning, ReleaseInv, Blocked
  <2> QED
    BY <2>1, <2>2
<1>2. CASE UNCHANGED vars
  BY <1>2 DEF vars, timerVars, devVars, mainVars, TypeOK, DeviceInv, SlotInv,
              ScanInv, Scanning, ReleaseInv, StartInv, StopInv, Blocked
<1> QED
  BY <1>1, <1>2

(* No step of any thread disturbs the invariant.                           *)
LEMMA StepInvariant == IInv /\ [Next]_vars => IInv'
<1> SUFFICES ASSUME IInv, [Next]_vars PROVE IInv'
  OBVIOUS
<1> QED
  BY DeviceStepInvariant, TimerStepInvariant, MainStepInvariant
  DEF Next, SpuriousWake, Ended

(* The invariant implies the properties the runs check.                    *)
LEMMA InvariantImplies ==
  IInv => Lockstep /\ NoLostWakeup /\ TimerOutlivesDevices /\ AnnouncedBeforeRun
<1> SUFFICES ASSUME IInv
             PROVE  Lockstep /\ NoLostWakeup /\ TimerOutlivesDevices /\ AnnouncedBeforeRun
  OBVIOUS
<1> USE TimerAssumption DEF IInv, Dev
<1>1. Lockstep
  BY DEF TypeOK, DeviceInv, SlotInv, ReleaseInv, Lockstep, Blocked
<1>2. NoLostWakeup
  BY DEF DeviceInv, ScanInv, NoLostWakeup
<1>3. TimerOutlivesDevices
  BY DEF StopInv, DeviceInv, TimerOutlivesDevices
<1>4. AnnouncedBeforeRun
  BY DEF TypeOK, DeviceInv, SlotInv, StartInv, AnnouncedBeforeRun
<1> QED
  BY <1>1, <1>2, <1>3, <1>4

(* Only Tick changes _time, and only with the whole list seen finished.    *)
LEMMA StepTickBarrier ==
  ASSUME IInv, [Next]_vars, time' # time
  PROVE  /\ time' = time + 1
         /\ \A d \in Dev : fsh[d] \/ (done[d] /\ Blocked(d) /\ slot[d] = time)
<1> USE TimerAssumption DEF IInv, Dev
<1>1. Tick
  BY DEF Next, DeviceCall, NextSlotPost, NextSlotSleep, NextSlotReturn, DetachEvent,
         TimerStep, AnnounceFirstSlot, ScanDevice, ScanWait, AllFinished,
         ReleaseDevice, LoopAgain, LoopStop, MainStep, StopTimer, FreeDevices,
         SpuriousWake, SpuriousWakeTimer, SpuriousWakeDevice, Ended,
         vars, timerVars, devVars, mainVars
<1>2. \A d \in Dev : done[d] \/ fsh[d]
  BY <1>1 DEF Tick, TypeOK, ScanInv, Scanning
<1> QED
  BY <1>1, <1>2 DEF Tick, DeviceInv, SlotInv

(* Timer keeps its types: in particular the count of finished devices, and *)
(* so the test "fsh == event", stays within the number of devices.         *)
THEOREM TypeCorrect == Spec => []TypeOK
<1>1. IInv => TypeOK
  BY DEF IInv
<1> QED
  BY <1>1, InitInvariant, StepInvariant, PTL DEF Spec

(* The threads keep step: Lockstep for any number of devices and slots.    *)
THEOREM LockstepCorrect == Spec => []Lockstep
  BY InitInvariant, StepInvariant, InvariantImplies, PTL DEF Spec

(* No wake-up is lost between next_slot, detach_event and timer_routine.   *)
THEOREM NoLostWakeupCorrect == Spec => []NoLostWakeup
  BY InitInvariant, StepInvariant, InvariantImplies, PTL DEF Spec

(* timer_routine ends, and stop_timer frees, after the last detach_event.  *)
THEOREM TimerOutlivesDevicesCorrect == Spec => []TimerOutlivesDevices
  BY InitInvariant, StepInvariant, InvariantImplies, PTL DEF Spec

(* A slot's heading is printed before any device runs in it, after slot 0. *)
THEOREM AnnouncedBeforeRunCorrect == Spec => []AnnouncedBeforeRun
  BY InitInvariant, StepInvariant, InvariantImplies, PTL DEF Spec

(* _time is incremented only when all devices have finished their slot.    *)
THEOREM TickBarrierCorrect == Spec => TickBarrier
<1>1. IInv /\ [Next]_vars =>
        [time' # time =>
           /\ time' = time + 1
           /\ \A d \in Dev : fsh[d] \/ (done[d] /\ Blocked(d) /\ slot[d] = time)]_vars
  BY StepTickBarrier
<1> QED
  BY <1>1, InitInvariant, StepInvariant, PTL DEF Spec, TickBarrier

-----------------------------------------------------------------------------
(* Refinement of SlotBarrier, its safety part.                             *)

(* When main has started the threads, every device counts as working.     *)
LEMMA InitRefines == Init => Barrier!BarrierInit
<1> SUFFICES ASSUME Init PROVE Barrier!BarrierInit
  OBVIOUS
<1>1. barrierStatus = [d \in Dev |-> "working"]
  BY DEF Init, barrierStatus, Released
<1> QED
  BY <1>1 DEF Init, Barrier!BarrierInit

(* next_slot, first half, and detach_event are the two calls of a device   *)
(* that the abstract barrier sees.                                         *)
LEMMA DeviceStepRefines ==
  ASSUME IInv, NEW d \in Dev, DeviceCall(d) \/ SpuriousWakeDevice(d)
  PROVE  [Barrier!BarrierNext]_(Barrier!barrierVars)
<1> USE TimerAssumption DEF IInv, Dev
<1>1. CASE NextSlotPost(d)
  <2>1. ~fsh[d] /\ ~done[d] /\ ~(tpc = "release" /\ cur <= d)
    BY <1>1 DEF NextSlotPost, DeviceInv, ReleaseInv, Blocked
  <2>2. barrierStatus[d] = "working"
    BY <2>1 DEF barrierStatus, Released
  <2>3. barrierStatus' = [barrierStatus EXCEPT ![d] = "arrived"]
    BY <1>1, <2>1 DEF NextSlotPost, SignalEvent, TypeOK, barrierStatus, Released
  <2>4. Barrier!Arrive(d)
    BY <1>1, <2>2, <2>3 DEF NextSlotPost, Barrier!Arrive, Barrier!Working
  <2> QED
    BY <2>4 DEF Barrier!BarrierNext
<1>2. CASE DetachEvent(d)
  <2>1. ~fsh[d] /\ ~done[d]
    BY <1>2 DEF DetachEvent, DeviceInv, Blocked
  <2>2. barrierStatus[d] = "working"
    BY <2>1 DEF barrierStatus, Released
  <2>3. barrierStatus' = [barrierStatus EXCEPT ![d] = "left"]
    BY <1>2, <2>1 DEF DetachEvent, SignalEvent, TypeOK, barrierStatus, Released
  <2>4. Barrier!Leave(d)
    BY <1>2, <2>2, <2>3 DEF DetachEvent, Barrier!Leave, Barrier!Working
  <2> QED
    BY <2>4 DEF Barrier!BarrierNext
<1>3. CASE NextSlotSleep(d) \/ NextSlotReturn(d) \/ SpuriousWakeDevice(d)
  <2>1. UNCHANGED << time, done, fsh, tpc, cur >>
    BY <1>3 DEF NextSlotSleep, NextSlotReturn, SpuriousWakeDevice, timerVars
  <2> QED
    BY <2>1 DEF Barrier!barrierVars, barrierStatus, Released
<1> QED
  BY <1>1, <1>2, <1>3 DEF DeviceCall

(* Tick is the barrier's Advance; the pass that clears the done flags only *)
(* makes concrete what Advance has done already.                           *)
LEMMA TimerStepRefines ==
  ASSUME IInv, TimerStep \/ SpuriousWakeTimer
  PROVE  [Barrier!BarrierNext]_(Barrier!barrierVars)
<1> USE TimerAssumption DEF IInv, Dev
<1>1. CASE Tick
  <2>1. \A e \in Dev : (done[e] \/ fsh[e]) /\ ~(done[e] /\ fsh[e])
    BY <1>1 DEF Tick, TypeOK, ScanInv, Scanning, DeviceInv, Blocked
  <2>2. \E e \in Dev : done[e] /\ slot[e] = time /\ slot[e] < MaxSlots
    BY <1>1 DEF Tick, TypeOK, ScanInv, Scanning, DeviceInv, SlotInv
  <2>3. barrierStatus = [e \in Dev |-> IF fsh[e] THEN "left" ELSE "arrived"]
    BY <1>1, <2>1 DEF Tick, barrierStatus, Released
  <2>4. barrierStatus' = [e \in Dev |-> IF fsh[e] THEN "left" ELSE "working"]
    BY <1>1 DEF Tick, barrierStatus, Released
  <2>5. barrierStatus' = [e \in Dev |-> IF barrierStatus[e] = "arrived"
                                        THEN "working" ELSE barrierStatus[e]]
    BY <2>3, <2>4
  <2>6. time' = Barrier!NextTime
    BY <1>1, <2>2 DEF Tick, Barrier!NextTime
  <2>7. \E e \in Dev : barrierStatus[e] = "arrived"
    BY <2>1, <2>2, <2>3
  <2>8. \A e \in Dev : barrierStatus[e] # "working"
    BY <2>3
  <2> QED
    BY <2>5, <2>6, <2>7, <2>8
    DEF Barrier!BarrierNext, Barrier!Advance, Barrier!Working
<1>2. CASE ReleaseDevice
  <2>1. \A e \in Dev : Released(e)' <=> Released(e)
    BY <1>2 DEF ReleaseDevice, TypeOK, Released
  <2> QED
    BY <1>2, <2>1 DEF ReleaseDevice, Barrier!barrierVars, barrierStatus
<1>3. CASE AnnounceFirstSlot \/ LoopAgain \/ LoopStop
  <2>1. \A e \in Dev : Released(e)' <=> Released(e)
    BY <1>3 DEF AnnounceFirstSlot, LoopAgain, LoopStop, Released
  <2> QED
    BY <1>3, <2>1
    DEF AnnounceFirstSlot, LoopAgain, LoopStop, Barrier!barrierVars, barrierStatus
<1>4. CASE ScanDevice \/ ScanWait \/ AllFinished \/ SpuriousWakeTimer
  <2>1. /\ UNCHANGED << time, done, fsh >>
        /\ tpc # "release" /\ tpc' # "release"
    BY <1>4 DEF ScanDevice, ScanWait, AllFinished, SpuriousWakeTimer
  <2> QED
    BY <2>1 DEF Barrier!barrierVars, barrierStatus, Released
<1> QED
  BY <1>1, <1>2, <1>3, <1>4 DEF TimerStep

(* Every step of the program is a step of the barrier or leaves it alone.  *)
LEMMA StepRefines ==
  ASSUME IInv, [Next]_vars
  PROVE  [Barrier!BarrierNext]_(Barrier!barrierVars)
<1>1. CASE MainStep \/ UNCHANGED vars
  <2>1. UNCHANGED << time, done, fsh, tpc, cur >>
    BY <1>1 DEF MainStep, StopTimer, FreeDevices, vars, timerVars
  <2> QED
    BY <2>1 DEF Barrier!barrierVars, barrierStatus, Released
<1> QED
  BY <1>1, DeviceStepRefines, TimerStepRefines DEF Next, SpuriousWake, Ended

(* timer.c, seen through done, fsh and the timer's place in dev_list, does *)
(* nothing the slot barrier does not allow.                                *)
THEOREM RefinesBarrier ==
  Spec => Barrier!BarrierInit /\ [][Barrier!BarrierNext]_(Barrier!barrierVars)
<1>1. IInv /\ [Next]_vars => [Barrier!BarrierNext]_(Barrier!barrierVars)
  BY StepRefines
<1> QED
  BY <1>1, InitInvariant, StepInvariant, InitRefines, PTL DEF Spec
=============================================================================
