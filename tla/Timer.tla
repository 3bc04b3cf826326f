------------------------------- MODULE Timer -------------------------------
(***************************************************************************)
(* timer.c: the thread that steps the simulation from one time slot to the *)
(* next, and the calls by which its devices (CPU threads and loader) keep  *)
(* step with it: next_slot and detach_event; and stop_timer, by which main *)
(* shuts it down.                                                          *)
(*                                                                         *)
(* Every device has two mutex/condition pairs.  event_lock/event_cond says *)
(* "the device is done with its slot" to the timer, timer_lock/timer_cond  *)
(* says "the next slot has begun" to the device.  The flag done is written *)
(* to 1 under the first lock and to 0 under the second.  Each critical     *)
(* section of timer.c reads or writes the shared flags of one device at    *)
(* one point, so each one is one action here; a pthread_cond_wait is the   *)
(* state "evwait" (timer) or "sleep" (device), left when the condition is  *)
(* signalled or, as POSIX allows, for no reason at all.                    *)
(***************************************************************************)
EXTENDS Integers

CONSTANTS
  N,         (* devices, numbered by their place in dev_list               *)
  MaxSlots   (* bound: no device calls next_slot more often than this      *)

ASSUME TimerAssumption == N \in Nat \ {0} /\ MaxSlots \in Nat

Dev == 1..N

VARIABLES
  time,      (* _time                                                      *)
  announced, (* the last slot number timer_routine printed, -1 for none    *)
  done,      (* done[d], fsh[d]: the two flags of struct timer_id_t        *)
  fsh,
  dpc,       (* device: "run" its slot, "check" done, "sleep", "off"       *)
  slot,      (* history: how many calls of next_slot have returned         *)
  tpc,       (* timer: "start", "scan", "evwait", "release", "exit"        *)
  cur,       (* timer: temp, as a place in dev_list; N + 1 for NULL        *)
  nfsh,      (* timer: the local counter fsh                               *)
  timer_stop,
  main       (* main: "join" the threads, "stopping" the timer, "freed"    *)

timerVars == << time, announced, tpc, cur, nfsh >>
devVars   == << dpc, slot >>
mainVars  == << timer_stop, main >>
vars == << timerVars, done, fsh, devVars, mainVars >>

TypeOK ==
  /\ time \in 0..MaxSlots
  /\ announced \in -1..MaxSlots
  /\ done \in [Dev -> BOOLEAN]
  /\ fsh \in [Dev -> BOOLEAN]
  /\ dpc \in [Dev -> {"run", "check", "sleep", "off"}]
  /\ slot \in [Dev -> 0..MaxSlots]
  /\ tpc \in {"start", "scan", "evwait", "release", "exit"}
  /\ cur \in 1..(N + 1)
  /\ nfsh \in 0..N
  /\ timer_stop \in BOOLEAN
  /\ main \in {"join", "stopping", "freed"}

(* main has attached N devices and called start_timer and pthread_create.  *)
Init ==
  /\ time = 0
  /\ announced = -1
  /\ done = [d \in Dev |-> FALSE]
  /\ fsh = [d \in Dev |-> FALSE]
  /\ dpc = [d \in Dev |-> "run"]
  /\ slot = [d \in Dev |-> 0]
  /\ tpc = "start"
  /\ cur = 1
  /\ nfsh = 0
  /\ timer_stop = FALSE
  /\ main = "join"

-----------------------------------------------------------------------------
(* The devices.                                                            *)

(* Mutant of SignalEvent: the signal is forgotten.                         *)
NoSignalEvent(d) == UNCHANGED tpc

(* pthread_cond_signal(&event_cond): the timer may be waiting for device d *)
SignalEvent(d) ==
  tpc' = IF tpc = "evwait" /\ cur = d THEN "scan" ELSE tpc

(* next_slot, first half: report the slot done.                            *)
NextSlotPost(d) ==
  /\ dpc[d] = "run"
  /\ slot[d] < MaxSlots
  /\ done' = [done EXCEPT ![d] = TRUE]
  /\ SignalEvent(d)
  /\ dpc' = [dpc EXCEPT ![d] = "check"]
  /\ UNCHANGED << time, announced, cur, nfsh, fsh, slot, mainVars >>

(* next_slot, second half: while (done) pthread_cond_wait; then return.    *)
NextSlotSleep(d) ==
  /\ dpc[d] = "check"
  /\ done[d]
  /\ dpc' = [dpc EXCEPT ![d] = "sleep"]
  /\ UNCHANGED << timerVars, done, fsh, slot, mainVars >>

(* Mutant of NextSlotReturn: "if (done)" in place of "while (done)".       *)
NextSlotReturnUnchecked(d) ==
  /\ dpc[d] = "check"
  /\ dpc' = [dpc EXCEPT ![d] = "run"]
  /\ slot' = [slot EXCEPT ![d] = @ + 1]
  /\ UNCHANGED << timerVars, done, fsh, mainVars >>

NextSlotReturn(d) ==
  /\ dpc[d] = "check"
  /\ ~done[d]
  /\ dpc' = [dpc EXCEPT ![d] = "run"]
  /\ slot' = [slot EXCEPT ![d] = @ + 1]
  /\ UNCHANGED << timerVars, done, fsh, mainVars >>

(* Mutant of DetachEvent: it does not signal event_cond.                   *)
DetachEventSilent(d) ==
  /\ dpc[d] = "run"
  /\ fsh' = [fsh EXCEPT ![d] = TRUE]
  /\ dpc' = [dpc EXCEPT ![d] = "off"]
  /\ UNCHANGED << timerVars, done, slot, mainVars >>

(* detach_event, the last call of a device's thread.                       *)
DetachEvent(d) ==
  /\ dpc[d] = "run"
  /\ fsh' = [fsh EXCEPT ![d] = TRUE]
  /\ SignalEvent(d)
  /\ dpc' = [dpc EXCEPT ![d] = "off"]
  /\ UNCHANGED << time, announced, cur, nfsh, done, slot, mainVars >>

(* A wait on timer_cond may end although nobody signalled it.              *)
SpuriousWakeDevice(d) ==
  /\ dpc[d] = "sleep"
  /\ dpc' = [dpc EXCEPT ![d] = "check"]
  /\ UNCHANGED << timerVars, done, fsh, slot, mainVars >>

-----------------------------------------------------------------------------
(* timer_routine                                                           *)

(* Slot 0 is printed, then the loop's condition is tested for the first    *)
(* time, as it is after each release pass (LoopAgain, LoopStop).           *)
AnnounceFirstSlot ==
  /\ tpc = "start"
  /\ announced' = time
  /\ tpc' = "release"
  /\ cur' = N + 1
  /\ UNCHANGED << time, nfsh, done, fsh, devVars, mainVars >>

(* The device under temp is done with this slot, or gone.                  *)
ScanDevice ==
  /\ tpc = "scan"
  /\ cur \in Dev
  /\ done[cur] \/ fsh[cur]
  /\ nfsh' = IF fsh[cur] THEN nfsh + 1 ELSE nfsh
  /\ cur' = cur + 1
  /\ UNCHANGED << time, announced, tpc, done, fsh, devVars, mainVars >>

ScanWait ==
  /\ tpc = "scan"
  /\ cur \in Dev
  /\ ~done[cur] /\ ~fsh[cur]
  /\ tpc' = "evwait"
  /\ UNCHANGED << time, announced, cur, nfsh, done, fsh, devVars, mainVars >>

(* Mutant of SpuriousWakeTimer: "if" in place of "while" around the wait.  *)
SpuriousWakeTimerUnchecked ==
  /\ tpc = "evwait"
  /\ tpc' = "scan"
  /\ cur' = cur + 1
  /\ UNCHANGED << time, announced, nfsh, done, fsh, devVars, mainVars >>

SpuriousWakeTimer ==
  /\ tpc = "evwait"
  /\ tpc' = "scan"
  /\ UNCHANGED << time, announced, cur, nfsh, done, fsh, devVars, mainVars >>

(* if (fsh == event) break;                                                *)
AllFinished ==
  /\ tpc = "scan"
  /\ cur = N + 1
  /\ nfsh = N
  /\ tpc' = "exit"
  /\ UNCHANGED << time, announced, cur, nfsh, done, fsh, devVars, mainVars >>

(* Mutant of Tick: the new slot's heading is not printed before the        *)
(* release (the order the code had first, dif.md:76).                      *)
TickUnannounced ==
  /\ tpc = "scan"
  /\ cur = N + 1
  /\ nfsh # N
  /\ time' = time + 1
  /\ tpc' = "release"
  /\ cur' = 1
  /\ UNCHANGED << announced, nfsh, done, fsh, devVars, mainVars >>

(* _time++ and the print of the new slot, before any device is released.   *)
Tick ==
  /\ tpc = "scan"
  /\ cur = N + 1
  /\ nfsh # N
  /\ time' = time + 1
  /\ announced' = time + 1
  /\ tpc' = "release"
  /\ cur' = 1
  /\ UNCHANGED << nfsh, done, fsh, devVars, mainVars >>

(* Mutant of ReleaseDevice: done is cleared but timer_cond not signalled.  *)
ReleaseDeviceSilent ==
  /\ tpc = "release"
  /\ cur \in Dev
  /\ done' = [done EXCEPT ![cur] = FALSE]
  /\ cur' = cur + 1
  /\ UNCHANGED << time, announced, tpc, nfsh, fsh, devVars, mainVars >>

(* done = 0 and pthread_cond_signal(&timer_cond), device by device.        *)
ReleaseDevice ==
  /\ tpc = "release"
  /\ cur \in Dev
  /\ done' = [done EXCEPT ![cur] = FALSE]
  /\ dpc' = IF dpc[cur] = "sleep" THEN [dpc EXCEPT ![cur] = "check"] ELSE dpc
  /\ cur' = cur + 1
  /\ UNCHANGED << time, announced, tpc, nfsh, fsh, slot, mainVars >>

(* Mutant of LoopAgain: the count of finished devices is not reset.        *)
LoopAgainKeepCount ==
  /\ tpc = "release"
  /\ cur = N + 1
  /\ ~timer_stop
  /\ tpc' = "scan"
  /\ cur' = 1
  /\ UNCHANGED << time, announced, nfsh, done, fsh, devVars, mainVars >>

(* while (!timer_stop), then int fsh = 0 and temp = dev_list.              *)
LoopAgain ==
  /\ tpc = "release"
  /\ cur = N + 1
  /\ ~timer_stop
  /\ tpc' = "scan"
  /\ cur' = 1
  /\ nfsh' = 0
  /\ UNCHANGED << time, announced, done, fsh, devVars, mainVars >>

LoopStop ==
  /\ tpc = "release"
  /\ cur = N + 1
  /\ timer_stop
  /\ tpc' = "exit"
  /\ UNCHANGED << time, announced, cur, nfsh, done, fsh, devVars, mainVars >>

-----------------------------------------------------------------------------
(* main: join every device's thread, then stop_timer.                      *)

StopTimer ==
  /\ main = "join"
  /\ \A d \in Dev : dpc[d] = "off"
  /\ timer_stop' = TRUE
  /\ main' = "stopping"
  /\ UNCHANGED << timerVars, done, fsh, devVars >>

FreeDevices ==
  /\ main = "stopping"
  /\ tpc = "exit"
  /\ main' = "freed"
  /\ UNCHANGED << timerVars, done, fsh, devVars, timer_stop >>

-----------------------------------------------------------------------------
DeviceCall(d) ==
  NextSlotPost(d) \/ NextSlotSleep(d) \/ NextSlotReturn(d) \/ DetachEvent(d)

TimerStep ==
  \/ AnnounceFirstSlot \/ ScanDevice \/ ScanWait \/ AllFinished
  \/ Tick \/ ReleaseDevice \/ LoopAgain \/ LoopStop

MainStep == StopTimer \/ FreeDevices

SpuriousWake == SpuriousWakeTimer \/ \E d \in Dev : SpuriousWakeDevice(d)

(* The program has ended.                                                  *)
Ended == main = "freed" /\ UNCHANGED vars

Next ==
  \/ \E d \in Dev : DeviceCall(d)
  \/ TimerStep
  \/ MainStep
  \/ SpuriousWake
  \/ Ended

Spec == Init /\ [][Next]_vars

(* No thread is stopped for ever while it can run, and a device does only  *)
(* finite work before it calls next_slot or detach_event (cpu_routine and  *)
(* ld_routine have no other way to spend a slot).                          *)
Fairness ==
  /\ WF_vars(TimerStep)
  /\ WF_vars(MainStep)
  /\ \A d \in Dev : WF_vars(DeviceCall(d))

FairSpec == Spec /\ Fairness

-----------------------------------------------------------------------------
(* Properties                                                              *)

Blocked(d) == dpc[d] \in {"check", "sleep"}

(* A device that runs is in the slot the timer counts, and one that is     *)
(* inside next_slot is at most the one slot behind that it is about to     *)
(* enter: whatever the wake-ups, next_slot returns once per slot.          *)
Lockstep ==
  \A d \in Dev :
    /\ dpc[d] = "run" => slot[d] = time
    /\ Blocked(d) => slot[d] \in {time - 1, time}

(* Nobody sleeps on a condition that has already come true: done and fsh   *)
(* are tested and the sleep entered under the lock their writer signals    *)
(* with.                                                                   *)
NoLostWakeup ==
  /\ \A d \in Dev : dpc[d] = "sleep" => done[d]
  /\ tpc = "evwait" => ~done[cur] /\ ~fsh[cur]

(* The timer thread never ends, and dev_list is never freed, under a       *)
(* device that still needs it, whichever of the two exits of the loop the  *)
(* race between the last detach_event and stop_timer makes it take.        *)
TimerOutlivesDevices ==
  /\ tpc = "exit" => \A d \in Dev : fsh[d]
  /\ main = "freed" => tpc = "exit" /\ \A d \in Dev : dpc[d] = "off"

(* After slot 0, a device prints its lines under the heading of its slot:  *)
(* "Print next time slot BEFORE signaling devices" (timer.c:59).           *)
AnnouncedBeforeRun ==
  \A d \in Dev : dpc[d] = "run" /\ slot[d] > 0 => announced = slot[d]

(* The same of every slot, slot 0 included, as dif.md:105 states it:      *)
(* "Time slot X" comes BEFORE the actions of that slot.                    *)
EverySlotAnnouncedFirst ==
  \A d \in Dev : Blocked(d) => announced >= slot[d]

(* _time moves only when each attached device has finished the slot that   *)
(* ends and has not been let into the next one.                            *)
TickBarrier ==
  [][time' # time =>
       /\ time' = time + 1
       /\ \A d \in Dev : fsh[d] \/ (done[d] /\ Blocked(d) /\ slot[d] = time)
    ]_vars

(* Every call of next_slot returns.                                        *)
NextSlotReturns == \A d \in Dev : Blocked(d) ~> dpc[d] = "run"

(* Once every device detaches after finitely many slots (MaxSlots here),   *)
(* stop_timer returns.                                                     *)
ShutdownCompletes == <>(main = "freed")

-----------------------------------------------------------------------------
(* Timer implements SlotBarrier.  A device counts as working from the step *)
(* that ends the slot, not from the later one that clears its done flag.   *)

Released(d) == ~done[d] \/ (tpc = "release" /\ cur <= d)

barrierStatus ==
  [d \in Dev |-> IF fsh[d] THEN "left"
                 ELSE IF Released(d) THEN "working" ELSE "arrived"]

Barrier == INSTANCE SlotBarrier
  WITH Devices <- Dev, Horizon <- MaxSlots, status <- barrierStatus

(* The lock and condition protocol of timer.c is the slot barrier, safety  *)
(* and progress.                                                           *)
ImplementsBarrier == Barrier!BarrierSpec
=============================================================================
