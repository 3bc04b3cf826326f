---------------------------- MODULE SlotBarrier ----------------------------
(***************************************************************************)
(* What timer.c promises to the threads it drives (the CPUs and the        *)
(* loader, its "devices"), without locks or condition variables.           *)
(*                                                                         *)
(* The simulation runs in numbered time slots.  A device works in the      *)
(* current slot, then calls next_slot and stays arrived until every other  *)
(* attached device has arrived too; the slot number grows and all of them  *)
(* work again.  A device that calls detach_event leaves for good.          *)
(*                                                                         *)
(* Timer.tla implements this specification; OS.tla is built on it.         *)
(***************************************************************************)
EXTENDS Naturals

CONSTANTS
  Devices,   (* the threads attached with attach_event                     *)
  Horizon    (* bound: the slot number is not counted beyond this value    *)


VARIABLES
  time,      (* current_time(): the number of the current slot             *)
  status     (* "working", "arrived" or "left", for every device           *)

barrierVars == << time, status >>

BarrierTypeOK ==
  /\ time \in 0..Horizon
  /\ status \in [Devices -> {"working", "arrived", "left"}]

BarrierInit ==
  /\ time = 0
  /\ status = [d \in Devices |-> "working"]

(* Saturating successor: exact below the horizon.                          *)
NextTime == IF time < Horizon THEN time + 1 ELSE time

Working(d) == status[d] = "working"

(* next_slot, as its caller sees it: blocked from here until Advance.      *)
Arrive(d) ==
  /\ Working(d)
  /\ status' = [status EXCEPT ![d] = "arrived"]
  /\ UNCHANGED time

(* detach_event *)
Leave(d) ==
  /\ Working(d)
  /\ status' = [status EXCEPT ![d] = "left"]
  /\ UNCHANGED time

(* timer_routine: one turn of its loop.                                    *)
Advance ==
  /\ \A d \in Devices : ~Working(d)
  /\ \E d \in Devices : status[d] = "arrived"
  /\ time' = NextTime
  /\ status' = [d \in Devices |->
                  IF status[d] = "arrived" THEN "working" ELSE status[d]]

BarrierNext ==
  \/ \E d \in Devices : Arrive(d) \/ Leave(d)
  \/ Advance

(* The timer thread is never held up by anything but a working device.     *)
BarrierSpec == BarrierInit /\ [][BarrierNext]_barrierVars /\ WF_barrierVars(Advance)
=============================================================================
