------------------------------- MODULE Driver -------------------------------
(***************************************************************************)
(* The list of drivers, src/kernel/driver/driver.c.  A struct driver is a  *)
(* member of Drv, and NoDriver is the null pointer.                        *)
(***************************************************************************)
EXTENDS Sequences

CONSTANTS
  Drv, NoDriver,
  HasInit     \* the drivers whose init is not null

ASSUME DriverAssumption == NoDriver \notin Drv /\ HasInit \subseteq Drv

VARIABLES
  drv_head, drv_tail,
  drv_next,      \* the field next of each driver
  walk,          \* d in driver_init_all
  initialised    \* history: the drivers whose init was called, in order

driverVars == <<drv_head, drv_tail, drv_next, walk, initialised>>

DriverInit ==
  /\ drv_head = NoDriver
  /\ drv_tail = NoDriver
  /\ drv_next = [d \in Drv |-> NoDriver]
  /\ walk = NoDriver
  /\ initialised = <<>>

(* Fault: the tail stays at the first driver. *)
driver_register_TailKept(d) ==
  /\ IF drv_head = NoDriver
     THEN drv_head' = d /\ drv_tail' = d /\ drv_next' = [drv_next EXCEPT ![d] = NoDriver]
     ELSE /\ drv_next' = [[drv_next EXCEPT ![d] = NoDriver] EXCEPT ![drv_tail] = d]
          /\ UNCHANGED <<drv_head, drv_tail>>
  /\ UNCHANGED <<walk, initialised>>

driver_register(d) ==
  /\ drv_next' = LET cut == [drv_next EXCEPT ![d] = NoDriver]
                 IN  IF drv_head = NoDriver THEN cut ELSE [cut EXCEPT ![drv_tail] = d]
  /\ drv_head' = IF drv_head = NoDriver THEN d ELSE drv_head
  /\ drv_tail' = d
  /\ UNCHANGED <<walk, initialised>>

(* The loop of driver_init_all: its start and one round of it. *)
StartWalk == walk' = drv_head /\ UNCHANGED <<drv_head, drv_tail, drv_next, initialised>>

driver_init_all ==
  /\ walk # NoDriver
  /\ initialised' = IF walk \in HasInit THEN Append(initialised, walk) ELSE initialised
  /\ walk' = drv_next[walk]
  /\ UNCHANGED <<drv_head, drv_tail, drv_next>>
=============================================================================
