------------------------------ MODULE DeviceDriver ------------------------------
(***************************************************************************)
(* drivers/device_driver.c: drivers that are registered, loaded, unloaded    *)
(* and unregistered while devices of theirs are created, opened, used,       *)
(* closed and deleted in any order.  Ids are places and no place is used     *)
(* twice.  The functions a driver supplies are external: they may fail and   *)
(* do not call the manager.  Names, numbers and counts of bytes are left     *)
(* out.                                                                      *)
(***************************************************************************)
EXTENDS Integers, Sequences, FiniteSets

CONSTANTS
  MaxDrivers,      \* MAX_DRIVERS
  MaxInstances,    \* MAX_DRIVER_INSTANCES
  Ops              \* the sets of functions drivers come with

VARIABLES
  drivers, instances,
  call,            \* the driver function the last operation called, if any
  stray,           \* an operation looked for the driver of a deleted device, drivers[-1]
  initialised,     \* history: the devices initialize succeeded for and cleanup was not called for
  forgotten        \* history: the drivers that were unloaded while they had devices

vars == <<drivers, instances, call, stray, initialised, forgotten>>

Function == {"initialize", "cleanup", "read", "write", "ioctl"}
NoOps == {}        \* ops is NULL in a descriptor that was cleared
NoDriver == 0      \* driver_id of a deleted device

DriverDescriptor ==
  [loaded : BOOLEAN, ops : Ops \union {NoOps}, device_count : 0..MaxInstances]
DeviceInstance == [driver_id : 0..MaxDrivers, is_active : BOOLEAN]

Idle == [function |-> "none", device |-> 0]
Call == {Idle} \union [function : Function, device : 1..MaxInstances]

TypeOK ==
  /\ drivers \in Seq(DriverDescriptor) /\ Len(drivers) <= MaxDrivers
  /\ instances \in Seq(DeviceInstance) /\ Len(instances) <= MaxInstances
  /\ call \in Call /\ stray \in BOOLEAN
  /\ initialised \subseteq DOMAIN instances /\ forgotten \subseteq DOMAIN drivers

Init ==
  /\ drivers = << >> /\ instances = << >> /\ call = Idle /\ stray = FALSE
  /\ initialised = {} /\ forgotten = {}

-----------------------------------------------------------------------------
(* Drivers *)

driver_register(ops) ==
  /\ Len(drivers) < MaxDrivers
  /\ drivers' = Append(drivers, [loaded |-> FALSE, ops |-> ops, device_count |-> 0])
  /\ call' = Idle /\ UNCHANGED <<instances, stray, initialised, forgotten>>

driver_load(d) ==
  /\ ~drivers[d].loaded
  /\ drivers' = [drivers EXCEPT ![d].loaded = TRUE]
  /\ call' = Idle /\ UNCHANGED <<instances, stray, initialised, forgotten>>

\* The devices stay, open ones included; only their number is forgotten.
driver_unload(d) ==
  /\ drivers[d].loaded
  /\ drivers' = [drivers EXCEPT ![d].loaded = FALSE, ![d].device_count = 0]
  /\ forgotten' = IF drivers[d].device_count > 0 THEN forgotten \union {d} ELSE forgotten
  /\ call' = Idle /\ UNCHANGED <<instances, stray, initialised>>

Unregister(d) ==
  /\ drivers' = [drivers EXCEPT ![d] = [loaded |-> FALSE, ops |-> NoOps, device_count |-> 0]]
  /\ call' = Idle /\ UNCHANGED <<instances, stray, initialised, forgotten>>

\* Unloads the driver, if it is loaded, and clears the descriptor.
driver_unregister(d) == drivers[d].device_count = 0 /\ Unregister(d)

-----------------------------------------------------------------------------
(* Devices *)

device_create(d) ==
  /\ Len(instances) < MaxInstances /\ drivers[d].loaded
  /\ instances' = Append(instances, [driver_id |-> d, is_active |-> FALSE])
  /\ drivers' = [drivers EXCEPT ![d].device_count = @ + 1]
  /\ call' = Idle /\ UNCHANGED <<stray, initialised, forgotten>>

Deleted(i) == instances[i].driver_id = NoDriver
OpsOf(i) == IF Deleted(i) THEN NoOps ELSE drivers[instances[i].driver_id].ops

\* Nothing tells a deleted device from one that is closed: the operations that
\* accept a closed device go on to drivers[-1].
Stray(i) ==
  /\ Deleted(i) /\ stray' = TRUE
  /\ call' = Idle /\ UNCHANGED <<drivers, instances, initialised, forgotten>>

device_delete(i) ==
  /\ ~instances[i].is_active
  /\ \/ Stray(i)
     \/ /\ ~Deleted(i)
        /\ LET d == instances[i].driver_id
           IN drivers' = [drivers EXCEPT ![d].device_count = IF @ > 0 THEN @ - 1 ELSE 0]
        /\ instances' = [instances EXCEPT ![i] = [driver_id |-> NoDriver, is_active |-> FALSE]]
        /\ call' = Idle /\ UNCHANGED <<stray, initialised, forgotten>>

CanOpenAgain(i) == TRUE                     \* mistaken: an open device is opened once more
CanOpen(i) == ~instances[i].is_active

\* initialize may succeed or fail
device_open(i) ==
  /\ CanOpen(i)
  /\ \/ Stray(i)
     \/ /\ "initialize" \in OpsOf(i)
        /\ call' = [function |-> "initialize", device |-> i]
        /\ \/ instances' = [instances EXCEPT ![i].is_active = TRUE] /\ initialised' = initialised \union {i}
           \/ UNCHANGED <<instances, initialised>>
        /\ UNCHANGED <<drivers, stray, forgotten>>

\* A driver that is gone, or has no cleanup, is not called.
device_close(i) ==
  /\ instances[i].is_active
  /\ instances' = [instances EXCEPT ![i].is_active = FALSE]
  /\ IF "cleanup" \in OpsOf(i)
     THEN call' = [function |-> "cleanup", device |-> i] /\ initialised' = initialised \ {i}
     ELSE call' = Idle /\ UNCHANGED initialised
  /\ UNCHANGED <<drivers, stray, forgotten>>

Use(i, function) ==
  /\ instances[i].is_active /\ function \in OpsOf(i)
  /\ call' = [function |-> function, device |-> i]
  /\ UNCHANGED <<drivers, instances, stray, initialised, forgotten>>

device_read(i) == Use(i, "read")
device_write(i) == Use(i, "write")
device_ioctl(i) == Use(i, "ioctl")

Next ==
  /\ ~stray        \* what the program does after that is undefined
  /\ \/ \E ops \in Ops : driver_register(ops)
     \/ \E d \in DOMAIN drivers : driver_load(d) \/ driver_unload(d) \/ driver_unregister(d) \/ device_create(d)
     \/ \E i \in DOMAIN instances :
          \/ device_delete(i) \/ device_open(i) \/ device_close(i)
          \/ device_read(i) \/ device_write(i) \/ device_ioctl(i)

Spec == Init /\ [][Next]_vars

-----------------------------------------------------------------------------

\* initialize and cleanup alternate for every device of a driver that has both,
\* and every other function is called only between them, although drivers are
\* unloaded, reloaded and unregistered while devices are open
\* (device_open, device_close).
CallsInOrder ==
  [][/\ call'.function = "initialize" =>
          call'.device \notin initialised \/ "cleanup" \notin OpsOf(call'.device)
     /\ call'.function \in {"cleanup", "read", "write", "ioctl"} => call'.device \in initialised]_vars

DevicesOf(d) == {i \in DOMAIN instances : instances[i].driver_id = d}

\* device_count never exceeds the devices a driver has, and it is their number
\* unless the driver was once unloaded with devices.
DeviceCountExact ==
  \A d \in DOMAIN drivers :
    /\ drivers[d].device_count <= Cardinality(DevicesOf(d))
    /\ d \notin forgotten => drivers[d].device_count = Cardinality(DevicesOf(d))

\* An open device has its driver: driver_unregister finds its users, unless
\* driver_unload made the manager forget them.  A device that is closed after its
\* driver has gone is never cleaned up, and this is the only way that happens.
UsedIsRegistered ==
  \A i \in DOMAIN instances :
    (instances[i].is_active \/ i \in initialised) /\ ~Deleted(i) /\ OpsOf(i) = NoOps => instances[i].driver_id \in forgotten
=============================================================================
